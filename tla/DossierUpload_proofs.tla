------------------------ MODULE DossierUpload_proofs ------------------------
(***************************************************************************)
(* The upload's safety for every number of requests, uploads, keys and     *)
(* every quota.  IInv says what the tables have in common at every await   *)
(* and, by StepsJustified, what each request may rely on.                  *)
(***************************************************************************)
EXTENDS DossierUpload, FiniteSetTheorems, WellFoundedInduction, TLAPS

\* The tables.  The rows of two uploads never share a key; a version and its committed intent come
\* and stay together, with the object; a current pointer points to a version; Base stays.
RowsOK ==
    /\ \A i \in UploadIds : version[i] # None <=> intent[i].state = "committed"
    /\ \A i \in UploadIds : version[i] # None => bucket[i] = intent[i].form.content
    /\ \A i, j \in UploadIds :
          HasRow(i) /\ HasRow(j) /\ intent[i].form.key = intent[j].form.key => i = j
    /\ \A d \in UploadIds : current[d] # None => version[current[d]] # None
    /\ version[Base] # None

IInv == TypeOK /\ RowsOK /\ StepsJustified

-----------------------------------------------------------------------------

\* NoForm is a form.
LEMMA NoFormType == NoForm \in Forms
BY ConstantsAssumption DEF NoForm, Forms, ConstantsAssumption

\* A request at rest is a well-typed local state that relies on nothing.
LEMMA IdleType == Idle \in Locals
BY NoFormType, ConstantsAssumption DEF Idle, Locals, Pcs, Callers, Replies, ConstantsAssumption

\* The initial state satisfies the invariant.
LEMMA InitIInv == Init => IInv
<1> SUFFICES ASSUME Init PROVE IInv
    OBVIOUS
<1> USE ConstantsAssumption DEF Init, ConstantsAssumption
<1>1. TypeOK
  <2>1. intent \in [UploadIds -> Intents]
    BY NoFormType DEF Intents, IntentStates
  <2>2. version \in [UploadIds -> Versions \cup {None}]
    BY DEF Versions, BaseRevision
  <2>3. bucket \in [UploadIds -> Contents \cup {None}]
    BY DEF NoForm
  <2>4. req \in [Requests -> Locals]
    BY IdleType
  <2> QED BY <2>1, <2>2, <2>3, <2>4 DEF TypeOK, BaseRevision
<1>2. RowsOK
  <2>1. \A i \in UploadIds : version[i] # None <=> i = Base
    BY NoneAssumption DEF Versions, BaseRevision
  <2> QED BY <2>1 DEF RowsOK, HasRow
<1>3. StepsJustified
  BY DEF StepsJustified, RequestOK, Idle, CleanupPcs
<1> QED BY <1>1, <1>2, <1>3 DEF IInv

-----------------------------------------------------------------------------
(* What every step owes the requests that do not take it.                  *)

\* Tables only move forward: rows keep their form and never leave cleanup, objects of pending
\* intents and versions stay.
Forward ==
    \A i \in UploadIds :
        /\ intent[i].state # "unused" =>
              intent'[i].state # "unused" /\ intent'[i].form = intent[i].form
        /\ intent[i].state \in {"deleting", "deleted", "removed"} =>
              intent'[i].state \in {"deleting", "deleted", "removed"}
        /\ intent[i].state # "unused" /\ intent'[i].state = "pending" =>
              intent[i].state = "pending" /\ (bucket[i] # None => bucket'[i] = bucket[i])
        /\ version[i] # None => version'[i] # None

\* What one request relies on survives a forward step of the tables.
LEMMA RequestStable ==
    ASSUME TypeOK, RowsOK, Forward, NEW q \in Locals, RequestOK(q)
    PROVE  RequestOK(q)'
<1>1. q.form.content \in Contents /\ q.form.content # None
  BY ConstantsAssumption DEF Locals, Forms, ConstantsAssumption
<1>2. ASSUME q.pc \in {"check", "put", "head", "commit", "batch", "recheck", "abort"}
      PROVE  /\ q.held \in UploadIds
             /\ intent'[q.held].state # "unused"
             /\ intent'[q.held].form = q.form
  BY <1>2 DEF RequestOK, Forward
<1>3. ASSUME q.pc \in {"commit", "batch"}, intent'[q.held].state = "pending"
      PROVE  bucket'[q.held] = q.form.content
  BY <1>1, <1>3 DEF RequestOK, Forward
<1>7. \A i \in q.todo : intent'[i].state # "unused"
  BY DEF RequestOK, Forward, Locals
<1>4. ASSUME q.pc \in CleanupPcs
      PROVE  q.target \in UploadIds /\ intent'[q.target].state # "unused"
  BY <1>4 DEF RequestOK, Forward
<1>5. ASSUME q.pc = "delete"
      PROVE  intent'[q.target].state \in {"deleting", "deleted", "removed"}
  BY <1>5 DEF RequestOK, Forward, CleanupPcs
<1>6. ASSUME q.reply \in {"created", "replayed"}
      PROVE  /\ q.pc = "done" /\ q.held \in UploadIds /\ version'[q.held] # None
             /\ intent'[q.held].form = q.form
  <2>1. /\ q.pc = "done" /\ q.held \in UploadIds /\ version[q.held] # None
        /\ intent[q.held].form = q.form
    BY <1>6 DEF RequestOK, Committed
  <2>2. intent[q.held].state # "unused"
    BY <2>1 DEF RowsOK
  <2> QED BY <2>1, <2>2 DEF Forward
<1> QED
  BY <1>2, <1>3, <1>4, <1>5, <1>6, <1>7 DEF RequestOK, Committed

\* A step of one request preserves the invariant if the tables stay well formed and move
\* forward, and the request itself ends up justified.
LEMMA RequestStep ==
    ASSUME IInv, NEW r \in Requests, NEW q \in Locals, Become(r, q),
           TypeOK', RowsOK', Forward, RequestOK(q)'
    PROVE  IInv'
<1>1. \A s \in Requests : RequestOK(req[s])'
  <2> TAKE s \in Requests
  <2>1. CASE s = r
    <3>1. req'[s] = q
      BY <2>1 DEF Become, IInv, TypeOK
    <3> QED BY <3>1 DEF RequestOK, Committed
  <2>2. CASE s # r
    <3>1. req'[s] = req[s] /\ req[s] \in Locals /\ RequestOK(req[s])
      BY <2>2 DEF Become, IInv, TypeOK, StepsJustified
    <3>2. RequestOK(req[s])'
      BY <3>1, RequestStable DEF IInv
    <3> QED BY <3>1, <3>2 DEF RequestOK, Committed
  <2> QED BY <2>1, <2>2
<1> QED BY <1>1 DEF IInv, StepsJustified

\* A step that leaves the tables alone.
LEMMA LocalStep ==
    ASSUME IInv, NEW r \in Requests, NEW q \in Locals, Become(r, q), RequestOK(q),
           UNCHANGED <<ledger, intent, bucket>>, faults' \in 0 .. MaxFaults
    PROVE  IInv'
<1>1. TypeOK'
  BY DEF IInv, TypeOK, Become, ledger
<1>2. RowsOK'
  BY DEF IInv, RowsOK, HasRow, ledger
<1>3. Forward
  BY DEF Forward, ledger
<1>4. RequestOK(q)'
  BY DEF RequestOK, Committed, ledger
<1> QED BY <1>1, <1>2, <1>3, <1>4, RequestStep

\* The fault counter stays in its bound.
LEMMA ChargeType ==
    ASSUME IInv, NEW lost \in BOOLEAN, Charge(lost)
    PROVE  faults' \in 0 .. MaxFaults
BY ConstantsAssumption DEF IInv, TypeOK, Charge, Spend, ConstantsAssumption

-----------------------------------------------------------------------------
(* Where a request can go.                                                 *)

\* A refusal relies on nothing.
LEMMA RefuseOK ==
    ASSUME IInv, NEW r \in Requests, NEW reply \in Replies \ {"created", "replayed"},
           Refuse(r, reply)
    PROVE  \E q \in Locals : Become(r, q) /\ RequestOK(q)
<1> DEFINE q == [Idle EXCEPT !.pc = "done", !.reply = reply]
<1>1. q \in Locals
  BY IdleType DEF Locals, Pcs
<1>2. RequestOK(q)
  BY DEF RequestOK, Idle, CleanupPcs
<1> QED BY <1>1, <1>2 DEF Refuse

\* Going on to a step that relies on the reply only.
LEMMA GoOK ==
    ASSUME IInv, NEW r \in Requests,
           NEW to \in {"sweep", "relookup", "failed", "stage"}, Go(r, to),
           req[r].pc # "done"
    PROVE  \E q \in Locals : Become(r, q) /\ RequestOK(q)
<1> DEFINE q == [req[r] EXCEPT !.pc = to]
<1>1. req[r] \in Locals /\ RequestOK(req[r])
  BY DEF IInv, TypeOK, StepsJustified
<1>2. q \in Locals
  BY <1>1 DEF Locals, Pcs
<1>3. /\ q.pc = to /\ q.reply = req[r].reply /\ q.held = req[r].held /\ q.form = req[r].form
      /\ q.todo = req[r].todo
  BY <1>1 DEF Locals
<1>4. RequestOK(q)
  BY <1>1, <1>3 DEF RequestOK, CleanupPcs
<1> QED BY <1>2, <1>4 DEF Go

\* Going on within a cleanup; a deletion needs the claim.
LEMMA GoCleanupOK ==
    ASSUME IInv, NEW r \in Requests, req[r].pc \in CleanupPcs, NEW to \in CleanupPcs, Go(r, to),
           to = "delete" =>
              intent[req[r].target].state \in {"deleting", "deleted", "removed"}
    PROVE  \E q \in Locals : Become(r, q) /\ RequestOK(q)
<1> DEFINE q == [req[r] EXCEPT !.pc = to]
<1>1. req[r] \in Locals /\ RequestOK(req[r])
  BY DEF IInv, TypeOK, StepsJustified
<1>2. q \in Locals
  BY <1>1 DEF Locals, Pcs
<1>3. /\ q.pc = to /\ q.reply = req[r].reply /\ q.held = req[r].held
      /\ q.form = req[r].form /\ q.target = req[r].target /\ q.todo = req[r].todo
  BY <1>1 DEF Locals
<1>4. RequestOK(q)
  BY <1>1, <1>3 DEF RequestOK, CleanupPcs
<1> QED BY <1>2, <1>4 DEF Go

\* Calling cleanupUploadIntent.
LEMMA CallOK ==
    ASSUME IInv, NEW r \in Requests, NEW i \in UploadIds, NEW caller \in Callers,
           intent[i].state # "unused", CallCleanup(r, i, caller), req[r].pc # "done"
    PROVE  \E q \in Locals : Become(r, q) /\ RequestOK(q)
<1> DEFINE q == [req[r] EXCEPT !.pc = "cleanup", !.target = i, !.caller = caller,
                               !.todo = @ \ {i}]
<1>1. req[r] \in Locals /\ RequestOK(req[r])
  BY DEF IInv, TypeOK, StepsJustified
<1>2. q \in Locals
  BY <1>1 DEF Locals, Pcs, CleanupPcs
<1>3. /\ q.pc = "cleanup" /\ q.reply = req[r].reply /\ q.held = req[r].held
      /\ q.form = req[r].form /\ q.target = i /\ q.todo \subseteq req[r].todo
  BY <1>1 DEF Locals
<1>4. RequestOK(q)
  BY <1>1, <1>3 DEF RequestOK
<1> QED BY <1>2, <1>4 DEF CallCleanup

\* Its return to whoever called it.
LEMMA ReturnOK ==
    ASSUME IInv, NEW r \in Requests, CleanupReturns(r), req[r].pc # "done"
    PROVE  \E q \in Locals : Become(r, q) /\ RequestOK(q)
BY GoOK, RefuseOK DEF CleanupReturns, Replies

\* An error in it.
LEMMA ThrowOK ==
    ASSUME IInv, NEW r \in Requests, CleanupThrows(r), req[r].pc # "done"
    PROVE  \E q \in Locals : Become(r, q) /\ RequestOK(q)
BY ReturnOK, RefuseOK DEF CleanupThrows, Replies

\* One of its calls, answered or not.
LEMMA CleanupGoesOK ==
    ASSUME IInv, NEW r \in Requests, NEW lost \in BOOLEAN, req[r].pc \in CleanupPcs,
           NEW to \in CleanupPcs \ {"delete"}, CleanupGoes(r, lost, to)
    PROVE  /\ \E q \in Locals : Become(r, q) /\ RequestOK(q)
           /\ faults' \in 0 .. MaxFaults
BY ThrowOK, GoCleanupOK, ChargeType DEF CleanupGoes, CleanupPcs

\* A success, once the version is there.
LEMMA AcceptOK ==
    ASSUME IInv, NEW r \in Requests, NEW i \in UploadIds, NEW reply \in {"created", "replayed"},
           version[i] # None, intent[i].form = req[r].form, Accept(r, reply, i)
    PROVE  \E q \in Locals : Become(r, q) /\ RequestOK(q)
<1> DEFINE q == [Idle EXCEPT !.pc = "done", !.reply = reply, !.form = req[r].form, !.held = i]
<1>1. req[r].form \in Forms
  BY DEF IInv, TypeOK, Locals
<1>2. q \in Locals
  BY <1>1, IdleType DEF Locals, Pcs, Replies
<1>3. q.pc = "done" /\ q.held = i /\ q.form = req[r].form /\ q.todo = {}
  BY DEF Idle
<1>4. RequestOK(q)
  BY <1>3 DEF RequestOK, CleanupPcs, Committed
<1> QED BY <1>2, <1>4 DEF Accept

-----------------------------------------------------------------------------
(* The steps that only read.                                               *)

\* What a read step leaves alone, with a justified next local state, is enough.
LEMMA ReadStep ==
    ASSUME IInv, NEW r \in Requests,
           \E q \in Locals : Become(r, q) /\ RequestOK(q),
           UNCHANGED <<ledger, intent, bucket>>, faults' \in 0 .. MaxFaults
    PROVE  IInv'
BY LocalStep

\* Arrival, the sweep's selection and its loop.
LEMMA SweepSteps ==
    ASSUME IInv, NEW r \in Requests, Arrive(r) \/ SelectSweep(r) \/ SweepNext(r)
    PROVE  IInv'
<1>1. faults' \in 0 .. MaxFaults /\ UNCHANGED <<ledger, intent, bucket>>
  BY DEF IInv, TypeOK, Arrive, SelectSweep, SweepNext
<1>2. CASE Arrive(r)
  <2>1. PICK key \in Keys, target \in Targets, content \in Contents,
             expected \in BaseRevision .. IF revision < MaxRevision
                                          THEN revision ELSE revision - 1 :
          Become(r, [Idle EXCEPT !.pc = "select", !.seen = revision,
                !.form = [key |-> key, target |-> target, expected |-> expected,
                          content |-> content]])
    BY <1>2 DEF Arrive
  <2> DEFINE f == [key |-> key, target |-> target, expected |-> expected, content |-> content]
             q == [Idle EXCEPT !.pc = "select", !.seen = revision, !.form = f]
  <2>2. revision \in 1 .. MaxRevision /\ MaxRevision \in Nat
    BY ConstantsAssumption DEF IInv, TypeOK, ConstantsAssumption
  <2>3. expected \in 1 .. MaxRevision - 1
    BY <2>2 DEF BaseRevision
  <2>4. f \in Forms
    BY <2>3, ConstantsAssumption DEF Forms, ConstantsAssumption
  <2>5. q \in Locals
    BY <2>2, <2>4, IdleType DEF Locals, Pcs
  <2>6. RequestOK(q)
    BY DEF RequestOK, Idle, CleanupPcs
  <2> QED BY <1>1, <2>1, <2>5, <2>6, LocalStep
<1>3. CASE SelectSweep(r)
  <2>1. PICK S \in SUBSET SweepCandidates :
          Become(r, [req[r] EXCEPT !.pc = "sweep", !.todo = S])
    BY <1>3 DEF SelectSweep
  <2>0. req[r].pc # "done"
    BY <1>3 DEF SelectSweep, Step
  <2> DEFINE q == [req[r] EXCEPT !.pc = "sweep", !.todo = S]
  <2>2. req[r] \in Locals /\ RequestOK(req[r])
    BY DEF IInv, TypeOK, StepsJustified
  <2>3. q \in Locals
    BY <2>2 DEF Locals, Pcs, SweepCandidates
  <2>4. /\ q.pc = "sweep" /\ q.reply = req[r].reply /\ q.held = req[r].held
        /\ q.form = req[r].form /\ q.todo = S
    BY <2>2 DEF Locals
  <2>5. RequestOK(q)
    BY <2>0, <2>2, <2>4 DEF RequestOK, CleanupPcs, SweepCandidates
  <2> QED BY <1>1, <2>1, <2>3, <2>5, LocalStep
<1>4. CASE SweepNext(r)
  <2>1. PICK i \in req[r].todo : CallCleanup(r, i, "sweep")
    BY <1>4 DEF SweepNext
  <2>2. i \in UploadIds /\ intent[i].state # "unused"
    BY DEF IInv, TypeOK, Locals, StepsJustified, RequestOK
  <2>3. \E q \in Locals : Become(r, q) /\ RequestOK(q)
    BY <1>4, <2>1, <2>2, CallOK DEF Callers, SweepNext, Step
  <2> QED BY <1>1, <2>3, ReadStep
<1> QED BY <1>2, <1>3, <1>4

\* Resuming the intent a key is bound to: only under its own form.
LEMMA ResumeOK ==
    ASSUME IInv, NEW r \in Requests, NEW i \in UploadIds, intent[i].state # "unused",
           Resume(r, i), req[r].pc # "done"
    PROVE  \E q \in Locals : Become(r, q) /\ RequestOK(q)
<1>1. CASE ~Resumable(i, req[r].form)
  BY <1>1, RefuseOK DEF Resume, Replies
<1>2. CASE Resumable(i, req[r].form)
  <2>1. intent[i].form = req[r].form
    BY <1>2 DEF Resumable, SameBinding
  <2>2. CASE intent[i].state = "committed"
    <3>1. version[i] # None
      BY <2>2 DEF IInv, RowsOK
    <3> QED BY <1>2, <2>1, <2>2, <3>1, AcceptOK DEF Resume
  <2>3. CASE intent[i].state # "committed" /\ Expired(i)
    BY <1>2, <2>3, CallOK DEF Resume, Callers
  <2>4. CASE /\ intent[i].state # "committed" /\ ~Expired(i)
             /\ req[r].form.expected # req[r].seen
    BY <1>2, <2>4, RefuseOK DEF Resume, Replies
  <2>5. CASE /\ intent[i].state # "committed" /\ ~Expired(i)
             /\ req[r].form.expected = req[r].seen
    <3> DEFINE q == [req[r] EXCEPT !.pc = "check", !.held = i]
    <3>1. req[r] \in Locals /\ RequestOK(req[r])
      BY DEF IInv, TypeOK, StepsJustified
    <3>2. q \in Locals
      BY <3>1 DEF Locals, Pcs
    <3>3. /\ q.pc = "check" /\ q.held = i /\ q.form = req[r].form
          /\ q.todo = req[r].todo /\ q.reply = req[r].reply
      BY <3>1 DEF Locals
    <3>4. RequestOK(q)
      BY <2>1, <3>1, <3>3 DEF RequestOK, CleanupPcs
    <3> QED BY <1>2, <2>5, <3>2, <3>4 DEF Resume
  <2> QED BY <2>2, <2>3, <2>4, <2>5
<1> QED BY <1>1, <1>2

\* No row under the key: refused, or on to stage one.
LEMMA NoIntentOK ==
    ASSUME IInv, NEW r \in Requests, NoIntent(r), req[r].pc # "done"
    PROVE  \E q \in Locals : Become(r, q) /\ RequestOK(q)
BY RefuseOK, GoOK DEF NoIntent, Replies

\* The two looks for the key's intent.
LEMMA LookupSteps ==
    ASSUME IInv, NEW r \in Requests, Lookup(r) \/ Relookup(r)
    PROVE  IInv'
<1>1. /\ faults' \in 0 .. MaxFaults /\ UNCHANGED <<ledger, intent, bucket>>
      /\ req[r].pc # "done"
  BY DEF IInv, TypeOK, Lookup, Relookup, Step
<1>2. \E q \in Locals : Become(r, q) /\ RequestOK(q)
  <2>1. CASE NoIntent(r)
    BY <1>1, <2>1, NoIntentOK
  <2>2. CASE \E i \in WithKey(req[r].form.key) : Resume(r, i) \/ CallCleanup(r, i, "lookup")
    <3>1. PICK i \in WithKey(req[r].form.key) : Resume(r, i) \/ CallCleanup(r, i, "lookup")
      BY <2>2
    <3>2. i \in UploadIds /\ intent[i].state # "unused"
      BY DEF WithKey, HasRow
    <3> QED BY <1>1, <3>1, <3>2, ResumeOK, CallOK DEF Callers
  <2> QED BY <2>1, <2>2 DEF Lookup, Relookup
<1> QED BY <1>1, <1>2, ReadStep

\* A write that failed is aborted by the request that holds the intent.
LEMMA FailWriteOK ==
    ASSUME IInv, NEW r \in Requests, req[r].pc \in {"put", "head"}, FailWrite(r)
    PROVE  \E q \in Locals : Become(r, q) /\ RequestOK(q)
<1>1. req[r] \in Locals /\ RequestOK(req[r])
  BY DEF IInv, TypeOK, StepsJustified
<1>2. PICK q \in Locals : q = [req[r] EXCEPT !.pc = "abort", !.caller = "writeFailed"]
  BY <1>1 DEF Locals, Pcs, Callers
<1>3. /\ q.pc = "abort" /\ q.held = req[r].held /\ q.form = req[r].form
      /\ q.reply = req[r].reply /\ q.todo = req[r].todo
  BY <1>1, <1>2 DEF Locals
<1>4. RequestOK(q)
  BY <1>1, <1>3 DEF RequestOK, CleanupPcs
<1> QED BY <1>2, <1>4 DEF FailWrite

\* An object that was there is verified before the commit.
LEMMA HeadStep ==
    ASSUME IInv, NEW r \in Requests, HeadObject(r)
    PROVE  IInv'
<1>1. /\ req[r].pc = "head" /\ UNCHANGED <<ledger, intent, bucket>>
      /\ faults' \in 0 .. MaxFaults
  BY DEF HeadObject, Step, IInv, TypeOK
<1>2. CASE FailWrite(r)
  BY <1>1, <1>2, FailWriteOK, ReadStep
<1>3. CASE bucket[req[r].held] = req[r].form.content /\ Go(r, "commit")
  <2>1. req[r] \in Locals /\ RequestOK(req[r])
    BY DEF IInv, TypeOK, StepsJustified
  <2>2. PICK q \in Locals : q = [req[r] EXCEPT !.pc = "commit"]
    BY <2>1 DEF Locals, Pcs
  <2>3. /\ q.pc = "commit" /\ q.held = req[r].held /\ q.form = req[r].form
        /\ q.reply = req[r].reply /\ q.todo = req[r].todo
    BY <2>1, <2>2 DEF Locals
  <2>4. RequestOK(q)
    BY <1>1, <1>3, <2>1, <2>3 DEF RequestOK, CleanupPcs
  <2> QED BY <1>1, <1>3, <2>2, <2>4, ReadStep DEF Go
<1> QED BY <1>2, <1>3 DEF HeadObject

\* Reads while an intent is held: the replay checks, the commit's reads, the last answer.
LEMMA HoldingSteps ==
    ASSUME IInv, NEW r \in Requests,
           CheckCommitted(r) \/ PrepareCommit(r) \/ Recheck(r) \/ AnswerFailed(r)
    PROVE  IInv'
<1>1. faults' \in 0 .. MaxFaults /\ UNCHANGED <<ledger, intent, bucket>>
  BY DEF IInv, TypeOK, CheckCommitted, PrepareCommit, Recheck, AnswerFailed
<1>2. req[r] \in Locals /\ RequestOK(req[r])
  BY DEF IInv, TypeOK, StepsJustified
<1>3. CASE AnswerFailed(r)
  <2>1. \E q \in Locals : Become(r, q) /\ RequestOK(q)
    BY <1>3, RefuseOK DEF AnswerFailed, Replies
  <2> QED BY <1>1, <2>1, ReadStep
<1>4. CASE CheckCommitted(r) \/ PrepareCommit(r) \/ Recheck(r)
  <2>1. /\ req[r].pc \in {"check", "put", "head", "commit", "batch", "recheck", "abort"}
        /\ req[r].held \in UploadIds /\ intent[req[r].held].form = req[r].form
    BY <1>2, <1>4 DEF CheckCommitted, PrepareCommit, Recheck, Step, RequestOK
  <2>2. CASE \E reply \in {"created", "replayed"} :
               version[req[r].held] # None /\ Accept(r, reply, req[r].held)
    <3>1. \E q \in Locals : Become(r, q) /\ RequestOK(q)
      BY <2>1, <2>2, AcceptOK
    <3> QED BY <1>1, <3>1, ReadStep
  <2>3. CASE \E to \in {"put", "recheck"} : Go(r, to)
    <3>1. PICK to \in {"put", "recheck"} : Go(r, to)
      BY <2>3
    <3> DEFINE q == [req[r] EXCEPT !.pc = to]
    <3>2. q \in Locals
      BY <1>2 DEF Locals, Pcs
    <3>3. /\ q.pc = to /\ q.held = req[r].held /\ q.form = req[r].form
          /\ q.reply = req[r].reply /\ q.todo = req[r].todo
      BY <1>2 DEF Locals
    <3>4. Become(r, q)
      BY <3>1 DEF Go
    <3> HIDE DEF q
    <3>5. RequestOK(q)
      BY <1>2, <2>1, <3>3 DEF RequestOK, CleanupPcs
    <3> QED BY <1>1, <3>2, <3>4, <3>5, LocalStep
  <2>4. CASE Recheck(r) /\ Become(r, [req[r] EXCEPT !.pc = "abort", !.caller = "commitFailed"])
    <3> DEFINE q == [req[r] EXCEPT !.pc = "abort", !.caller = "commitFailed"]
    <3>1. q \in Locals
      BY <1>2 DEF Locals, Pcs, Callers
    <3>2. /\ q.pc = "abort" /\ q.held = req[r].held /\ q.form = req[r].form
          /\ q.reply = req[r].reply /\ q.todo = req[r].todo
      BY <1>2 DEF Locals
    <3>3. Become(r, q)
      BY <2>4
    <3> HIDE DEF q
    <3>4. RequestOK(q)
      BY <1>2, <2>1, <3>2 DEF RequestOK, CleanupPcs
    <3> QED BY <1>1, <3>1, <3>3, <3>4, LocalStep
  <2>5. CASE /\ PrepareCommit(r)
             /\ Become(r, [req[r] EXCEPT !.pc = "batch", !.current = current[DocOf(req[r].held)]])
    <3> DEFINE q == [req[r] EXCEPT !.pc = "batch", !.current = current[DocOf(req[r].held)]]
    <3>1. DocOf(req[r].held) \in UploadIds
      BY <2>1, ConstantsAssumption DEF DocOf, IInv, TypeOK, Intents, Forms, ConstantsAssumption
    <3>2. q \in Locals
      BY <1>2, <3>1 DEF Locals, Pcs, IInv, TypeOK
    <3>3. /\ q.pc = "batch" /\ q.held = req[r].held /\ q.form = req[r].form
          /\ q.reply = req[r].reply /\ q.todo = req[r].todo
      BY <1>2 DEF Locals
    <3>4. req[r].pc = "commit"
      BY <2>5 DEF PrepareCommit, Step
    <3>5. RequestOK(q)
      BY <1>2, <2>1, <3>3, <3>4 DEF RequestOK, CleanupPcs
    <3> QED BY <1>1, <2>5, <3>2, <3>5, LocalStep
  <2> QED
    BY <1>4, <2>2, <2>3, <2>4, <2>5 DEF CheckCommitted, PrepareCommit, Recheck
<1> QED BY <1>3, <1>4

\* The reads of a cleanup: only a claimed intent's object is deleted.
LEMMA CleanupReads ==
    ASSUME IInv, NEW r \in Requests, ReadLive(r) \/ ReadClaimed(r)
    PROVE  IInv'
<1>1. /\ faults' \in 0 .. MaxFaults /\ UNCHANGED <<ledger, intent, bucket>>
      /\ req[r].pc \in CleanupPcs /\ req[r].pc # "done"
  BY DEF IInv, TypeOK, ReadLive, ReadClaimed, Step, CleanupPcs
<1>2. \E q \in Locals : Become(r, q) /\ RequestOK(q)
  <2>1. CASE CleanupReturns(r)
    BY <1>1, <2>1, ReturnOK
  <2>2. CASE \E to \in {"finalize", "reclaim", "claim"} : Go(r, to)
    BY <1>1, <2>2, GoCleanupOK DEF CleanupPcs
  <2>3. CASE intent[req[r].target].state = "deleting" /\ Go(r, "delete")
    BY <1>1, <2>3, GoCleanupOK DEF CleanupPcs
  <2> QED BY <2>1, <2>2, <2>3 DEF ReadLive, ReadClaimed
<1> QED BY <1>1, <1>2, ReadStep

\* A request may stop anywhere, and any of its calls may fail.
LEMMA FailureSteps ==
    ASSUME IInv, NEW r \in Requests, CallFails(r) \/ Crash(r)
    PROVE  IInv'
<1>1. Spend /\ UNCHANGED <<ledger, intent, bucket>> /\ req[r].pc # "done"
  BY DEF CallFails, Crash, Step, CleanupPcs
<1>2. faults' \in 0 .. MaxFaults
  BY <1>1, ChargeType DEF Charge
<1>3. CASE CleanupThrows(r) \/ CleanupReturns(r)
  BY <1>1, <1>2, <1>3, ThrowOK, ReturnOK, ReadStep
<1>4. CASE Refuse(r, "error")
  <2>1. \E q \in Locals : Become(r, q) /\ RequestOK(q)
    BY <1>4, RefuseOK DEF Replies
  <2> QED BY <1>1, <1>2, <2>1, ReadStep
<1>5. CASE req[r].pc \in {"commit", "batch"} /\ Go(r, "recheck")
  <2> DEFINE q == [req[r] EXCEPT !.pc = "recheck"]
  <2>1. req[r] \in Locals /\ RequestOK(req[r])
    BY DEF IInv, TypeOK, StepsJustified
  <2>2. q \in Locals
    BY <2>1 DEF Locals, Pcs
  <2>3. /\ q.pc = "recheck" /\ q.held = req[r].held /\ q.form = req[r].form
        /\ q.reply = req[r].reply /\ q.todo = req[r].todo
    BY <2>1 DEF Locals
  <2>4. RequestOK(q)
    BY <1>5, <2>1, <2>3 DEF RequestOK, CleanupPcs
  <2> QED BY <1>1, <1>2, <1>5, <2>2, <2>4, LocalStep DEF Go
<1>6. CASE Step(r, "head") /\ FailWrite(r)
  BY <1>1, <1>2, <1>6, FailWriteOK, ReadStep DEF Step
<1> QED BY <1>3, <1>4, <1>5, <1>6 DEF CallFails, Crash, Step

-----------------------------------------------------------------------------
(* The steps that write.                                                   *)

\* An uncommitted row moves on towards its removal.
LEMMA StateStep ==
    ASSUME IInv, NEW r \in Requests, NEW i \in UploadIds, NEW s,
           <<intent[i].state, s>> \in
              {<<"pending", "deleting">>, <<"deleting", "deleted">>, <<"deleted", "removed">>,
               <<"removed", "removed">>},
           SetState(i, s),
           docs' \in [UploadIds -> {"absent", "provisional", "final"}],
           UNCHANGED <<revision, current, version, bucket>>,
           faults' \in 0 .. MaxFaults,
           \E q \in Locals : Become(r, q) /\ RequestOK(q)
    PROVE  IInv'
<1>1. PICK q \in Locals : Become(r, q) /\ RequestOK(q)
  OBVIOUS
<1>2. intent[i] \in Intents /\ s \in {"deleting", "deleted", "removed"}
  BY DEF IInv, TypeOK
<1>3. \A j \in UploadIds :
        /\ intent'[j].form = intent[j].form
        /\ j # i => intent'[j] = intent[j]
        /\ j = i => intent'[j].state = s
  BY <1>2 DEF SetState, IInv, TypeOK, Intents
<1>4. TypeOK'
  <2>1. intent' \in [UploadIds -> Intents]
    BY <1>2 DEF SetState, IInv, TypeOK, Intents, IntentStates
  <2>2. req' \in [Requests -> Locals]
    BY <1>1 DEF Become, IInv, TypeOK
  <2> QED BY <2>1, <2>2 DEF IInv, TypeOK
<1>5. RowsOK'
  <2>1. \A j \in UploadIds : /\ HasRow(j)' => HasRow(j)
                             /\ intent'[j].state = "committed" <=> intent[j].state = "committed"
    BY <1>2, <1>3 DEF HasRow
  <2> QED BY <1>3, <2>1 DEF IInv, RowsOK
<1>6. Forward
  BY <1>2, <1>3 DEF Forward
<1>7. RequestOK(q)'
  BY <1>1, <1>6, RequestStable DEF IInv
<1> QED BY <1>1, <1>4, <1>5, <1>6, <1>7, RequestStep

\* The claims and the removals of cleanupUploadIntent.
LEMMA CleanupWrites ==
    ASSUME IInv, NEW r \in Requests, NEW lost \in BOOLEAN,
           Claim(r, lost) \/ Finish(r, lost) \/ DeleteDocument(r, lost) \/ DeleteIntent(r, lost)
    PROVE  IInv'
<1> DEFINE i == req[r].target
<1>1. req[r].pc \in CleanupPcs /\ req[r].pc # "done"
  BY DEF Claim, Finish, DeleteDocument, DeleteIntent, Step, CleanupPcs
<1>2. i \in UploadIds
  BY <1>1 DEF IInv, StepsJustified, RequestOK
<1>3. UNCHANGED <<revision, current, version, bucket>>
  BY DEF Claim, Finish, DeleteDocument, DeleteIntent, ledger
<1>4. /\ \E q \in Locals : Become(r, q) /\ RequestOK(q)
      /\ faults' \in 0 .. MaxFaults
  <2>1. CASE DeleteIntent(r, lost)
    BY <1>1, <2>1, ThrowOK, ReturnOK, ChargeType DEF DeleteIntent
  <2>2. CASE Claim(r, lost)
    BY <1>1, <2>2, CleanupGoesOK DEF Claim, CleanupPcs
  <2>3. CASE Finish(r, lost)
    BY <1>1, <2>3, CleanupGoesOK DEF Finish, CleanupPcs
  <2>4. CASE DeleteDocument(r, lost)
    BY <1>1, <2>4, CleanupGoesOK DEF DeleteDocument, CleanupPcs
  <2> QED BY <2>1, <2>2, <2>3, <2>4
<1>5. \/ UNCHANGED <<intent, docs>>
      \/ /\ \E s : /\ <<intent[i].state, s>> \in {<<"pending", "deleting">>,
                              <<"deleting", "deleted">>, <<"deleted", "removed">>,
                              <<"removed", "removed">>}
                    /\ SetState(i, s)
         /\ docs' \in [UploadIds -> {"absent", "provisional", "final"}]
  BY DEF Claim, Finish, DeleteDocument, DeleteIntent, IInv, TypeOK, ledger
<1>6. CASE UNCHANGED <<intent, docs>>
  BY <1>3, <1>4, <1>6, ReadStep DEF ledger
<1>7. CASE /\ \E s : /\ <<intent[i].state, s>> \in {<<"pending", "deleting">>,
                              <<"deleting", "deleted">>, <<"deleted", "removed">>,
                              <<"removed", "removed">>}
                     /\ SetState(i, s)
           /\ docs' \in [UploadIds -> {"absent", "provisional", "final"}]
  BY <1>2, <1>3, <1>4, <1>7, StateStep
<1> QED BY <1>5, <1>6, <1>7

\* The abort claims only what is still pending.
LEMMA AbortStep ==
    ASSUME IInv, NEW r \in Requests, NEW lost \in BOOLEAN, Abort(r, lost)
    PROVE  IInv'
<1> DEFINE i == req[r].held
<1>1. req[r].pc = "abort" /\ faults' \in 0 .. MaxFaults
  BY ChargeType DEF Abort, Step
<1>2. i \in UploadIds /\ intent[i].state # "unused" /\ req[r].caller \in Callers
  BY <1>1 DEF IInv, TypeOK, Locals, StepsJustified, RequestOK
<1>3. \E q \in Locals : Become(r, q) /\ RequestOK(q)
  BY <1>1, <1>2, ReturnOK, CallOK DEF Abort
<1>4. CASE UNCHANGED intent
  BY <1>1, <1>3, <1>4, ReadStep DEF Abort
<1>5. CASE intent[i].state = "pending" /\ SetState(i, "deleting")
  BY <1>1, <1>2, <1>3, <1>5, StateStep DEF Abort, ledger, IInv, TypeOK
<1> QED BY <1>4, <1>5 DEF Abort

\* The object goes only when its intent can no longer commit.
LEMMA DeleteStep ==
    ASSUME IInv, NEW r \in Requests, NEW lost \in BOOLEAN, DeleteObject(r, lost)
    PROVE  IInv'
<1> DEFINE i == req[r].target
<1>1. /\ req[r].pc = "delete" /\ bucket' = [bucket EXCEPT ![i] = None]
      /\ CleanupGoes(r, lost, "finish") /\ UNCHANGED <<ledger, intent>>
  BY DEF DeleteObject, Step
<1>2. i \in UploadIds /\ intent[i].state \in {"deleting", "deleted", "removed"}
  BY <1>1 DEF IInv, StepsJustified, RequestOK, CleanupPcs
<1>3. PICK q \in Locals : Become(r, q) /\ RequestOK(q)
  BY <1>1, CleanupGoesOK DEF CleanupPcs
<1>4. faults' \in 0 .. MaxFaults
  BY <1>1, CleanupGoesOK DEF CleanupPcs
<1>5. TypeOK'
  BY <1>1, <1>2, <1>3, <1>4 DEF IInv, TypeOK, Become, ledger
<1>6. \A j \in UploadIds : j # i => bucket'[j] = bucket[j]
  BY <1>1 DEF IInv, TypeOK
<1>7. RowsOK'
  BY <1>1, <1>2, <1>6 DEF IInv, RowsOK, HasRow, ledger
<1>8. Forward
  BY <1>1, <1>2, <1>6 DEF Forward, ledger
<1>9. RequestOK(q)'
  BY <1>3, <1>8, RequestStable DEF IInv
<1> QED BY <1>3, <1>5, <1>7, <1>8, <1>9, RequestStep

\* A put creates an object or leaves the one that is there; only its own goes on to commit unseen.
LEMMA PutStep ==
    ASSUME IInv, NEW r \in Requests, NEW lost \in BOOLEAN, Put(r, lost)
    PROVE  IInv'
<1> DEFINE i == req[r].held
           content == req[r].form.content
           stored == [bucket EXCEPT ![i] = IF @ = None THEN content ELSE @]
<1>1. /\ req[r].pc = "put" /\ UNCHANGED <<ledger, intent>>
      /\ bucket' \in {bucket, stored}
      /\ \/ FailWrite(r)
         \/ bucket' = stored /\ bucket[i] = None /\ Go(r, "commit")
         \/ bucket' = stored /\ Go(r, "head")
      /\ Spend \/ UNCHANGED faults
  BY DEF Put, Step
<1>2. req[r] \in Locals /\ RequestOK(req[r])
  BY DEF IInv, TypeOK, StepsJustified
<1>3. /\ i \in UploadIds /\ intent[i].state # "unused" /\ intent[i].form = req[r].form
      /\ content \in Contents
  BY <1>1, <1>2 DEF RequestOK, Locals, Forms
<1>4. faults' \in 0 .. MaxFaults
  BY <1>1, ConstantsAssumption DEF IInv, TypeOK, Spend, ConstantsAssumption
<1>5. bucket' \in [UploadIds -> Contents \cup {None}]
  BY <1>1, <1>3 DEF IInv, TypeOK
<1>6. \A j \in UploadIds : bucket[j] # None => bucket'[j] = bucket[j]
  BY <1>1, <1>3 DEF IInv, TypeOK
<1>7. RowsOK'
  <2>1. \A j \in UploadIds : version[j] # None => bucket[j] # None
    BY ConstantsAssumption DEF IInv, RowsOK, TypeOK, Intents, Forms, ConstantsAssumption
  <2> QED BY <1>1, <1>6, <2>1 DEF IInv, RowsOK, HasRow, ledger
<1>8. Forward
  BY <1>1, <1>6 DEF Forward, ledger
<1>9. \E q \in Locals : Become(r, q) /\ RequestOK(q)'
  <2>1. CASE FailWrite(r)
    <3>1. PICK q \in Locals : Become(r, q) /\ RequestOK(q)
      BY <1>1, <2>1, FailWriteOK
    <3> QED BY <1>8, <3>1, RequestStable DEF IInv
  <2>2. CASE bucket' = stored /\ bucket[i] = None /\ Go(r, "commit")
    <3>1. PICK q \in Locals : q = [req[r] EXCEPT !.pc = "commit"]
      BY <1>2 DEF Locals, Pcs
    <3>2. /\ q.pc = "commit" /\ q.held = i /\ q.form = req[r].form
          /\ q.reply = req[r].reply /\ q.todo = req[r].todo
      BY <1>2, <3>1 DEF Locals
    <3>3. q.reply \notin {"created", "replayed"} /\ \A j \in q.todo : intent[j].state # "unused"
      BY <1>1, <1>2, <3>2 DEF RequestOK
    <3>4. bucket'[q.held] = q.form.content /\ UNCHANGED <<intent, version>>
      BY <1>1, <1>3, <2>2, <3>2 DEF ledger, IInv, TypeOK
    <3>5. RequestOK(q)'
      BY <1>3, <3>2, <3>3, <3>4 DEF RequestOK, CleanupPcs
    <3> QED BY <2>2, <3>1, <3>5 DEF Go
  <2>3. CASE Go(r, "head")
    <3>1. PICK q \in Locals : q = [req[r] EXCEPT !.pc = "head"]
      BY <1>2 DEF Locals, Pcs
    <3>2. /\ q.pc = "head" /\ q.held = i /\ q.form = req[r].form
          /\ q.reply = req[r].reply /\ q.todo = req[r].todo
      BY <1>2, <3>1 DEF Locals
    <3>3. RequestOK(q)
      BY <1>1, <1>2, <1>3, <3>2 DEF RequestOK, CleanupPcs
    <3> QED BY <1>8, <2>3, <3>1, <3>3, RequestStable DEF Go, IInv
  <2> QED BY <1>1, <2>1, <2>2, <2>3
<1>10. PICK q \in Locals : Become(r, q) /\ RequestOK(q)'
  BY <1>9
<1>11. TypeOK'
  BY <1>1, <1>4, <1>5, <1>10 DEF IInv, TypeOK, Become, ledger
<1> QED BY <1>7, <1>8, <1>10, <1>11, RequestStep

\* Time, and the Matter's other mutations.
LEMMA EnvironmentSteps ==
    ASSUME IInv, OtherMutation \/ Tick
    PROVE  IInv'
<1>1. CASE OtherMutation
  <2>1. TypeOK' /\ RowsOK'
    BY <1>1, ConstantsAssumption
    DEF OtherMutation, IInv, TypeOK, RowsOK, HasRow, ConstantsAssumption
  <2>2. StepsJustified'
    BY <1>1 DEF OtherMutation, IInv, StepsJustified, RequestOK, Committed
  <2> QED BY <2>1, <2>2 DEF IInv
<1>2. CASE Tick
  <2>1. \A i \in UploadIds :
          /\ intent'[i] \in Intents
          /\ intent'[i].form = intent[i].form /\ intent'[i].state = intent[i].state
    <3> TAKE i \in UploadIds
    <3>1. intent[i] \in Intents /\ TTL \in Nat
      BY ConstantsAssumption DEF IInv, TypeOK, ConstantsAssumption
    <3>2. CASE Running(i)
      <4>1. intent'[i] = [intent[i] EXCEPT !.left = @ - 1]
        BY <1>2, <3>2 DEF Tick
      <4>2. intent[i].left \in 0 .. TTL
        BY <3>1, <3>2 DEF Running, Intents
      <4> QED BY <3>1, <4>1, <4>2 DEF Intents
    <3>3. CASE ~Running(i)
      BY <1>2, <3>1, <3>3 DEF Tick
    <3> QED BY <3>2, <3>3
  <2>2. TypeOK'
    <3>1. intent' \in [UploadIds -> Intents]
      BY <1>2, <2>1 DEF Tick
    <3> QED BY <1>2, <3>1 DEF Tick, IInv, TypeOK, ledger
  <2>3. RowsOK'
    BY <1>2, <2>1 DEF Tick, IInv, RowsOK, HasRow, ledger
  <2>4. Forward
    BY <1>2, <2>1 DEF Tick, Forward, ledger
  <2>5. StepsJustified'
    <3>1. \A r \in Requests : RequestOK(req[r])'
      <4> TAKE r \in Requests
      <4>1. req'[r] = req[r] /\ req[r] \in Locals /\ RequestOK(req[r])
        BY <1>2 DEF Tick, IInv, TypeOK, StepsJustified
      <4> QED BY <2>4, <4>1, RequestStable DEF IInv, RequestOK, Committed
    <3> QED BY <3>1 DEF StepsJustified
  <2> QED BY <2>2, <2>3, <2>5 DEF IInv
<1> QED BY <1>1, <1>2

\* A staged intent is the first row under its key.
LEMMA StageStep ==
    ASSUME IInv, NEW r \in Requests, Stage(r)
    PROVE  IInv'
<1> DEFINE f == req[r].form
<1>1. /\ req[r].pc = "stage" /\ UNCHANGED <<revision, current, version, bucket>>
      /\ req[r] \in Locals /\ RequestOK(req[r]) /\ f \in Forms
  BY DEF Stage, Step, IInv, TypeOK, StepsJustified, Locals
<1>2. CASE \E i \in UploadIds :
             /\ intent[i].state = "unused" /\ WithKey(f.key) = {}
             /\ intent' = [intent EXCEPT ![i] = [state |-> "pending", form |-> f, left |-> TTL]]
             /\ docs' = IF f.target = NewDocument
                        THEN [docs EXCEPT ![i] = "provisional"] ELSE docs
             /\ Become(r, [req[r] EXCEPT !.pc = "check", !.held = i])
             /\ UNCHANGED faults
  <2>1. PICK i \in UploadIds :
             /\ intent[i].state = "unused" /\ WithKey(f.key) = {}
             /\ intent' = [intent EXCEPT ![i] = [state |-> "pending", form |-> f, left |-> TTL]]
             /\ docs' = IF f.target = NewDocument
                        THEN [docs EXCEPT ![i] = "provisional"] ELSE docs
             /\ Become(r, [req[r] EXCEPT !.pc = "check", !.held = i])
             /\ UNCHANGED faults
    BY <1>2
  <2>2. PICK q \in Locals : q = [req[r] EXCEPT !.pc = "check", !.held = i]
    BY <1>1 DEF Locals, Pcs
  <2>3. /\ q.pc = "check" /\ q.held = i /\ q.form = f
        /\ q.reply = req[r].reply /\ q.todo = req[r].todo
    BY <1>1, <2>2 DEF Locals
  <2>4. /\ intent'[i].state = "pending" /\ intent'[i].form = f
        /\ \A j \in UploadIds : j # i => intent'[j] = intent[j]
    BY <2>1 DEF IInv, TypeOK
  <2>5. TypeOK'
    <3>1. intent' \in [UploadIds -> Intents]
      BY <1>1, <2>1, ConstantsAssumption
      DEF IInv, TypeOK, Intents, IntentStates, ConstantsAssumption
    <3>2. req' \in [Requests -> Locals]
      BY <2>1, <2>2 DEF Become, IInv, TypeOK
    <3>3. docs' \in [UploadIds -> {"absent", "provisional", "final"}]
      BY <2>1 DEF IInv, TypeOK
    <3> QED BY <1>1, <2>1, <3>1, <3>2, <3>3 DEF IInv, TypeOK
  <2>6. RowsOK'
    <3>1. \A j \in UploadIds : HasRow(j) => intent[j].form.key # f.key
      BY <2>1 DEF WithKey
    <3> QED BY <1>1, <2>1, <2>4, <3>1 DEF IInv, RowsOK, HasRow
  <2>7. Forward
    BY <1>1, <2>1, <2>4 DEF Forward
  <2>8. RequestOK(q)'
    <3>1. q.reply \notin {"created", "replayed"} /\ \A j \in q.todo : intent[j].state # "unused"
      BY <1>1, <2>3 DEF RequestOK
    <3>2. q.todo \subseteq UploadIds
      BY DEF Locals
    <3> QED BY <2>3, <2>4, <3>1, <3>2 DEF RequestOK, CleanupPcs
  <2> QED BY <2>1, <2>2, <2>5, <2>6, <2>7, <2>8, RequestStep
<1>3. CASE UNCHANGED <<intent, docs>>
  <2>1. faults' \in 0 .. MaxFaults
    <3>1. Spend \/ UNCHANGED faults
      BY DEF Stage
    <3> QED BY <3>1, ConstantsAssumption DEF Spend, IInv, TypeOK, ConstantsAssumption
  <2>2. CASE Refuse(r, "upload_intent_conflict")
    <3>1. \E q \in Locals : Become(r, q) /\ RequestOK(q)
      BY <2>2, RefuseOK DEF Replies
    <3> QED BY <1>1, <1>3, <2>1, <3>1, ReadStep DEF ledger
  <2>3. CASE \E i \in WithKey(f.key) :
               /\ Resumable(i, f)
               /\ Become(r, [req[r] EXCEPT !.pc = "check", !.held = i])
    <3>1. PICK i \in WithKey(f.key) :
               /\ Resumable(i, f)
               /\ Become(r, [req[r] EXCEPT !.pc = "check", !.held = i])
      BY <2>3
    <3>2. i \in UploadIds /\ intent[i].state # "unused" /\ intent[i].form = f
      BY <3>1 DEF WithKey, HasRow, Resumable, SameBinding
    <3>3. PICK q \in Locals : q = [req[r] EXCEPT !.pc = "check", !.held = i]
      BY <1>1, <3>2 DEF Locals, Pcs
    <3>4. /\ q.pc = "check" /\ q.held = i /\ q.form = f
          /\ q.reply = req[r].reply /\ q.todo = req[r].todo
      BY <1>1, <3>3 DEF Locals
    <3>5. RequestOK(q)
      BY <1>1, <3>2, <3>4 DEF RequestOK, CleanupPcs
    <3> QED BY <1>1, <1>3, <2>1, <3>1, <3>3, <3>5, LocalStep DEF ledger
  <2>4. ~ \E i \in UploadIds :
            /\ intent[i].state = "unused"
            /\ intent' = [intent EXCEPT ![i] = [state |-> "pending", form |-> f, left |-> TTL]]
    <3> SUFFICES ASSUME NEW i \in UploadIds, intent[i].state = "unused",
                        intent' = [intent EXCEPT ![i] =
                                     [state |-> "pending", form |-> f, left |-> TTL]]
                 PROVE  FALSE
      OBVIOUS
    <3>1. intent'[i].state = "pending"
      BY DEF IInv, TypeOK
    <3> QED BY <1>3, <3>1
  <2> QED BY <2>2, <2>3, <2>4 DEF Stage
<1> QED BY <1>2, <1>3 DEF Stage, StageGuard

\* The document of an upload.
LEMMA DocOfType ==
    ASSUME TypeOK, NEW i \in UploadIds
    PROVE  DocOf(i) \in UploadIds
BY ConstantsAssumption DEF DocOf, TypeOK, Intents, Forms, ConstantsAssumption

\* The batch commits a pending intent, whose object is there, over the current version.
LEMMA CommitStep ==
    ASSUME IInv, NEW r \in Requests, NEW lost \in BOOLEAN, CommitBatch(r, lost)
    PROVE  IInv'
<1> DEFINE i == req[r].held
           p == req[r].current
           d == DocOf(i)
           recheck == [req[r] EXCEPT !.pc = "recheck"]
<1>1. /\ req[r].pc = "batch" /\ UNCHANGED bucket /\ faults' \in 0 .. MaxFaults
      /\ req[r] \in Locals /\ RequestOK(req[r])
  BY ChargeType DEF CommitBatch, Step, IInv, TypeOK, StepsJustified
<1>2. /\ i \in UploadIds /\ intent[i].state # "unused" /\ intent[i].form = req[r].form
      /\ d \in UploadIds /\ p \in UploadIds \cup {None} /\ req[r].form \in Forms
  BY <1>1, DocOfType DEF RequestOK, IInv, Locals
<1>3. recheck \in Locals /\ RequestOK(recheck)
  <2>1. recheck \in Locals
    BY <1>1 DEF Locals, Pcs
  <2>2. /\ recheck.pc = "recheck" /\ recheck.held = i /\ recheck.form = req[r].form
        /\ recheck.reply = req[r].reply /\ recheck.todo = req[r].todo
    BY <1>1 DEF Locals
  <2> QED BY <1>1, <1>2, <2>1, <2>2 DEF RequestOK, CleanupPcs
<1>4. CASE ~CommitGuard(i, p)
  <2>1. Become(r, recheck) /\ UNCHANGED <<ledger, intent, bucket>>
    BY <1>1, <1>4 DEF CommitBatch, Go
  <2> QED BY <1>1, <1>3, <2>1, LocalStep
<1>5. CASE CommitGuard(i, p)
  <2>1. /\ CommitRows(i, p) /\ intent[i].state = "pending" /\ current[d] = p
        /\ Go(r, "recheck") \/ Accept(r, "created", i)
    BY <1>5 DEF CommitBatch, CommitGuard
  <2>2. intent[i] \in Intents /\ bucket[i] = req[r].form.content
    BY <1>1, <1>2, <2>1 DEF RequestOK, IInv, TypeOK
  <2>3. /\ intent'[i].state = "committed"
        /\ \A j \in UploadIds : intent'[j].form = intent[j].form
        /\ \A j \in UploadIds : j # i => intent'[j] = intent[j]
    BY <1>2, <2>1, <2>2 DEF CommitRows, SetState, IInv, TypeOK, Intents
  <2>4. intent[i].form.expected + 1 \in 1 .. MaxRevision
    BY <1>2, ConstantsAssumption DEF Forms, ConstantsAssumption
  <2>5. /\ NextOrdinal(p) \in Nat \ {0} /\ p \in UploadIds \cup {None}
        /\ NextOrdinal(p) = 1 <=> p = None
    BY <1>2, <2>1, NoneAssumption, ConstantsAssumption
    DEF NextOrdinal, IInv, TypeOK, RowsOK, Versions, ConstantsAssumption
  <2>6. version' \in [UploadIds -> Versions \cup {None}] /\ version'[i] # None
    <3>1. [doc |-> d, ordinal |-> NextOrdinal(p), predecessor |-> p,
           revision |-> intent[i].form.expected + 1] \in Versions
      BY <1>1, <1>2, <2>4, <2>5 DEF Versions
    <3> QED BY <1>2, <2>1, <3>1, NoneAssumption DEF CommitRows, IInv, TypeOK
  <2>7. \A j \in UploadIds : j # i => version'[j] = version[j]
    BY <2>1 DEF CommitRows, IInv, TypeOK
  <2>8. Forward
    BY <1>1, <2>1, <2>3, <2>6, <2>7 DEF Forward
  <2>9. \E q \in Locals : Become(r, q) /\ RequestOK(q)'
    <3>1. CASE Go(r, "recheck")
      <4>1. PICK q \in Locals : q = recheck
        BY <1>3
      <4>2. RequestOK(q)'
        BY <1>3, <2>8, <4>1, RequestStable DEF IInv
      <4> QED BY <3>1, <4>1, <4>2 DEF Go
    <3>2. CASE Accept(r, "created", i)
      <4>1. PICK q \in Locals : q = [Idle EXCEPT !.pc = "done", !.reply = "created",
                                       !.form = req[r].form, !.held = i]
        BY <1>2, IdleType DEF Locals, Pcs, Replies
      <4>2. q.pc = "done" /\ q.held = i /\ q.form = req[r].form /\ q.todo = {}
        BY <4>1 DEF Idle
      <4>3. RequestOK(q)'
        BY <1>2, <2>3, <2>6, <4>2 DEF RequestOK, CleanupPcs, Committed
      <4> QED BY <3>2, <4>1, <4>3 DEF Accept
    <3> QED BY <2>1, <3>1, <3>2
  <2>10. PICK q \in Locals : Become(r, q) /\ RequestOK(q)'
    BY <2>9
  <2>11. TypeOK'
    <3>1. intent' \in [UploadIds -> Intents]
      BY <1>2, <2>1, <2>2 DEF CommitRows, SetState, IInv, TypeOK, Intents, IntentStates
    <3>2. /\ current' \in [UploadIds -> UploadIds \cup {None}]
          /\ docs' \in [UploadIds -> {"absent", "provisional", "final"}]
          /\ revision' \in 1 .. MaxRevision
      BY <1>2, <2>1, <2>4 DEF CommitRows, IInv, TypeOK
    <3>3. req' \in [Requests -> Locals]
      BY <2>10 DEF Become, IInv, TypeOK
    <3> QED BY <1>1, <2>6, <3>1, <3>2, <3>3 DEF IInv, TypeOK
  <2>12. RowsOK'
    <3>1. \A j \in UploadIds : HasRow(j)' <=> HasRow(j)
      BY <2>1, <2>3 DEF HasRow
    <3>2. \A e \in UploadIds : current'[e] = IF e = d THEN i ELSE current[e]
      BY <1>2, <2>1 DEF CommitRows, IInv, TypeOK
    <3>3. \A j \in UploadIds : version'[j] # None <=> intent'[j].state = "committed"
      BY <2>3, <2>6, <2>7 DEF IInv, RowsOK
    <3>4. \A j \in UploadIds : version'[j] # None => bucket'[j] = intent'[j].form.content
      BY <1>1, <1>2, <2>2, <2>3, <2>7 DEF IInv, RowsOK
    <3>5. \A e \in UploadIds : current'[e] # None => version'[current'[e]] # None
      BY <1>2, <2>6, <2>7, <3>2 DEF IInv, RowsOK, TypeOK
    <3>6. version'[Base] # None
      BY <2>6, <2>7, ConstantsAssumption DEF IInv, RowsOK, ConstantsAssumption
    <3> QED BY <2>3, <3>1, <3>3, <3>4, <3>5, <3>6 DEF IInv, RowsOK
  <2> QED BY <2>8, <2>10, <2>11, <2>12, RequestStep
<1> QED BY <1>4, <1>5

-----------------------------------------------------------------------------
(* The theorems.                                                           *)

\* Every step preserves the invariant.
LEMMA NextIInv == IInv /\ [Next]_vars => IInv'
<1> SUFFICES ASSUME IInv, [Next]_vars PROVE IInv'
    OBVIOUS
<1>1. ASSUME NEW r \in Requests, Arrive(r) \/ Progress(r) \/ Fault(r)
      PROVE  IInv'
  <2>1. CASE Arrive(r) \/ SelectSweep(r) \/ SweepNext(r)
    BY <2>1, SweepSteps
  <2>2. CASE Lookup(r) \/ Relookup(r)
    BY <2>2, LookupSteps
  <2>3. CASE CheckCommitted(r) \/ PrepareCommit(r) \/ Recheck(r) \/ AnswerFailed(r)
    BY <2>3, HoldingSteps
  <2>4. CASE ReadLive(r) \/ ReadClaimed(r)
    BY <2>4, CleanupReads
  <2>5. CASE CallFails(r) \/ Crash(r)
    BY <2>5, FailureSteps
  <2>6. CASE Stage(r)
    BY <2>6, StageStep
  <2>7. CASE HeadObject(r) \/ \E lost \in BOOLEAN : Put(r, lost)
    BY <2>7, HeadStep, PutStep
  <2>8. CASE \E lost \in BOOLEAN : CommitBatch(r, lost)
    BY <2>8, CommitStep
  <2>9. CASE \E lost \in BOOLEAN : Abort(r, lost)
    BY <2>9, AbortStep
  <2>10. CASE \E lost \in BOOLEAN : DeleteObject(r, lost)
    BY <2>10, DeleteStep
  <2>11. CASE \E lost \in BOOLEAN :
                \/ Claim(r, lost) \/ Finish(r, lost)
                \/ DeleteDocument(r, lost) \/ DeleteIntent(r, lost)
    BY <2>11, CleanupWrites
  <2> QED
    BY <1>1, <2>1, <2>2, <2>3, <2>4, <2>5, <2>6, <2>7, <2>8, <2>9, <2>10, <2>11
    DEF Progress, Fault
<1>2. CASE OtherMutation \/ Tick
  BY <1>2, EnvironmentSteps
<1>3. CASE UNCHANGED vars
  <2>1. TypeOK' /\ RowsOK'
    BY <1>3 DEF vars, IInv, TypeOK, RowsOK, HasRow
  <2>2. StepsJustified'
    BY <1>3 DEF vars, IInv, StepsJustified, RequestOK, Committed
  <2> QED BY <2>1, <2>2 DEF IInv
<1> QED BY <1>1, <1>2, <1>3 DEF Next

\* The invariant holds in every reachable state.
THEOREM Invariance == Spec => []IInv
BY InitIInv, NextIInv, PTL DEF Spec

\* Every variable keeps its type.
THEOREM TypeCorrect == Spec => []TypeOK
<1>1. IInv => TypeOK
  BY DEF IInv
<1> QED BY <1>1, Invariance, PTL

\* What a request relies on between its awaits holds whatever other requests do meanwhile.
THEOREM RequestsJustified == Spec => []StepsJustified
<1>1. IInv => StepsJustified
  BY DEF IInv
<1> QED BY <1>1, Invariance, PTL

\* No cleanup, abort, late put or crash ever costs a committed version its object.
THEOREM ObjectKept == Spec => []CommittedObjectKept
<1>1. IInv => CommittedObjectKept
  BY DEF IInv, RowsOK, CommittedObjectKept, Committed
<1> QED BY <1>1, Invariance, PTL

\* An idempotency key commits at most one version.
THEOREM KeyCommitsOnce == Spec => []OneUploadPerKey
<1>1. IInv => OneUploadPerKey
  BY DEF IInv, RowsOK, OneUploadPerKey, Committed, HasRow
<1> QED BY <1>1, Invariance, PTL

\* A success names a committed version of exactly the request's own form.
THEOREM SuccessTrue == Spec => []SuccessIsCommitted
<1>1. IInv => SuccessIsCommitted
  BY DEF IInv, StepsJustified, RequestOK, SuccessIsCommitted
<1> QED BY <1>1, Invariance, PTL

-----------------------------------------------------------------------------
(* Committed uploads are final, and the upload implements the ledger.      *)

\* A step adds no version, or it adds that of a pending intent at the revision it expected.
AddsNone == version' = version /\ revision' \in {revision, revision + 1}
Adds(i) ==
    /\ intent[i].state = "pending" /\ version[i] = None /\ version'[i] # None
    /\ \A j \in UploadIds : j # i => version'[j] = version[j]
    /\ intent'[i].form = intent[i].form
    /\ revision = intent[i].form.expected /\ revision' = revision + 1

\* What a step does to the versions.
LEMMA StepEffect ==
    ASSUME IInv, [Next]_vars
    PROVE  CommittedKept /\ (AddsNone \/ \E i \in UploadIds : Adds(i))
<1>1. CASE UNCHANGED <<ledger, intent, bucket>>
  BY <1>1 DEF ledger, CommittedKept, AddsNone, IInv, TypeOK
<1>2. CASE OtherMutation
  BY <1>2 DEF OtherMutation, CommittedKept, AddsNone
<1>3. CASE Tick
  <2>1. \A i \in UploadIds : version[i] # None => ~Running(i)
    BY DEF Running, IInv, RowsOK
  <2>2. UNCHANGED <<revision, version, bucket>>
    BY <1>3 DEF Tick, ledger
  <2>3. \A i \in Committed : intent'[i] = intent[i]
    BY <1>3, <2>1 DEF Tick, Committed
  <2> QED BY <2>2, <2>3 DEF CommittedKept, AddsNone
<1>4. ASSUME NEW r \in Requests, Stage(r)
      PROVE  CommittedKept /\ AddsNone
  <2>1. UNCHANGED <<revision, version, bucket>>
    BY <1>4 DEF Stage
  <2>2. \A i \in UploadIds : intent[i].state # "unused" => intent'[i] = intent[i]
    BY <1>4 DEF Stage, IInv, TypeOK
  <2> QED BY <2>1, <2>2 DEF CommittedKept, Committed, AddsNone, IInv, RowsOK
<1>5. ASSUME NEW r \in Requests, NEW lost \in BOOLEAN, Put(r, lost)
      PROVE  CommittedKept /\ AddsNone
  <2>1. UNCHANGED <<ledger, intent>>
    BY <1>5 DEF Put
  <2>2. \A i \in UploadIds : bucket[i] # None => bucket'[i] = bucket[i]
    BY <1>5 DEF Put, IInv, TypeOK
  <2>3. \A i \in UploadIds : version[i] # None => bucket[i] # None
    BY ConstantsAssumption DEF IInv, RowsOK, TypeOK, Intents, Forms, ConstantsAssumption
  <2> QED BY <2>1, <2>2, <2>3 DEF CommittedKept, Committed, AddsNone, ledger
<1>6. ASSUME NEW r \in Requests, NEW lost \in BOOLEAN, DeleteObject(r, lost)
      PROVE  CommittedKept /\ AddsNone
  <2>1. /\ UNCHANGED <<ledger, intent>> /\ req[r].pc = "delete"
        /\ bucket' = [bucket EXCEPT ![req[r].target] = None]
    BY <1>6 DEF DeleteObject, Step
  <2>2. version[req[r].target] = None
    BY <2>1 DEF IInv, StepsJustified, RequestOK, RowsOK, CleanupPcs
  <2> QED BY <2>1, <2>2 DEF CommittedKept, Committed, AddsNone, ledger, IInv, TypeOK
<1>7. ASSUME NEW r \in Requests, NEW lost \in BOOLEAN,
             \/ Abort(r, lost) \/ Claim(r, lost) \/ Finish(r, lost)
             \/ DeleteDocument(r, lost) \/ DeleteIntent(r, lost)
      PROVE  CommittedKept /\ AddsNone
  <2>1. UNCHANGED <<revision, version, bucket>>
    BY <1>7 DEF Abort, Claim, Finish, DeleteDocument, DeleteIntent, ledger
  <2>2. \A i \in UploadIds : intent[i].state = "committed" => intent'[i] = intent[i]
    BY <1>7 DEF Abort, Claim, Finish, DeleteDocument, DeleteIntent, SetState, IInv, TypeOK
  <2> QED BY <2>1, <2>2 DEF CommittedKept, Committed, AddsNone, IInv, RowsOK
<1>8. ASSUME NEW r \in Requests, NEW lost \in BOOLEAN, CommitBatch(r, lost)
      PROVE  CommittedKept /\ (AddsNone \/ \E i \in UploadIds : Adds(i))
  <2> DEFINE i == req[r].held
             p == req[r].current
  <2>1. i \in UploadIds /\ UNCHANGED bucket
    BY <1>8 DEF CommitBatch, Step, IInv, StepsJustified, RequestOK
  <2>2. CASE ~CommitGuard(i, p)
    <3>1. UNCHANGED <<ledger, intent>>
      BY <1>8, <2>2 DEF CommitBatch
    <3> QED BY <2>1, <3>1 DEF CommittedKept, Committed, AddsNone, ledger
  <2>3. CASE CommitGuard(i, p)
    <3>1. /\ CommitRows(i, p) /\ intent[i].state = "pending" /\ version[i] = None
          /\ revision = intent[i].form.expected
      BY <1>8, <2>3 DEF CommitBatch, CommitGuard
    <3>2. version'[i] # None /\ \A j \in UploadIds : j # i => version'[j] = version[j]
      <4>1. TypeOK' /\ RowsOK'
        BY <1>8, CommitStep DEF IInv
      <4>2. intent'[i].state = "committed"
        BY <2>1, <3>1 DEF CommitRows, SetState, IInv, TypeOK, Intents
      <4> QED BY <2>1, <3>1, <4>1, <4>2 DEF CommitRows, RowsOK, IInv, TypeOK
    <3>3. /\ intent'[i].form = intent[i].form
          /\ \A j \in UploadIds : j # i => intent'[j] = intent[j]
      BY <2>1, <3>1 DEF CommitRows, SetState, IInv, TypeOK, Intents
    <3>4. revision' = revision + 1
      BY <3>1 DEF CommitRows
    <3> QED BY <2>1, <3>1, <3>2, <3>3, <3>4 DEF CommittedKept, Committed, Adds
  <2> QED BY <2>2, <2>3
<1>9. ASSUME NEW r \in Requests,
             \/ Arrive(r) \/ SelectSweep(r) \/ SweepNext(r) \/ Lookup(r) \/ Relookup(r)
             \/ CheckCommitted(r) \/ HeadObject(r) \/ PrepareCommit(r) \/ Recheck(r) \/ AnswerFailed(r)
             \/ ReadLive(r) \/ ReadClaimed(r) \/ CallFails(r) \/ Crash(r)
      PROVE  UNCHANGED <<ledger, intent, bucket>>
  BY <1>9 DEF Arrive, SelectSweep, SweepNext, Lookup, Relookup, CheckCommitted, HeadObject,
              PrepareCommit, Recheck, AnswerFailed, ReadLive, ReadClaimed, CallFails, Crash
<1>10. CASE UNCHANGED vars
  BY <1>1, <1>10 DEF vars, ledger
<1>11. ASSUME NEW r \in Requests, Arrive(r) \/ Progress(r) \/ Fault(r)
       PROVE  CommittedKept /\ (AddsNone \/ \E i \in UploadIds : Adds(i))
  BY <1>1, <1>4, <1>5, <1>6, <1>7, <1>8, <1>9, <1>11 DEF Progress, Fault
<1> QED BY <1>2, <1>3, <1>10, <1>11 DEF Next

\* What was committed is never undone or rewritten.
THEOREM CommittedNeverChanges == Spec => CommittedIsFinal
<1>1. IInv /\ [Next]_vars => [CommittedKept]_vars
  BY StepEffect DEF CommittedKept, Committed
<1> QED BY <1>1, Invariance, PTL DEF Spec, CommittedIsFinal

\* The upload, with its two stores and all its interleavings, implements the compare-and-set log.
THEOREM UploadImplementsLedger == Spec => ImplementsLedger
<1> DEFINE log == {intent[i].form : i \in Committed \ {Base}}
<1>1. Init => Ledger!Init
  <2> SUFFICES ASSUME Init PROVE Ledger!Init
      OBVIOUS
  <2>1. Committed \ {Base} = {}
    BY DEF Init, Committed
  <2> QED BY <2>1 DEF Init, Ledger!Init
<1>2. IInv /\ [Next]_vars => [Ledger!Next]_Ledger!ledgerVars
  <2> SUFFICES ASSUME IInv, [Next]_vars PROVE [Ledger!Next]_Ledger!ledgerVars
      OBVIOUS
  <2>1. CommittedKept /\ (AddsNone \/ \E i \in UploadIds : Adds(i))
    BY StepEffect
  <2>2. CASE AddsNone
    <3>1. log' = log
      BY <2>1, <2>2 DEF AddsNone, CommittedKept, Committed
    <3>2. revision' = revision \/ revision' = revision + 1
      BY <2>2 DEF AddsNone
    <3> QED BY <3>1, <3>2 DEF Ledger!Next, Ledger!Advance, Ledger!ledgerVars
  <2>3. CASE \E i \in UploadIds : Adds(i)
    <3>1. PICK i \in UploadIds : Adds(i)
      BY <2>3
    <3> DEFINE e == intent[i].form
    <3>2. Committed' = Committed \cup {i} /\ i \notin Committed /\ i # Base
      BY <2>1, <3>1 DEF Adds, CommittedKept, Committed, IInv, RowsOK
    <3>3. log' = log \cup {e}
      BY <2>1, <3>1, <3>2 DEF Adds, CommittedKept, Committed
    <3>4. \A f \in log : f.key # e.key
      BY <3>1, <3>2 DEF Adds, Committed, IInv, RowsOK, HasRow
    <3>5. e \in Forms /\ e.expected = revision /\ revision' = revision + 1
      BY <3>1 DEF Adds, IInv, TypeOK, Intents
    <3> QED BY <3>3, <3>4, <3>5 DEF Ledger!Next, Ledger!Append
  <2> QED BY <2>1, <2>2, <2>3
<1> QED BY <1>1, <1>2, Invariance, PTL DEF Spec, ImplementsLedger, Ledger!Spec

\* The accepted uploads, as the ledger has them; all were expected at revisions of the past.
Writes == {intent[i].form : i \in Committed \ {Base}}

Behind == revision \in Int /\ \A e \in Writes : e.expected \in Int /\ e.expected < revision

LEMMA WrittenOnceIs ==
    /\ Ledger!WrittenOnce <=>
          \A e, f \in Writes : e.key = f.key \/ e.expected = f.expected => e = f
    /\ Ledger!WrittenOnce' <=>
          \A e, f \in Writes' : e.key = f.key \/ e.expected = f.expected => e = f
BY DEF Ledger!WrittenOnce, Writes

\* Any ledger loses no write, whatever implements it: a consequence of MatterLedger alone.
LEMMA LedgerWritesOnce == Ledger!Spec => []Ledger!WrittenOnce
<1>1. Ledger!Init => Behind /\ Ledger!WrittenOnce
  <2> SUFFICES ASSUME Ledger!Init PROVE Behind /\ Ledger!WrittenOnce
    OBVIOUS
  <2>1. Writes = {} /\ revision = 2
    BY DEF Ledger!Init, Writes, BaseRevision
  <2> QED BY <2>1, WrittenOnceIs DEF Behind
<1>2. Behind /\ Ledger!WrittenOnce /\ [Ledger!Next]_Ledger!ledgerVars
         => Behind' /\ Ledger!WrittenOnce'
  <2> SUFFICES ASSUME Behind, Ledger!WrittenOnce, [Ledger!Next]_Ledger!ledgerVars
               PROVE  Behind' /\ Ledger!WrittenOnce'
    OBVIOUS
  <2>0. \A e, f \in Writes : e.key = f.key \/ e.expected = f.expected => e = f
    BY WrittenOnceIs
  <2>1. ASSUME NEW e, Ledger!Append(e) PROVE Behind' /\ Ledger!WrittenOnce'
    <3>1. /\ Writes' = Writes \cup {e} /\ revision' = revision + 1 /\ e.expected = revision
          /\ \A f \in Writes : f.key # e.key
      BY <2>1 DEF Ledger!Append, Writes
    <3>2. Behind'
      BY <3>1 DEF Behind
    <3>3. \A f \in Writes : f.expected # e.expected
      BY <3>1 DEF Behind
    <3>4. \A x, y \in Writes' : x.key = y.key \/ x.expected = y.expected => x = y
      BY <2>0, <3>1, <3>3
    <3> QED BY <3>2, <3>4, WrittenOnceIs
  <2>2. ASSUME Writes' = Writes, revision' = revision \/ revision' = revision + 1
        PROVE  Behind' /\ Ledger!WrittenOnce'
    <3>1. Behind'
      BY <2>2 DEF Behind
    <3> QED BY <2>0, <2>2, <3>1, WrittenOnceIs
  <2> QED BY <2>1, <2>2 DEF Ledger!Next, Ledger!Advance, Ledger!ledgerVars, Writes
<1> QED BY <1>1, <1>2, PTL DEF Ledger!Spec

\* No upload is lost under another: two committed uploads have different keys and were expected at
\* different revisions (completeDocumentUpload's batch against the Matter's revision, with retries,
\* takeovers and reconciliations between).
THEOREM UploadsAreWrittenOnce == Spec => []Ledger!WrittenOnce
BY UploadImplementsLedger, LedgerWritesOnce DEF ImplementsLedger

-----------------------------------------------------------------------------
(* The lineage of a document.                                              *)

\* A document's versions end in its current one, which is the last of them by revision and
\* counts them by its ordinal; a document without a current version has none.
Chained(d) ==
    /\ current[d] = None => VersionsOf(d) = {}
    /\ current[d] # None =>
          /\ current[d] \in VersionsOf(d) /\ IsFiniteSet(VersionsOf(d))
          /\ version[current[d]].ordinal = Cardinality(VersionsOf(d))
          /\ \A i \in VersionsOf(d) :
                i = current[d] \/ version[i].revision < version[current[d]].revision

LineageInv == LineageFollowsRevisions /\ \A d \in UploadIds : Chained(d)

\* The version that a commit adds follows the document's current one, at the next revision.
Follows(i) ==
    /\ version[i] = None /\ revision' = revision + 1
    /\ version' = [version EXCEPT ![i] =
          [doc |-> DocOf(i), ordinal |-> NextOrdinal(current[DocOf(i)]),
           predecessor |-> current[DocOf(i)], revision |-> revision + 1]]
    /\ current' = [current EXCEPT ![DocOf(i)] = i]

\* No step touches versions or pointers but a commit.
LEMMA VersionStep ==
    ASSUME IInv, [Next]_vars
    PROVE  \/ UNCHANGED <<version, current>> /\ revision' \in {revision, revision + 1}
           \/ \E i \in UploadIds : Follows(i)
<1>1. CASE UNCHANGED <<ledger, intent, bucket>> \/ UNCHANGED vars \/ OtherMutation \/ Tick
  BY <1>1 DEF ledger, vars, OtherMutation, Tick
<1>2. ASSUME NEW r \in Requests, NEW lost \in BOOLEAN, CommitBatch(r, lost)
      PROVE  \/ UNCHANGED <<version, current>> /\ revision' \in {revision, revision + 1}
             \/ \E i \in UploadIds : Follows(i)
  <2> DEFINE i == req[r].held
  <2>1. i \in UploadIds
    BY <1>2 DEF CommitBatch, Step, IInv, StepsJustified, RequestOK
  <2>2. CASE ~CommitGuard(i, req[r].current)
    BY <1>2, <2>2 DEF CommitBatch, ledger
  <2>3. CASE CommitGuard(i, req[r].current)
    <3>1. /\ CommitRows(i, req[r].current) /\ version[i] = None
          /\ revision = intent[i].form.expected /\ current[DocOf(i)] = req[r].current
      BY <1>2, <2>3 DEF CommitBatch, CommitGuard
    <3> QED BY <2>1, <3>1 DEF CommitRows, Follows
  <2> QED BY <2>2, <2>3
<1>3. ASSUME NEW r \in Requests, Arrive(r) \/ Progress(r) \/ Fault(r),
             ~ \E lost \in BOOLEAN : CommitBatch(r, lost)
      PROVE  UNCHANGED <<revision, version, current>>
  BY <1>3 DEF Progress, Fault, Arrive, SelectSweep, SweepNext, Lookup, Relookup, Stage,
              CheckCommitted, Put, HeadObject, PrepareCommit, Recheck, Abort, AnswerFailed,
              ReadLive, Claim, ReadClaimed, DeleteObject, Finish, DeleteDocument, DeleteIntent,
              CallFails, Crash, ledger
<1> QED BY <1>1, <1>2, <1>3 DEF Next

\* Base alone is a chain of one.
LEMMA InitLineage == Init => LineageInv
<1> SUFFICES ASSUME Init PROVE LineageInv
    OBVIOUS
<1> USE ConstantsAssumption DEF ConstantsAssumption
<1>1. /\ Committed = {Base}
      /\ version[Base].doc = Base /\ version[Base].ordinal = 1
      /\ version[Base].predecessor = None /\ version[Base].revision = revision
      /\ current[Base] = Base /\ \A d \in UploadIds \ {Base} : current[d] = None
  BY NoneAssumption DEF Init, Committed, Versions, BaseRevision
<1>2. VersionsOf(Base) = {Base} /\ \A d \in UploadIds \ {Base} : VersionsOf(d) = {}
  BY <1>1 DEF VersionsOf
<1>3. IsFiniteSet({Base}) /\ Cardinality({Base}) = 1
  BY FS_Singleton
<1>4. revision \in Nat
  BY DEF Init, BaseRevision
<1>5. \A d \in UploadIds : Chained(d)
  BY <1>1, <1>2, <1>3 DEF Chained
<1>6. LineageFollowsRevisions
  <2>1. \A i \in Committed : i = Base
    BY <1>1
  <2>2. \A d \in UploadIds : VersionsOf(d) # {} => d = Base
    BY <1>2
  <2> QED BY <1>1, <1>2, <1>3, <1>4, <2>1, <2>2 DEF LineageFollowsRevisions
<1> QED BY <1>5, <1>6 DEF LineageInv

\* The versions of a document in a table of versions.
Of(table, d) == {i \in UploadIds : table[i] # None /\ table[i].doc = d}

\* A commit lengthens the chain of one document by its new end, and leaves the others alone.
LEMMA FollowsLineage ==
    ASSUME IInv, LineageInv, NEW i \in UploadIds, Follows(i), TypeOK'
    PROVE  LineageInv'
<1>d. PICK d \in UploadIds : d = DocOf(i)
  BY DocOfType DEF IInv
<1>p. PICK p \in UploadIds \cup {None} : p = current[d]
  BY DEF IInv, TypeOK
<1>r. revision \in Nat /\ i # None
  BY ConstantsAssumption DEF IInv, TypeOK, ConstantsAssumption
<1>o. PICK n : n = NextOrdinal(p)
  OBVIOUS
<1>n. PICK new : new = [doc |-> d, ordinal |-> n, predecessor |-> p, revision |-> revision + 1]
  OBVIOUS
<1>f. new.doc = d /\ new.ordinal = n /\ new.predecessor = p /\ new.revision = revision + 1
  BY <1>n
<1>2. /\ version'[i] = new /\ new \in Versions /\ new # None
      /\ \A j \in UploadIds \ {i} : version'[j] = version[j]
      /\ current'[d] = i /\ \A e \in UploadIds \ {d} : current'[e] = current[e]
      /\ version[i] = None /\ revision' = revision + 1
  <2>1. version'[i] = new /\ \A j \in UploadIds \ {i} : version'[j] = version[j]
    BY <1>d, <1>p, <1>o, <1>n DEF Follows, IInv, TypeOK
  <2>2. n \in Nat \ {0} /\ (n = 1 <=> p = None)
    BY <1>p, <1>o, ConstantsAssumption
    DEF NextOrdinal, IInv, TypeOK, RowsOK, Versions, ConstantsAssumption
  <2>3. revision + 1 \in 1 .. MaxRevision
    BY DEF Follows, TypeOK
  <2>4. new \in Versions
    BY <1>n, <1>p, <2>2, <2>3 DEF Versions
  <2> QED BY <1>d, <2>1, <2>4, NoneAssumption DEF Follows, IInv, TypeOK
<1>3. \A e \in UploadIds : \A j \in UploadIds :
         j \in Of(version', e) <=> j \in Of(version, e) \/ (j = i /\ e = d)
  BY <1>2, <1>f DEF Of
<1>4. /\ Of(version', d) = Of(version, d) \cup {i} /\ i \notin Of(version, d)
      /\ \A e \in UploadIds \ {d} : Of(version', e) = Of(version, e)
  <2>1. Of(version', d) = Of(version, d) \cup {i}
    BY <1>3 DEF Of
  <2>2. \A e \in UploadIds \ {d} : Of(version', e) = Of(version, e)
    BY <1>3 DEF Of
  <2> QED BY <2>1, <2>2, <1>2 DEF Of
<1>v. /\ \A e : VersionsOf(e) = Of(version, e)
      /\ \A j \in UploadIds : j \in Committed <=> version[j] # None
  BY DEF VersionsOf, Committed, Of
<1>5. \A j \in UploadIds \ {i} : version[j] # None =>
         /\ version[j].revision \in Nat /\ version[j].ordinal \in Nat
         /\ version[j].revision < revision + 1
         /\ version[j].doc \in UploadIds /\ j \in Of(version, version[j].doc)
  <2> SUFFICES ASSUME NEW j \in UploadIds \ {i}, version[j] # None
               PROVE  /\ version[j].revision \in Nat /\ version[j].ordinal \in Nat
                      /\ version[j].revision < revision + 1
                      /\ version[j].doc \in UploadIds /\ j \in Of(version, version[j].doc)
    OBVIOUS
  <2>1. version[j] \in Versions
    BY DEF IInv, TypeOK
  <2>2. version[j].revision <= revision
    BY DEF LineageInv, LineageFollowsRevisions, Committed
  <2> QED BY <2>1, <2>2, <1>r DEF Versions, Of
<1>c. \A e \in UploadIds :
        /\ current[e] = None => Of(version, e) = {}
        /\ current[e] # None =>
              /\ current[e] \in Of(version, e) /\ IsFiniteSet(Of(version, e))
              /\ version[current[e]].ordinal = Cardinality(Of(version, e))
              /\ \A j \in Of(version, e) :
                    j = current[e] \/ version[j].revision < version[current[e]].revision
  BY <1>v DEF LineageInv, Chained
<1>6. /\ IsFiniteSet(Of(version, d)) /\ n = Cardinality(Of(version, d)) + 1
      /\ p # None => p \in Of(version, d) /\ n = version[p].ordinal + 1
      /\ \A j \in Of(version, d) : version[j].ordinal < n
      /\ p = None => n = 1
  <2>1. CASE p = None
    <3>1. Of(version, d) = {} /\ n = 1
      BY <1>c, <1>p, <1>o, <2>1 DEF NextOrdinal
    <3> QED BY <2>1, <3>1, FS_EmptySet
  <2>2. CASE p # None
    <3>1. /\ p \in Of(version, d) /\ IsFiniteSet(Of(version, d))
          /\ version[p].ordinal = Cardinality(Of(version, d))
          /\ \A j \in Of(version, d) : j = p \/ version[j].revision < version[p].revision
      BY <1>c, <1>p, <2>2
    <3>2. n = version[p].ordinal + 1
      BY <2>2, <1>o DEF NextOrdinal
    <3>3. \A j \in Of(version, d) : version[j].ordinal \in Nat /\ j \in UploadIds \ {i}
      BY <1>5, <1>2 DEF Of
    <3>4. \A j \in Of(version, d) : version[j].ordinal < n
      <4> TAKE j \in Of(version, d)
      <4>1. CASE j = p
        BY <3>2, <3>3, <4>1
      <4>2. CASE j # p
        <5>1. version[j].ordinal < version[p].ordinal
          BY <3>1, <4>2 DEF LineageInv, LineageFollowsRevisions, Of, Committed
        <5> QED BY <3>1, <3>2, <3>3, <5>1
      <4> QED BY <4>1, <4>2
    <3> QED BY <2>2, <3>1, <3>2, <3>4
  <2> QED BY <2>1, <2>2
<1>7. ASSUME NEW e \in UploadIds
      PROVE  /\ current'[e] = None => Of(version', e) = {}
             /\ current'[e] # None =>
                  /\ current'[e] \in Of(version', e) /\ IsFiniteSet(Of(version', e))
                  /\ version'[current'[e]].ordinal = Cardinality(Of(version', e))
                  /\ \A j \in Of(version', e) :
                        j = current'[e] \/ version'[j].revision < version'[current'[e]].revision
  <2>1. CASE e = d
    <3>1. /\ IsFiniteSet(Of(version, d) \cup {i})
          /\ Cardinality(Of(version, d) \cup {i}) = Cardinality(Of(version, d)) + 1
      BY <1>4, <1>6, FS_AddElement
    <3>2. \A j \in Of(version, d) : version'[j].revision < new.revision
      BY <1>2, <1>5, <1>f DEF Of
    <3>3. current'[e] = i /\ i \in Of(version', d) /\ version'[i].ordinal = n /\ i # None
      BY <2>1, <1>2, <1>4, <1>f, <1>r
    <3> QED BY <2>1, <1>2, <1>4, <1>6, <3>1, <3>2, <3>3
  <2>2. CASE e # d
    <3>1. \A j \in Of(version, e) : version'[j] = version[j]
      BY <1>2 DEF Of
    <3>2. current'[e] = current[e] /\ Of(version', e) = Of(version, e)
      BY <2>2, <1>2, <1>4
    <3> QED BY <1>c, <3>1, <3>2
  <2> QED BY <2>1, <2>2
<1>8. ASSUME NEW j \in UploadIds, NEW k \in UploadIds, version'[j] # None, version'[k] # None
      PROVE  /\ version'[j].revision = version'[k].revision => j = k
             /\ version'[j].doc = version'[k].doc /\ version'[j].revision < version'[k].revision
                   => version'[j].ordinal < version'[k].ordinal
  <2>1. CASE j = i /\ k = i
    BY <2>1, <1>2, <1>r, <1>f
  <2>2. CASE j = i /\ k # i
    <3>1. /\ version'[k] = version[k] /\ version[k].revision < revision + 1
          /\ version[k].revision \in Nat
      BY <1>2, <1>5, <1>8, <2>2
    <3>2. version'[j].revision = revision + 1
      BY <1>2, <1>f, <2>2
    <3> QED BY <3>1, <3>2, <1>r
  <2>3. CASE j # i /\ k = i
    <3>1. /\ version'[j] = version[j] /\ version[j].revision < revision + 1
          /\ version[j].revision \in Nat /\ version[j] # None
          /\ version[j].doc = d => version[j].ordinal < n
      BY <1>2, <1>5, <1>6, <1>8, <2>3
    <3>2. version'[k].revision = revision + 1 /\ version'[k].doc = d /\ version'[k].ordinal = n
      BY <1>2, <1>f, <2>3
    <3> QED BY <3>1, <3>2, <1>r
  <2>4. CASE j # i /\ k # i
    <3>1. version'[j] = version[j] /\ version'[k] = version[k]
      BY <1>2, <2>4
    <3> QED BY <1>8, <3>1 DEF LineageInv, LineageFollowsRevisions, Committed
  <2> QED BY <2>1, <2>2, <2>3, <2>4
<1>9. ASSUME NEW j \in UploadIds, version'[j] # None
      PROVE  /\ version'[j].revision <= revision'
             /\ version'[j].predecessor = None => version'[j].ordinal = 1
             /\ version'[j].predecessor # None =>
                  /\ version'[j].predecessor \in Of(version', version'[j].doc)
                  /\ version'[j].ordinal = version'[version'[j].predecessor].ordinal + 1
  <2>1. CASE j = i
    <3>1. p # None => version'[p] = version[p] /\ p \in Of(version', d)
      BY <1>2, <1>4, <1>6
    <3> QED BY <2>1, <3>1, <1>2, <1>6, <1>f, <1>r
  <2>2. CASE j # i
    <3>1. version'[j] = version[j] /\ version[j] # None /\ version[j].doc \in UploadIds
      BY <1>2, <1>5, <1>9, <2>2
    <3>2. version[j].revision < revision + 1 /\ version[j].revision \in Nat
      BY <1>5, <3>1, <2>2
    <3>3. /\ version[j].predecessor = None => version[j].ordinal = 1
          /\ version[j].predecessor # None =>
                /\ version[j].predecessor \in Of(version, version[j].doc)
                /\ version[j].ordinal = version[version[j].predecessor].ordinal + 1
      BY <3>1, <1>v DEF LineageInv, LineageFollowsRevisions
    <3>4. \A q \in Of(version, version[j].doc) : version'[q] = version[q] /\ q \in Of(version', version[j].doc)
      BY <1>2, <1>4, <3>1 DEF Of
    <3> QED BY <3>1, <3>2, <3>3, <3>4, <1>2, <1>r
  <2> QED BY <2>1, <2>2
<1>10. \A e \in UploadIds : Chained(e)'
  BY <1>7 DEF Chained, VersionsOf, Committed, Of
<1>11. LineageFollowsRevisions'
  <2>1. \A e : Of(version', e) = {j \in {k \in UploadIds : version'[k] # None} : version'[j].doc = e}
    BY DEF Of
  <2>2. ASSUME NEW j \in UploadIds, version'[j] # None
        PROVE  /\ version'[j].revision <= revision'
               /\ IF version'[j].predecessor = None THEN version'[j].ordinal = 1
                  ELSE /\ version'[j].predecessor
                             \in {l \in {k \in UploadIds : version'[k] # None} :
                                    version'[l].doc = version'[j].doc}
                       /\ version'[j].ordinal = version'[version'[j].predecessor].ordinal + 1
    BY <1>9, <2>1, <2>2
  <2>3. ASSUME NEW e \in UploadIds,
               {j \in {k \in UploadIds : version'[k] # None} : version'[j].doc = e} # {}
        PROVE  /\ current'[e] \in {j \in {k \in UploadIds : version'[k] # None} : version'[j].doc = e}
               /\ version'[current'[e]].ordinal
                    = Cardinality({j \in {k \in UploadIds : version'[k] # None} : version'[j].doc = e})
    BY <1>7, <2>1, <2>3
  <2> QED BY <1>8, <2>2, <2>3 DEF LineageFollowsRevisions, VersionsOf, Committed
<1> QED BY <1>10, <1>11 DEF LineageInv

\* Every step keeps the lineage.
LEMMA NextLineage == IInv /\ IInv' /\ LineageInv /\ [Next]_vars => LineageInv'
<1> SUFFICES ASSUME IInv, IInv', LineageInv, [Next]_vars PROVE LineageInv'
    OBVIOUS
<1>1. CASE UNCHANGED <<version, current>> /\ revision' \in {revision, revision + 1}
  <2>1. Committed' = Committed /\ \A d : VersionsOf(d)' = VersionsOf(d)
    BY <1>1 DEF Committed, VersionsOf
  <2>2. \A d \in UploadIds : Chained(d)'
    BY <1>1, <2>1 DEF LineageInv, Chained
  <2>3. \A i \in Committed : version[i].revision <= revision'
    BY <1>1 DEF LineageInv, LineageFollowsRevisions, IInv, TypeOK, Versions, Committed
  <2> QED BY <1>1, <2>1, <2>2, <2>3 DEF LineageInv, LineageFollowsRevisions
<1>2. CASE \E i \in UploadIds : Follows(i)
  BY <1>2, FollowsLineage DEF IInv
<1> QED BY <1>1, <1>2, VersionStep

\* Whatever uploads race, fail or are retried, a document's versions form one chain in the order
\* of the Matter's revisions, and each took a revision of its own.
THEOREM VersionsFormChains == Spec => []LineageFollowsRevisions
<1>1. IInv /\ LineageInv => LineageFollowsRevisions
  BY DEF LineageInv
<1>2. Spec => []LineageInv
  BY InitLineage, NextLineage, Invariance, PTL DEF Spec
<1> QED BY <1>1, <1>2, Invariance, PTL

-----------------------------------------------------------------------------
(* Documents and their reservations.                                       *)

\* What a request in a cleanup knows of the document: past the object its intent is deleted, and
\* before the intent goes, the provisional document is gone.
Clears(q) ==
    /\ q.form.target \in Targets \cup {NewDocument}
    /\ q.form.target # NewDocument => docs[q.form.target] = "final"
    /\ q.pc = "finish" => intent[q.target].state \in {"deleting", "deleted", "removed"}
    /\ q.pc \in {"finalize", "forget"} => intent[q.target].state \in {"deleted", "removed"}
    /\ q.pc = "forget" /\ Targets = {NewDocument} => docs[DocOf(q.target)] # "provisional"

\* The document of one upload.  Its reservation may have lost it only where uploads of both kinds
\* share keys.
DocOK(i) ==
    /\ intent[i].form.target \in Targets \cup {NewDocument}
    /\ intent[i].state # "unused" /\ intent[i].form.target # NewDocument
          => docs[intent[i].form.target] = "final"
    /\ intent[i].state = "unused" => docs[i] = "absent"
    /\ intent[i].state \in {"pending", "deleting", "deleted"} /\ intent[i].form.target = NewDocument
          => docs[i] = "provisional"
    /\ docs[i] = "provisional" =>
          /\ intent[i].state \in {"pending", "deleting", "deleted", "removed"}
          /\ intent[i].form.target = NewDocument
          /\ Targets = {NewDocument} => intent[i].state # "removed"
    /\ docs[i] = "final" <=> VersionsOf(i) # {}
    /\ version[i] # None => version[i].doc = DocOf(i)

DocsOK == \A i \in UploadIds : DocOK(i)
DocsInv == DocsOK /\ \A r \in Requests : Clears(req[r])

\* Rows and documents only move forward.
Moves ==
    \A i \in UploadIds :
        /\ intent[i].state # "unused" => intent'[i].form = intent[i].form
        /\ intent[i].state \in {"deleting", "deleted", "removed"} =>
              intent'[i].state \in {"deleting", "deleted", "removed"}
        /\ intent[i].state \in {"deleted", "removed"} => intent'[i].state \in {"deleted", "removed"}
        /\ docs[i] = "final" => docs'[i] = "final"
        /\ docs'[i] = "provisional" => docs[i] = "provisional" \/ intent[i].state = "unused"

\* What a request knows of the document survives when rows and documents move forward.
LEMMA ClearsKept ==
    ASSUME TypeOK, DocsOK, Moves, NEW q \in Locals, Clears(q),
           q.pc \in CleanupPcs => q.target \in UploadIds /\ intent[q.target].state # "unused"
    PROVE  Clears(q)'
<1>1. q.form.target # NewDocument => q.form.target \in UploadIds
  BY DEF Locals, Forms
<1>2. q.form.target # NewDocument => docs'[q.form.target] = "final"
  BY <1>1 DEF Clears, Moves
<1>3. q.pc = "finish" => intent'[q.target].state \in {"deleting", "deleted", "removed"}
  BY DEF Clears, Moves, CleanupPcs
<1>4. q.pc \in {"finalize", "forget"} => intent'[q.target].state \in {"deleted", "removed"}
  BY DEF Clears, Moves, CleanupPcs
<1>5. ASSUME q.pc = "forget", Targets = {NewDocument}
      PROVE  docs'[IF intent'[q.target].form.target = NewDocument THEN q.target
                   ELSE intent'[q.target].form.target] # "provisional"
  <2>1. /\ q.target \in UploadIds /\ intent[q.target].state # "unused"
        /\ intent'[q.target].form = intent[q.target].form
        /\ intent[q.target].form.target = NewDocument
    BY <1>5 DEF CleanupPcs, Moves, DocsOK, DocOK
  <2>2. docs[q.target] # "provisional"
    BY <1>5, <2>1 DEF Clears, DocOf
  <2> QED BY <2>1, <2>2 DEF Moves
<1> QED BY <1>2, <1>3, <1>4, <1>5 DEF Clears, DocOf

\* A step of one request keeps the documents in order if the tables do, and the request ends up
\* knowing what it must.
LEMMA DocsStep ==
    ASSUME IInv, IInv', DocsInv, NEW r \in Requests,
           \A s \in Requests \ {r} : req'[s] = req[s],
           Moves, DocsOK', NEW q \in Locals, q = req'[r], Clears(q)'
    PROVE  DocsInv'
<1>1. \A s \in Requests : Clears(req[s])'
  <2> TAKE s \in Requests
  <2>1. CASE s = r
    BY <2>1 DEF Clears, DocOf
  <2>2. CASE s # r
    <3>1. PICK d \in Locals : d = req[s] /\ d = req'[s]
      BY <2>2 DEF IInv, TypeOK
    <3>2. Clears(d) /\ (d.pc \in CleanupPcs => d.target \in UploadIds /\ intent[d.target].state # "unused")
      BY <3>1 DEF DocsInv, IInv, StepsJustified, RequestOK
    <3>3. Clears(d)'
      BY <3>2, ClearsKept DEF IInv, DocsInv
    <3> QED BY <3>1, <3>3 DEF Clears, DocOf
  <2> QED BY <2>1, <2>2
<1> QED BY <1>1 DEF DocsInv

\* Where a request goes: on, with its form or without one, and not past the object of a cleanup.
Plain(r) ==
    /\ \A s \in Requests \ {r} : req'[s] = req[s]
    /\ req'[r].form \in {req[r].form, NoForm}
    /\ req'[r].pc \notin {"finish", "finalize", "forget"}

\* One request alone becomes something else.
LEMMA BecomeOnly ==
    ASSUME TypeOK, NEW r \in Requests, NEW q, Become(r, q)
    PROVE  req'[r] = q /\ \A s \in Requests \ {r} : req'[s] = req[s]
BY DEF TypeOK, Become

\* What the operators of a request's control do to its form.
LEMMA PlainControl ==
    ASSUME TypeOK, NEW r \in Requests
    PROVE  /\ \A to : Go(r, to) => /\ \A s \in Requests \ {r} : req'[s] = req[s]
                                  /\ req'[r].form = req[r].form /\ req'[r].pc = to
                                  /\ req'[r].target = req[r].target
           /\ \A reply : Refuse(r, reply) => Plain(r)
           /\ \A reply, i : Accept(r, reply, i) => Plain(r)
           /\ \A i, caller : CallCleanup(r, i, caller) => Plain(r)
           /\ FailWrite(r) => Plain(r)
<1>1. req[r] \in Locals
  BY DEF TypeOK
<1>2. ASSUME NEW to, Go(r, to)
      PROVE  /\ \A s \in Requests \ {r} : req'[s] = req[s]
             /\ req'[r].form = req[r].form /\ req'[r].pc = to
             /\ req'[r].target = req[r].target
  BY <1>1, <1>2, BecomeOnly DEF Go, Locals
<1>3. ASSUME NEW reply, Refuse(r, reply) PROVE Plain(r)
  <2> DEFINE q == [Idle EXCEPT !.pc = "done", !.reply = reply]
  <2>1. q.form = NoForm /\ q.pc = "done"
    BY DEF Idle
  <2> QED BY <1>3, <2>1, BecomeOnly DEF Refuse, Plain
<1>4. ASSUME NEW reply, NEW i, Accept(r, reply, i) PROVE Plain(r)
  <2> DEFINE q == [Idle EXCEPT !.pc = "done", !.reply = reply, !.form = req[r].form, !.held = i]
  <2>1. q.form = req[r].form /\ q.pc = "done"
    BY DEF Idle
  <2> QED BY <1>4, <2>1, BecomeOnly DEF Accept, Plain
<1>5. ASSUME NEW i, NEW caller, CallCleanup(r, i, caller) PROVE Plain(r)
  <2> DEFINE q == [req[r] EXCEPT !.pc = "cleanup", !.target = i, !.caller = caller,
                                 !.todo = @ \ {i}]
  <2>1. q.form = req[r].form /\ q.pc = "cleanup"
    BY <1>1 DEF Locals
  <2> QED BY <1>5, <2>1, BecomeOnly DEF CallCleanup, Plain
<1>6. ASSUME FailWrite(r) PROVE Plain(r)
  <2> DEFINE q == [req[r] EXCEPT !.pc = "abort", !.caller = "writeFailed"]
  <2>1. q.form = req[r].form /\ q.pc = "abort"
    BY <1>1 DEF Locals
  <2> QED BY <1>6, <2>1, BecomeOnly DEF FailWrite, Plain
<1> QED BY <1>2, <1>3, <1>4, <1>5, <1>6

\* A cleanup that returns or throws.
LEMMA PlainReturn ==
    ASSUME TypeOK, NEW r \in Requests, CleanupReturns(r) \/ CleanupThrows(r)
    PROVE  Plain(r)
<1>1. \A to \in {"sweep", "relookup", "failed"} : Go(r, to) => Plain(r)
  BY PlainControl DEF Plain
<1>2. \A reply : Refuse(r, reply) => Plain(r)
  BY PlainControl
<1>3. CleanupReturns(r) => Plain(r)
  BY <1>1, <1>2 DEF CleanupReturns
<1> QED BY <1>2, <1>3 DEF CleanupThrows

\* Every step that does not arrive, and does not go past the object of a cleanup.
LEMMA PlainSteps ==
    ASSUME TypeOK, NEW r \in Requests, NEW lost \in BOOLEAN,
           \/ SelectSweep(r) \/ SweepNext(r) \/ Lookup(r) \/ Relookup(r) \/ Stage(r)
           \/ CheckCommitted(r) \/ Put(r, lost) \/ HeadObject(r) \/ PrepareCommit(r)
           \/ CommitBatch(r, lost) \/ Recheck(r) \/ Abort(r, lost) \/ AnswerFailed(r)
           \/ Claim(r, lost) \/ ReadClaimed(r) \/ DeleteIntent(r, lost) \/ CallFails(r) \/ Crash(r)
    PROVE  Plain(r)
<1>0. req[r] \in Locals
  BY DEF TypeOK
<1>1. ASSUME NEW to \in {"sweep", "stage", "put", "head", "commit", "recheck", "reclaim", "delete"},
             Go(r, to)
      PROVE  Plain(r)
  BY <1>1, PlainControl DEF Plain
<1>2. /\ \A reply : Refuse(r, reply) => Plain(r)
      /\ \A reply, i : Accept(r, reply, i) => Plain(r)
      /\ \A i, caller : CallCleanup(r, i, caller) => Plain(r)
      /\ FailWrite(r) => Plain(r)
  BY PlainControl
<1>3. CleanupReturns(r) \/ CleanupThrows(r) => Plain(r)
  BY PlainReturn
<1>4. ASSUME NEW i, Become(r, [req[r] EXCEPT !.pc = "check", !.held = i]) PROVE Plain(r)
  <2> DEFINE q == [req[r] EXCEPT !.pc = "check", !.held = i]
  <2>1. q.form = req[r].form /\ q.pc = "check"
    BY <1>0 DEF Locals
  <2> QED BY <1>4, <2>1, BecomeOnly DEF Plain
<1>5. ASSUME NEW i, Resume(r, i) PROVE Plain(r)
  BY <1>5, <1>2, <1>4 DEF Resume
<1>6. NoIntent(r) => Plain(r)
  BY <1>1, <1>2 DEF NoIntent
<1>7. CASE SelectSweep(r)
  <2>1. PICK S : Become(r, [req[r] EXCEPT !.pc = "sweep", !.todo = S])
    BY <1>7 DEF SelectSweep
  <2> DEFINE q == [req[r] EXCEPT !.pc = "sweep", !.todo = S]
  <2>2. q.form = req[r].form /\ q.pc = "sweep"
    BY <1>0 DEF Locals
  <2> QED BY <2>1, <2>2, BecomeOnly DEF Plain
<1>8. CASE PrepareCommit(r)
  <2>1. CASE \E c : Become(r, [req[r] EXCEPT !.pc = "batch", !.current = c])
    <3>1. PICK c : Become(r, [req[r] EXCEPT !.pc = "batch", !.current = c])
      BY <2>1
    <3> DEFINE q == [req[r] EXCEPT !.pc = "batch", !.current = c]
    <3>2. q.form = req[r].form /\ q.pc = "batch"
      BY <1>0 DEF Locals
    <3> QED BY <3>1, <3>2, BecomeOnly DEF Plain
  <2> QED BY <1>1, <1>8, <2>1 DEF PrepareCommit
<1>9. CASE Recheck(r)
  <2>1. CASE Become(r, [req[r] EXCEPT !.pc = "abort", !.caller = "commitFailed"])
    <3> DEFINE q == [req[r] EXCEPT !.pc = "abort", !.caller = "commitFailed"]
    <3>2. q.form = req[r].form /\ q.pc = "abort"
      BY <1>0 DEF Locals
    <3> QED BY <2>1, <3>2, BecomeOnly DEF Plain
  <2> QED BY <1>2, <1>9, <2>1 DEF Recheck
<1>10. CASE SweepNext(r) \/ Lookup(r) \/ Relookup(r) \/ CheckCommitted(r) \/ HeadObject(r)
  BY <1>1, <1>2, <1>5, <1>6, <1>10 DEF SweepNext, Lookup, Relookup, CheckCommitted, HeadObject
<1>11. CASE Stage(r)
  BY <1>2, <1>4, <1>11 DEF Stage
<1>12. CASE Put(r, lost) \/ CommitBatch(r, lost) \/ Abort(r, lost) \/ AnswerFailed(r)
  BY <1>1, <1>2, <1>3, <1>12 DEF Put, CommitBatch, Abort, AnswerFailed
<1>13. CASE Claim(r, lost) \/ ReadClaimed(r) \/ DeleteIntent(r, lost)
  BY <1>1, <1>3, <1>13 DEF Claim, ReadClaimed, DeleteIntent, CleanupGoes
<1>14. CASE CallFails(r) \/ Crash(r)
  BY <1>1, <1>2, <1>3, <1>14 DEF CallFails, Crash
<1> QED BY <1>7, <1>8, <1>9, <1>10, <1>11, <1>12, <1>13, <1>14

\* The documents, after a step to such a place.
LEMMA PlainDocs ==
    ASSUME IInv, IInv', DocsInv, NEW r \in Requests, Plain(r), Moves, DocsOK'
    PROVE  DocsInv'
<1>1. PICK q \in Locals : q = req'[r]
  BY DEF IInv, TypeOK
<1>2. req[r] \in Locals /\ Clears(req[r])
  BY DEF IInv, TypeOK, DocsInv
<1>3. q.form.target \in Targets \cup {NewDocument}
  BY <1>1, <1>2 DEF Plain, Clears, NoForm
<1>4. q.form.target # NewDocument => docs[q.form.target] = "final"
  BY <1>1, <1>2 DEF Plain, Clears, NoForm
<1>5. q.form.target # NewDocument => docs'[q.form.target] = "final"
  BY <1>4 DEF Moves, Locals, Forms
<1>6. Clears(q)'
  BY <1>1, <1>3, <1>5 DEF Plain, Clears
<1> QED BY <1>1, <1>6, DocsStep DEF Plain

\* The documents, after a step past the object of a cleanup.
LEMMA GoDocs ==
    ASSUME IInv, IInv', DocsInv, NEW r \in Requests, NEW to \in {"finish", "finalize", "forget"},
           Go(r, to), req[r].pc \in CleanupPcs, Moves, DocsOK',
           intent'[req[r].target].state \in {"deleting", "deleted", "removed"},
           to # "finish" => intent'[req[r].target].state \in {"deleted", "removed"},
           to = "forget" /\ Targets = {NewDocument} => docs'[req[r].target] # "provisional"
    PROVE  DocsInv'
<1>1. PICK q \in Locals : q = req'[r]
  BY DEF IInv, TypeOK
<1>2. req[r] \in Locals /\ Clears(req[r])
  BY DEF IInv, TypeOK, DocsInv
<1>3. /\ \A s \in Requests \ {r} : req'[s] = req[s]
      /\ q.form = req[r].form /\ q.pc = to /\ q.target = req[r].target
  BY <1>1, PlainControl DEF IInv
<1>4. q.target \in UploadIds
  BY <1>3 DEF IInv, StepsJustified, RequestOK
<1>5. q.form.target # NewDocument => docs'[q.form.target] = "final"
  BY <1>2, <1>3 DEF Clears, Moves, Locals, Forms
<1>6. ASSUME Targets = {NewDocument}
      PROVE  intent'[q.target].form.target = NewDocument
  BY <1>4, <1>6 DEF DocsOK, DocOK
<1>7. Clears(q)'
  BY <1>2, <1>3, <1>5, <1>6 DEF Clears, DocOf
<1> QED BY <1>1, <1>3, <1>7, DocsStep

\* Rows advance on their way to removal, and the documents stay as they are.
LEMMA RowsAdvance ==
    ASSUME TypeOK, DocsOK, UNCHANGED <<docs, version>>,
           \A j \in UploadIds :
              /\ intent'[j].form = intent[j].form
              /\ \/ intent'[j].state = intent[j].state
                 \/ intent[j].state = "pending" /\ intent'[j].state = "deleting"
                 \/ intent[j].state = "deleting" /\ intent'[j].state = "deleted"
                 \/ /\ intent[j].state = "deleted" /\ intent'[j].state = "removed"
                    /\ Targets = {NewDocument} => docs[j] # "provisional"
    PROVE  Moves /\ DocsOK'
<1>1. Moves
  BY DEF Moves
<1>2. \A j \in UploadIds : VersionsOf(j)' = VersionsOf(j)
  BY DEF VersionsOf, Committed
<1>3. ASSUME NEW j \in UploadIds
      PROVE  /\ intent'[j].form.target \in Targets \cup {NewDocument}
             /\ intent'[j].state # "unused" /\ intent'[j].form.target # NewDocument
                   => docs'[intent'[j].form.target] = "final"
             /\ intent'[j].state = "unused" => docs'[j] = "absent"
             /\ intent'[j].state \in {"pending", "deleting", "deleted"}
                   /\ intent'[j].form.target = NewDocument => docs'[j] = "provisional"
  BY DEF DocsOK, DocOK
<1>4. ASSUME NEW j \in UploadIds, docs'[j] = "provisional"
      PROVE  /\ intent'[j].state \in {"pending", "deleting", "deleted", "removed"}
             /\ intent'[j].form.target = NewDocument
             /\ Targets = {NewDocument} => intent'[j].state # "removed"
  BY <1>4 DEF DocsOK, DocOK
<1>5. ASSUME NEW j \in UploadIds
      PROVE  /\ docs'[j] = "final" <=> VersionsOf(j)' # {}
             /\ version'[j] # None =>
                   version'[j].doc = IF intent'[j].form.target = NewDocument THEN j
                                     ELSE intent'[j].form.target
  BY <1>2 DEF DocsOK, DocOK, DocOf
<1> QED BY <1>1, <1>3, <1>4, <1>5 DEF DocsOK, DocOK, DocOf

\* A row gets a state of its own.
LEMMA SetStateOnly ==
    ASSUME TypeOK, NEW i \in UploadIds, NEW s, SetState(i, s)
    PROVE  /\ \A j \in UploadIds : intent'[j].form = intent[j].form
           /\ intent'[i].state = s
           /\ \A j \in UploadIds : j # i => intent'[j] = intent[j]
<1>1. intent[i] \in Intents
  BY DEF TypeOK
<1> QED BY <1>1 DEF SetState, TypeOK, Intents

-----------------------------------------------------------------------------
(* Each step keeps the documents in order.                                 *)

\* The steps that leave rows, documents and versions alone.
LEMMA QuietDocs ==
    ASSUME IInv, IInv', DocsInv, NEW r \in Requests, NEW lost \in BOOLEAN,
           \/ SelectSweep(r) \/ SweepNext(r) \/ Lookup(r) \/ Relookup(r)
           \/ CheckCommitted(r) \/ Put(r, lost) \/ HeadObject(r) \/ PrepareCommit(r)
           \/ Recheck(r) \/ AnswerFailed(r) \/ ReadClaimed(r) \/ CallFails(r) \/ Crash(r)
    PROVE  DocsInv'
<1>1. UNCHANGED <<intent, docs, version>>
  BY DEF SelectSweep, SweepNext, Lookup, Relookup, CheckCommitted, Put, HeadObject, PrepareCommit,
         Recheck, AnswerFailed, ReadClaimed, CallFails, Crash, ledger
<1>2. Moves /\ DocsOK'
  BY <1>1, RowsAdvance DEF IInv, DocsInv
<1>3. Plain(r)
  BY PlainSteps DEF IInv
<1> QED BY <1>2, <1>3, PlainDocs

\* An arriving request has seen the final document it uploads to.
LEMMA ArriveDocs ==
    ASSUME IInv, IInv', DocsInv, NEW r \in Requests, Arrive(r)
    PROVE  DocsInv'
<1>1. UNCHANGED <<intent, docs, version>>
  BY DEF Arrive, ledger
<1>2. Moves /\ DocsOK'
  BY <1>1, RowsAdvance DEF IInv, DocsInv
<1>3. PICK key \in Keys, target \in Targets, content \in Contents,
            expected \in BaseRevision .. IF revision < MaxRevision THEN revision ELSE revision - 1 :
        /\ target # NewDocument => docs[target] = "final"
        /\ Become(r, [Idle EXCEPT !.pc = "select", !.seen = revision,
              !.form = [key |-> key, target |-> target, expected |-> expected,
                        content |-> content]])
  BY DEF Arrive
<1>4. PICK q : q = [Idle EXCEPT !.pc = "select", !.seen = revision,
              !.form = [key |-> key, target |-> target, expected |-> expected,
                        content |-> content]]
  OBVIOUS
<1>5. q.pc = "select" /\ q.form.target = target
  BY <1>4 DEF Idle
<1>6. req'[r] = q /\ \A s \in Requests \ {r} : req'[s] = req[s]
  BY <1>3, <1>4, BecomeOnly DEF IInv
<1>7. q \in Locals
  BY <1>6 DEF IInv, TypeOK
<1>8. Clears(q)'
  BY <1>1, <1>3, <1>5 DEF Clears
<1> QED BY <1>2, <1>6, <1>7, <1>8, DocsStep

\* A claim, by a cleanup or by an abort.
LEMMA ClaimDocs ==
    ASSUME IInv, IInv', DocsInv, NEW r \in Requests, NEW lost \in BOOLEAN,
           Claim(r, lost) \/ Abort(r, lost)
    PROVE  DocsInv'
<1>1. UNCHANGED <<docs, version>>
  BY DEF Claim, Abort, ledger
<1>2. req[r].target \in UploadIds \/ req[r].pc # "claim"
  BY DEF IInv, StepsJustified, RequestOK, CleanupPcs
<1>3. req[r].held \in UploadIds \/ req[r].pc # "abort"
  BY DEF IInv, StepsJustified, RequestOK
<1>4. \/ UNCHANGED intent
      \/ \E i \in UploadIds : intent[i].state = "pending" /\ SetState(i, "deleting")
  BY <1>2, <1>3 DEF Claim, Abort, Step
<1>5. Moves /\ DocsOK'
  <2>1. CASE UNCHANGED intent
    BY <1>1, <2>1, RowsAdvance DEF IInv, DocsInv
  <2>2. CASE \E i \in UploadIds : intent[i].state = "pending" /\ SetState(i, "deleting")
    <3>1. PICK i \in UploadIds : intent[i].state = "pending" /\ SetState(i, "deleting")
      BY <2>2
    <3>2. /\ \A j \in UploadIds : intent'[j].form = intent[j].form
          /\ intent'[i].state = "deleting"
          /\ \A j \in UploadIds : j # i => intent'[j] = intent[j]
      BY <3>1, SetStateOnly DEF IInv
    <3> QED BY <1>1, <3>1, <3>2, RowsAdvance DEF IInv, DocsInv
  <2> QED BY <1>4, <2>1, <2>2
<1>6. Plain(r)
  BY PlainSteps DEF IInv
<1> QED BY <1>5, <1>6, PlainDocs

\* A cleanup that finds its intent deleted goes straight to the metadata.
LEMMA ReadLiveDocs ==
    ASSUME IInv, IInv', DocsInv, NEW r \in Requests, ReadLive(r)
    PROVE  DocsInv'
<1>1. UNCHANGED <<intent, docs, version>> /\ req[r].pc \in CleanupPcs
  BY DEF ReadLive, ledger, Step, CleanupPcs
<1>2. Moves /\ DocsOK'
  BY <1>1, RowsAdvance DEF IInv, DocsInv
<1>3. CASE intent[req[r].target].state = "deleted" /\ Go(r, "finalize")
  BY <1>1, <1>2, <1>3, GoDocs
<1>4. CASE CleanupReturns(r)
  BY <1>2, <1>4, PlainReturn, PlainDocs DEF IInv
<1>5. CASE \E to \in {"claim", "reclaim"} : Go(r, to)
  <2>1. Plain(r)
    BY <1>5, PlainControl DEF IInv, Plain
  <2> QED BY <1>2, <2>1, PlainDocs
<1> QED BY <1>3, <1>4, <1>5 DEF ReadLive

\* A cleanup that deletes the object, and then marks its intent deleted.
LEMMA FinishDocs ==
    ASSUME IInv, IInv', DocsInv, NEW r \in Requests, NEW lost \in BOOLEAN,
           DeleteObject(r, lost) \/ Finish(r, lost)
    PROVE  DocsInv'
<1> DEFINE i == req[r].target
<1>1. UNCHANGED <<docs, version>> /\ req[r].pc \in {"delete", "finish"}
  BY DEF DeleteObject, Finish, ledger, Step
<1>2. i \in UploadIds /\ intent[i].state \in {"deleting", "deleted", "removed"}
  BY <1>1 DEF IInv, StepsJustified, RequestOK, CleanupPcs, DocsInv, Clears
<1>3. \/ UNCHANGED intent /\ (Finish(r, lost) => intent[i].state # "deleting")
      \/ intent[i].state = "deleting" /\ SetState(i, "deleted")
  BY DEF DeleteObject, Finish, ledger, Step
<1>4. Moves /\ DocsOK' /\ intent'[i].state \in {"deleting", "deleted", "removed"}
      /\ (Finish(r, lost) => intent'[i].state \in {"deleted", "removed"})
  <2>1. CASE UNCHANGED intent /\ (Finish(r, lost) => intent[i].state # "deleting")
    BY <1>1, <1>2, <2>1, RowsAdvance DEF IInv, DocsInv
  <2>2. CASE intent[i].state = "deleting" /\ SetState(i, "deleted")
    <3>2. /\ \A j \in UploadIds : intent'[j].form = intent[j].form
          /\ intent'[i].state = "deleted"
          /\ \A j \in UploadIds : j # i => intent'[j] = intent[j]
      BY <1>2, <2>2, SetStateOnly DEF IInv
    <3> QED BY <1>1, <1>2, <2>2, <3>2, RowsAdvance DEF IInv, DocsInv
  <2> QED BY <1>3, <2>1, <2>2
<1>5. CASE CleanupThrows(r)
  BY <1>4, <1>5, PlainReturn, PlainDocs DEF IInv
<1>6. CASE DeleteObject(r, lost) /\ Go(r, "finish")
  BY <1>1, <1>4, <1>6, GoDocs DEF CleanupPcs
<1>7. CASE Finish(r, lost) /\ Go(r, "finalize")
  BY <1>1, <1>4, <1>7, GoDocs DEF CleanupPcs
<1> QED BY <1>5, <1>6, <1>7 DEF DeleteObject, Finish, CleanupGoes

\* The metadata of a removed upload: its provisional document goes with its intent.
LEMMA RemoveDocs ==
    ASSUME IInv, IInv', DocsInv, NEW r \in Requests, NEW lost \in BOOLEAN, DeleteDocument(r, lost)
    PROVE  DocsInv'
<1> DEFINE i == req[r].target
<1>1. UNCHANGED version /\ req[r].pc = "finalize" /\ CleanupGoes(r, lost, "forget")
  BY DEF DeleteDocument, Step
<1>2. i \in UploadIds /\ intent[i].state \in {"deleted", "removed"} /\ Clears(req[r])
  BY <1>1 DEF IInv, StepsJustified, RequestOK, CleanupPcs, DocsInv, Clears
<1>3. CASE KnownProvisional(r) /\ docs[DocOf(i)] = "provisional"
  <2>1. docs' = [docs EXCEPT ![DocOf(i)] = "absent"] /\ SetState(i, "removed")
    BY <1>2, <1>3 DEF DeleteDocument
  <2>2. DocOf(i) = i
    BY <1>2, <1>3 DEF DocOf, DocsInv, DocsOK, DocOK
  <2>3. /\ \A j \in UploadIds : intent'[j].form = intent[j].form
        /\ intent'[i].state = "removed"
        /\ \A j \in UploadIds : j # i => intent'[j] = intent[j]
    BY <1>2, <2>1, SetStateOnly DEF IInv
  <2>4. docs'[i] = "absent" /\ \A j \in UploadIds : j # i => docs'[j] = docs[j]
    BY <1>2, <2>1, <2>2 DEF IInv, TypeOK
  <2>5. docs[i] = "provisional"
    BY <1>3, <2>2
  <2>6. Moves
    BY <1>2, <2>3, <2>4, <2>5 DEF Moves
  <2>7. \A j \in UploadIds : VersionsOf(j)' = VersionsOf(j)
    BY <1>1 DEF VersionsOf, Committed
  <2>8. ASSUME NEW j \in UploadIds PROVE DocOK(j)'
    <3>1. /\ intent'[j].form.target \in Targets \cup {NewDocument}
          /\ intent'[j].form.target # NewDocument => intent'[j].form.target \in UploadIds
      BY <2>3 DEF DocsInv, DocsOK, DocOK, IInv, TypeOK, Intents, Forms
    <3>2. intent'[j].state # "unused" /\ intent'[j].form.target # NewDocument
             => docs'[intent'[j].form.target] = "final"
      BY <1>2, <2>3, <2>4, <2>5, <3>1 DEF DocsInv, DocsOK, DocOK
    <3>3. /\ intent'[j].state = "unused" => docs'[j] = "absent"
          /\ intent'[j].state \in {"pending", "deleting", "deleted"}
                   /\ intent'[j].form.target = NewDocument => docs'[j] = "provisional"
          /\ docs'[j] = "provisional" =>
                /\ intent'[j].state \in {"pending", "deleting", "deleted", "removed"}
                /\ intent'[j].form.target = NewDocument
                /\ Targets = {NewDocument} => intent'[j].state # "removed"
      BY <1>2, <2>3, <2>4 DEF DocsInv, DocsOK, DocOK
    <3>4. /\ docs'[j] = "final" <=> VersionsOf(j)' # {}
          /\ version'[j] # None => version'[j].doc = DocOf(j)'
      BY <1>1, <1>2, <2>3, <2>4, <2>5, <2>7 DEF DocsInv, DocsOK, DocOK, DocOf
    <3> QED BY <3>1, <3>2, <3>3, <3>4 DEF DocOK
  <2>9. CASE CleanupThrows(r)
    BY <2>6, <2>8, <2>9, PlainReturn, PlainDocs DEF IInv, DocsOK
  <2>10. CASE Go(r, "forget")
    BY <1>1, <2>3, <2>4, <2>6, <2>8, <2>10, GoDocs DEF DocsOK, CleanupPcs
  <2> QED BY <1>1, <2>9, <2>10 DEF CleanupGoes
<1>4. CASE ~(KnownProvisional(r) /\ docs[DocOf(i)] = "provisional")
  <2>1. UNCHANGED <<docs, intent>>
    BY <1>4 DEF DeleteDocument
  <2>2. Moves /\ DocsOK'
    BY <1>1, <2>1, RowsAdvance DEF IInv, DocsInv
  <2>3. Targets = {NewDocument} => docs[i] # "provisional"
    <3>1. ASSUME Targets = {NewDocument}
          PROVE  req[r].form.target = NewDocument /\ DocOf(i) = i
      BY <1>2, <3>1 DEF Clears, DocOf, DocsInv, DocsOK, DocOK
    <3> QED BY <1>4, <3>1 DEF KnownProvisional
  <2>4. CASE CleanupThrows(r)
    BY <2>2, <2>4, PlainReturn, PlainDocs DEF IInv
  <2>5. CASE Go(r, "forget")
    BY <1>1, <1>2, <2>1, <2>2, <2>3, <2>5, GoDocs DEF CleanupPcs
  <2> QED BY <1>1, <2>4, <2>5 DEF CleanupGoes
<1> QED BY <1>3, <1>4

\* The intent goes last, when its document is gone.
LEMMA ForgetDocs ==
    ASSUME IInv, IInv', DocsInv, NEW r \in Requests, NEW lost \in BOOLEAN, DeleteIntent(r, lost)
    PROVE  DocsInv'
<1> DEFINE i == req[r].target
<1>1. UNCHANGED <<docs, version>> /\ req[r].pc = "forget"
  BY DEF DeleteIntent, ledger, Step
<1>2. i \in UploadIds /\ Clears(req[r])
  BY <1>1 DEF IInv, StepsJustified, RequestOK, CleanupPcs, DocsInv
<1>3. Targets = {NewDocument} => docs[i] # "provisional"
  BY <1>1, <1>2 DEF Clears, DocOf, DocsInv, DocsOK, DocOK
<1>4. Moves /\ DocsOK'
  <2>1. CASE UNCHANGED intent
    BY <1>1, <2>1, RowsAdvance DEF IInv, DocsInv
  <2>2. CASE intent[i].state = "deleted" /\ SetState(i, "removed")
    <3>2. /\ \A j \in UploadIds : intent'[j].form = intent[j].form
          /\ intent'[i].state = "removed"
          /\ \A j \in UploadIds : j # i => intent'[j] = intent[j]
      BY <1>2, <2>2, SetStateOnly DEF IInv
    <3> QED BY <1>1, <1>3, <2>2, <3>2, RowsAdvance DEF IInv, DocsInv
  <2> QED BY <2>1, <2>2 DEF DeleteIntent
<1>5. Plain(r)
  BY PlainSteps DEF IInv
<1> QED BY <1>4, <1>5, PlainDocs

\* A reservation of a new document makes it, provisionally.
LEMMA StageDocs ==
    ASSUME IInv, IInv', DocsInv, NEW r \in Requests, Stage(r)
    PROVE  DocsInv'
<1> DEFINE f == req[r].form
<1>1. /\ UNCHANGED version /\ Plain(r) /\ Clears(req[r]) /\ f \in Forms
  BY PlainSteps DEF Stage, IInv, TypeOK, Locals, DocsInv
<1>2. CASE UNCHANGED <<intent, docs>>
  <2>1. Moves /\ DocsOK'
    BY <1>1, <1>2, RowsAdvance DEF IInv, DocsInv
  <2> QED BY <1>1, <2>1, PlainDocs
<1>3. CASE \E i \in UploadIds :
             /\ intent[i].state = "unused"
             /\ intent' = [intent EXCEPT ![i] = [state |-> "pending", form |-> f, left |-> TTL]]
             /\ docs' = IF f.target = NewDocument
                        THEN [docs EXCEPT ![i] = "provisional"] ELSE docs
  <2>1. PICK i \in UploadIds :
             /\ intent[i].state = "unused"
             /\ intent' = [intent EXCEPT ![i] = [state |-> "pending", form |-> f, left |-> TTL]]
             /\ docs' = IF f.target = NewDocument
                        THEN [docs EXCEPT ![i] = "provisional"] ELSE docs
    BY <1>3
  <2>2. /\ intent'[i].state = "pending" /\ intent'[i].form = f
        /\ \A j \in UploadIds : j # i => intent'[j] = intent[j]
    BY <2>1 DEF IInv, TypeOK
  <2>3. docs[i] = "absent" /\ version[i] = None /\ VersionsOf(i) = {}
    BY <2>1 DEF DocsInv, DocsOK, DocOK, IInv, RowsOK
  <2>4. /\ \A j \in UploadIds : j # i => docs'[j] = docs[j]
        /\ docs'[i] = IF f.target = NewDocument THEN "provisional" ELSE "absent"
    BY <2>1, <2>3 DEF IInv, TypeOK
  <2>5. Moves
    BY <2>1, <2>2, <2>3, <2>4 DEF Moves
  <2>6. \A j \in UploadIds : VersionsOf(j)' = VersionsOf(j)
    BY <1>1 DEF VersionsOf, Committed
  <2>7. f.target \in Targets \cup {NewDocument}
        /\ (f.target # NewDocument => f.target \in UploadIds /\ docs[f.target] = "final")
    BY <1>1 DEF Clears, Forms
  <2>8. DocOK(i)'
    BY <1>1, <2>2, <2>3, <2>4, <2>6, <2>7 DEF DocOK
  <2>9. ASSUME NEW j \in UploadIds, j # i PROVE DocOK(j)'
    <3>1. /\ intent[j].form.target \in Targets \cup {NewDocument}
          /\ intent[j].form.target # NewDocument => intent[j].form.target \in UploadIds
      BY DEF DocsInv, DocsOK, DocOK, IInv, TypeOK, Intents, Forms
    <3>2. intent[j].state # "unused" /\ intent[j].form.target # NewDocument
             => docs'[intent[j].form.target] = "final"
      BY <2>3, <2>4, <3>1 DEF DocsInv, DocsOK, DocOK
    <3> QED BY <1>1, <2>2, <2>4, <2>6, <2>9, <3>1, <3>2 DEF DocsInv, DocsOK, DocOK, DocOf
  <2> QED BY <1>1, <2>5, <2>8, <2>9, PlainDocs DEF DocsOK
<1> QED BY <1>2, <1>3 DEF Stage

\* A commit makes the document final and gives it a version.
LEMMA CommitDocs ==
    ASSUME IInv, IInv', DocsInv, NEW r \in Requests, NEW lost \in BOOLEAN, CommitBatch(r, lost)
    PROVE  DocsInv'
<1> DEFINE i == req[r].held
           p == req[r].current
<1>1. req[r].pc = "batch" /\ Plain(r)
  BY PlainSteps DEF CommitBatch, Step, IInv
<1>2. i \in UploadIds
  BY <1>1 DEF IInv, StepsJustified, RequestOK
<1>3. CASE UNCHANGED <<ledger, intent>>
  <2>1. Moves /\ DocsOK'
    BY <1>3, RowsAdvance DEF IInv, DocsInv, ledger
  <2> QED BY <1>1, <2>1, PlainDocs
<1>4. CASE CommitGuard(i, p) /\ CommitRows(i, p)
  <2>1. PICK d \in UploadIds : d = DocOf(i)
    BY <1>2, DocOfType DEF IInv
  <2>2. /\ intent[i].state = "pending" /\ version[i] = None
        /\ SetState(i, "committed") /\ docs' = [docs EXCEPT ![d] = "final"]
    BY <1>4, <2>1 DEF CommitGuard, CommitRows
  <2>3. /\ \A j \in UploadIds : intent'[j].form = intent[j].form
        /\ intent'[i].state = "committed"
        /\ \A j \in UploadIds : j # i => intent'[j] = intent[j]
    BY <1>2, <2>2, SetStateOnly DEF IInv
  <2>4. docs'[d] = "final" /\ \A j \in UploadIds : j # d => docs'[j] = docs[j]
    BY <2>2 DEF IInv, TypeOK
  <2>5. /\ version'[i] # None /\ version'[i].doc = d
        /\ \A j \in UploadIds : j # i => version'[j] = version[j]
    <3>1. version' = [version EXCEPT ![i] =
              [doc |-> d, ordinal |-> NextOrdinal(p), predecessor |-> p,
               revision |-> intent[i].form.expected + 1]]
      BY <1>4, <2>1 DEF CommitRows
    <3>2. version'[i].doc = d /\ \A j \in UploadIds : j # i => version'[j] = version[j]
      BY <1>2, <3>1 DEF IInv, TypeOK
    <3>3. version'[i] # None
      BY <1>2, <2>3 DEF IInv, RowsOK
    <3> QED BY <3>2, <3>3
  <2>6. d # i => intent[i].form.target = d /\ d # NewDocument /\ docs[d] = "final"
    BY <1>2, <2>1, <2>2, ConstantsAssumption
    DEF DocOf, DocsInv, DocsOK, DocOK, ConstantsAssumption
  <2>7. intent[d].state # "unused"
    BY <2>2, <2>6 DEF DocsInv, DocsOK, DocOK
  <2>8. Moves
    BY <1>2, <2>2, <2>3, <2>4 DEF Moves
  <2>9. \A j \in UploadIds : VersionsOf(j)' # {} <=> j = d \/ VersionsOf(j) # {}
    <3> TAKE j \in UploadIds
    <3>1. j = d => i \in VersionsOf(j)'
      BY <1>2, <2>5 DEF VersionsOf, Committed
    <3>2. j # d => \A k \in UploadIds : k \in VersionsOf(j)' <=> k \in VersionsOf(j)
      BY <1>2, <2>2, <2>5 DEF VersionsOf, Committed
    <3>3. VersionsOf(j) \subseteq UploadIds /\ VersionsOf(j)' \subseteq UploadIds
      BY DEF VersionsOf, Committed
    <3> QED BY <3>1, <3>2, <3>3
  <2>10. ASSUME NEW j \in UploadIds PROVE DocOK(j)'
    <3>1. /\ intent[j].form.target \in Targets \cup {NewDocument}
          /\ intent[j].form.target # NewDocument => intent[j].form.target \in UploadIds
      BY DEF DocsInv, DocsOK, DocOK, IInv, TypeOK, Intents, Forms
    <3>2. intent'[j].state # "unused" => intent[j].state # "unused"
      BY <2>2, <2>3
    <3>3. intent'[j].state # "unused" /\ intent[j].form.target # NewDocument
             => docs'[intent[j].form.target] = "final"
      BY <2>4, <3>1, <3>2 DEF DocsInv, DocsOK, DocOK
    <3>4. intent'[j].state = "unused" => docs'[j] = "absent"
      BY <2>3, <2>4, <2>7 DEF DocsInv, DocsOK, DocOK
    <3>5. intent'[j].state \in {"pending", "deleting", "deleted"}
             /\ intent[j].form.target = NewDocument => docs'[j] = "provisional"
      BY <2>3, <2>4, <2>6 DEF DocsInv, DocsOK, DocOK
    <3>6. docs'[j] = "provisional" =>
             /\ intent'[j].state \in {"pending", "deleting", "deleted", "removed"}
             /\ intent[j].form.target = NewDocument
             /\ Targets = {NewDocument} => intent'[j].state # "removed"
      BY <1>2, <2>1, <2>3, <2>4 DEF DocsInv, DocsOK, DocOK, DocOf
    <3>7. docs'[j] = "final" <=> VersionsOf(j)' # {}
      BY <2>4, <2>9 DEF DocsInv, DocsOK, DocOK
    <3>8. DocOf(j)' = DocOf(j)
      BY <2>3 DEF DocOf
    <3>9. version'[j] # None => version'[j].doc = DocOf(j)'
      BY <2>1, <2>5, <3>8 DEF DocsInv, DocsOK, DocOK
    <3> QED BY <2>3, <3>1, <3>3, <3>4, <3>5, <3>6, <3>7, <3>9 DEF DocOK
  <2> QED BY <1>1, <2>8, <2>10, PlainDocs DEF DocsOK
<1> QED BY <1>3, <1>4 DEF CommitBatch

\* Other mutations and the clock touch no document, and no row's state.
LEMMA EnvironmentDocs ==
    ASSUME IInv, IInv', DocsInv, OtherMutation \/ Tick \/ UNCHANGED vars
    PROVE  DocsInv'
<1>1. UNCHANGED <<docs, version, req>>
  BY DEF OtherMutation, Tick, vars, ledger
<1>2. \A j \in UploadIds : intent'[j].form = intent[j].form /\ intent'[j].state = intent[j].state
  <2>1. \A j \in UploadIds : intent[j] \in Intents
    BY DEF IInv, TypeOK
  <2>2. CASE Tick
    BY <2>1, <2>2 DEF Tick, Intents
  <2>3. CASE UNCHANGED intent
    BY <2>3
  <2> QED BY <2>2, <2>3 DEF OtherMutation, vars
<1>3. Moves /\ DocsOK'
  BY <1>1, <1>2, RowsAdvance DEF IInv, DocsInv
<1>4. ASSUME NEW s \in Requests PROVE Clears(req[s])'
  <2>1. PICK q \in Locals : q = req[s] /\ q = req'[s]
    BY <1>1 DEF IInv, TypeOK
  <2>2. Clears(q) /\ (q.pc \in CleanupPcs => q.target \in UploadIds /\ intent[q.target].state # "unused")
    BY <2>1 DEF DocsInv, IInv, StepsJustified, RequestOK
  <2>3. Clears(q)'
    BY <1>3, <2>2, ClearsKept DEF IInv, DocsInv
  <2> QED BY <2>1, <2>3 DEF Clears, DocOf
<1> QED BY <1>3, <1>4 DEF DocsInv

\* The Matter starts with the final document of Base.
LEMMA InitDocs == Init => DocsInv
<1> SUFFICES ASSUME Init PROVE DocsInv
    OBVIOUS
<1> USE ConstantsAssumption DEF Init, ConstantsAssumption
<1>1. \A i \in UploadIds : version[i] # None <=> i = Base
  BY InitIInv DEF IInv, RowsOK
<1>2. \A i \in UploadIds : VersionsOf(i) # {} <=> i = Base
  BY <1>1 DEF VersionsOf, Committed
<1>3. \A i \in UploadIds : intent[i].form.target = NewDocument
  BY DEF NoForm
<1>4. version[Base].doc = Base
  OBVIOUS
<1>5. DocsOK
  BY <1>1, <1>2, <1>3, <1>4 DEF DocsOK, DocOK, DocOf
<1>6. \A r \in Requests : Clears(req[r])
  BY DEF Clears, Idle, NoForm
<1> QED BY <1>5, <1>6 DEF DocsInv

\* Every step keeps the documents in order.
LEMMA NextDocs == IInv /\ IInv' /\ DocsInv /\ [Next]_vars => DocsInv'
<1> SUFFICES ASSUME IInv, IInv', DocsInv, [Next]_vars PROVE DocsInv'
    OBVIOUS
<1>1. ASSUME NEW r \in Requests, Arrive(r) \/ Progress(r) \/ Fault(r)
      PROVE  DocsInv'
  <2>1. CASE \E lost \in BOOLEAN :
                \/ SelectSweep(r) \/ SweepNext(r) \/ Lookup(r) \/ Relookup(r)
                \/ CheckCommitted(r) \/ Put(r, lost) \/ HeadObject(r) \/ PrepareCommit(r)
                \/ Recheck(r) \/ AnswerFailed(r) \/ ReadClaimed(r) \/ CallFails(r) \/ Crash(r)
    BY <2>1, QuietDocs
  <2>2. CASE Arrive(r) \/ Stage(r) \/ ReadLive(r)
    BY <2>2, ArriveDocs, StageDocs, ReadLiveDocs
  <2>3. CASE \E lost \in BOOLEAN : CommitBatch(r, lost) \/ Claim(r, lost) \/ Abort(r, lost)
    BY <2>3, CommitDocs, ClaimDocs
  <2>4. CASE \E lost \in BOOLEAN : \/ DeleteObject(r, lost) \/ Finish(r, lost)
                                   \/ DeleteDocument(r, lost) \/ DeleteIntent(r, lost)
    BY <2>4, FinishDocs, RemoveDocs, ForgetDocs
  <2> QED BY <1>1, <2>1, <2>2, <2>3, <2>4 DEF Progress, Fault
<1>2. CASE OtherMutation \/ Tick \/ UNCHANGED vars
  BY <1>2, EnvironmentDocs
<1> QED BY <1>1, <1>2 DEF Next

\* Where every upload makes a document, a provisional document is one that an uncommitted
\* reservation will finish or remove, and a final one has a version, however requests die,
\* retry and clean up after one another.
THEOREM ReservationsKept ==
    ASSUME Targets = {NewDocument} PROVE Spec => []ReservationsTracked
<1>1. IInv /\ DocsInv => ReservationsTracked
  BY DEF DocsInv, DocsOK, DocOK, ReservationsTracked, IInv, TypeOK
<1>2. Spec => []DocsInv
  BY InitDocs, NextDocs, Invariance, PTL DEF Spec
<1> QED BY <1>1, <1>2, Invariance, PTL

\* What the code keeps where uploads of both kinds share keys: a reservation of a new document has
\* its provisional document, a version's document is final, and a final document has a version.
RowsHaveDocuments ==
    \A i \in UploadIds :
        /\ intent[i].state \in {"pending", "deleting", "deleted"}
                 /\ intent[i].form.target = NewDocument => docs[i] = "provisional"
        /\ version[i] # None => docs[version[i].doc] = "final"
        /\ docs[i] = "final" => VersionsOf(i) # {}

\* The half of ReservationsTracked that needs no assumption on what clients upload to.
THEOREM DocumentsMade == Spec => []RowsHaveDocuments
<1>1. IInv /\ DocsInv => RowsHaveDocuments
  <2> SUFFICES ASSUME IInv, DocsInv, NEW i \in UploadIds, version[i] # None
               PROVE  docs[version[i].doc] = "final"
    BY DEF DocsInv, DocsOK, DocOK, RowsHaveDocuments
  <2>1. version[i].doc \in UploadIds /\ i \in VersionsOf(version[i].doc)
    BY DEF IInv, TypeOK, Versions, VersionsOf, Committed
  <2> QED BY <2>1 DEF DocsInv, DocsOK, DocOK
<1>2. Spec => []DocsInv
  BY InitDocs, NextDocs, Invariance, PTL DEF Spec
<1> QED BY <1>1, <1>2, Invariance, PTL
-----------------------------------------------------------------------------
(* Sums over sets.  Bytes is a fold: what it adds up does not depend on    *)
(* the order in which the elements are chosen.                             *)

\* A set of numbers has a least one.
LEMMA Least ==
    ASSUME NEW T \in SUBSET Nat, T # {}
    PROVE  \E x \in T : \A y \in T : ~(y < x)
<1> DEFINE R == OpToRel(<, Nat)
<1>1. IsWellFoundedOn(R, Nat)
  BY NatLessThanWellFounded
<1>2. \E x \in T : \A y \in T : ~ (<<y, x>> \in R)
  <2> HIDE DEF R
  <2> QED BY <1>1, WFMin
<1>3. \A x, y \in Nat : y < x => <<y, x>> \in R
  BY DEF OpToRel
<1> QED BY <1>2, <1>3

OneOf(s) == CHOOSE x \in s : TRUE

\* f holds the sum of the weights w over each set in D.
Sums(f, w, D) ==
    f = [s \in D |-> IF s = {} THEN 0 ELSE w[OneOf(s)] + f[s \ {OneOf(s)}]]

\* The sets of at most n elements.
UpTo(S, n) == {s \in SUBSET S : Cardinality(s) <= n}

\* A set that is not empty yields one of its elements, and is smaller without one.
LEMMA Shrinks ==
    ASSUME NEW S, IsFiniteSet(S), NEW s \in SUBSET S, s # {}
    PROVE  /\ OneOf(s) \in s
           /\ \A x \in s : /\ s \ {x} \in SUBSET S
                           /\ Cardinality(s) \in Nat
                           /\ Cardinality(s \ {x}) \in Nat
                           /\ Cardinality(s \ {x}) = Cardinality(s) - 1
<1>1. IsFiniteSet(s)
  BY FS_Subset
<1>2. OneOf(s) \in s
  BY DEF OneOf
<1>3. \A x \in s : /\ IsFiniteSet(s \ {x})
                   /\ Cardinality(s \ {x}) = Cardinality(s) - 1
  BY <1>1, FS_RemoveElement
<1>4. Cardinality(s) \in Nat /\ \A x \in s : Cardinality(s \ {x}) \in Nat
  BY <1>1, <1>3, FS_CardinalityType
<1> QED BY <1>2, <1>3, <1>4

\* The sums over the sets of any size exist.
LEMMA SumsUpTo ==
    ASSUME NEW S, IsFiniteSet(S), NEW w \in [S -> Nat], NEW n \in Nat
    PROVE  \E f \in [UpTo(S, n) -> Nat] : Sums(f, w, UpTo(S, n))
<1> DEFINE Has(k) == \E f \in [UpTo(S, k) -> Nat] : Sums(f, w, UpTo(S, k))
           Bad == {k \in Nat : ~Has(k)}
<1> SUFFICES ASSUME Bad # {} PROVE FALSE
    OBVIOUS
<1>1. PICK m \in Bad : \A y \in Bad : ~(y < m)
  <2> HIDE DEF Bad
  <2> QED BY Least DEF Bad
<1>2. m # 0
  <2> SUFFICES ASSUME m = 0 PROVE FALSE
      OBVIOUS
  <2> DEFINE g == [s \in UpTo(S, 0) |-> 0]
  <2>1. \A s \in UpTo(S, 0) : s = {}
    <3> TAKE s \in UpTo(S, 0)
    <3>1. s \in SUBSET S /\ Cardinality(s) <= 0
      BY DEF UpTo
    <3>2. ASSUME s # {} PROVE FALSE
      <4>1. OneOf(s) \in s
        BY <3>1, <3>2, Shrinks
      <4>2. /\ Cardinality(s) \in Nat /\ Cardinality(s \ {OneOf(s)}) \in Nat
            /\ Cardinality(s \ {OneOf(s)}) = Cardinality(s) - 1
        BY <3>1, <3>2, <4>1, Shrinks
      <4> QED BY <3>1, <4>2
    <3> QED BY <3>2
  <2>2. g \in [UpTo(S, 0) -> Nat] /\ Sums(g, w, UpTo(S, 0))
    BY <2>1 DEF Sums
  <2> QED BY <1>1, <2>2
<1>3. m - 1 \in Nat /\ m \in Nat /\ Has(m - 1)
  BY <1>1, <1>2
<1>4. PICK f \in [UpTo(S, m - 1) -> Nat] : Sums(f, w, UpTo(S, m - 1))
  BY <1>3
<1> DEFINE g == [s \in UpTo(S, m) |-> IF s = {} THEN 0 ELSE w[OneOf(s)] + f[s \ {OneOf(s)}]]
<1>5. ASSUME NEW s \in UpTo(S, m), s # {}
      PROVE  /\ OneOf(s) \in S
             /\ s \ {OneOf(s)} \in UpTo(S, m - 1)
             /\ s \ {OneOf(s)} \in UpTo(S, m)
  <2>1. s \in SUBSET S /\ Cardinality(s) <= m
    BY DEF UpTo
  <2>2. /\ OneOf(s) \in s /\ s \ {OneOf(s)} \in SUBSET S
        /\ Cardinality(s) \in Nat /\ Cardinality(s \ {OneOf(s)}) = Cardinality(s) - 1
    BY <1>5, <2>1, Shrinks
  <2> QED BY <1>3, <2>1, <2>2 DEF UpTo
<1>6. g \in [UpTo(S, m) -> Nat]
  BY <1>5
<1>7. \A s \in UpTo(S, m - 1) : g[s] = f[s]
  <2> TAKE s \in UpTo(S, m - 1)
  <2>1. s \in UpTo(S, m)
    <3>1. s \in SUBSET S /\ Cardinality(s) <= m - 1
      BY DEF UpTo
    <3>2. Cardinality(s) \in Nat
      BY <3>1, FS_Subset, FS_CardinalityType
    <3> QED BY <1>3, <3>1, <3>2 DEF UpTo
  <2>2. f[s] = IF s = {} THEN 0 ELSE w[OneOf(s)] + f[s \ {OneOf(s)}]
    BY <1>4 DEF Sums
  <2> QED BY <2>1, <2>2
<1>8. Sums(g, w, UpTo(S, m))
  <2>1. \A s \in UpTo(S, m) : s # {} => f[s \ {OneOf(s)}] = g[s \ {OneOf(s)}]
    BY <1>5, <1>7
  <2>2. g = [s \in UpTo(S, m) |-> IF s = {} THEN 0 ELSE w[OneOf(s)] + g[s \ {OneOf(s)}]]
    BY <2>1
  <2> QED BY <2>2 DEF Sums
<1> QED BY <1>1, <1>6, <1>8

\* The sums over every part of a finite set exist.
LEMMA SumsExist ==
    ASSUME NEW S, IsFiniteSet(S), NEW w \in [S -> Nat]
    PROVE  \E f \in [SUBSET S -> Nat] : Sums(f, w, SUBSET S)
<1>1. Cardinality(S) \in Nat
  BY FS_CardinalityType
<1>2. \A T \in SUBSET S : Cardinality(T) <= Cardinality(S)
  BY FS_Subset
<1>3. UpTo(S, Cardinality(S)) = SUBSET S
  BY <1>2 DEF UpTo
<1>4. \E f \in [UpTo(S, Cardinality(S)) -> Nat] : Sums(f, w, UpTo(S, Cardinality(S)))
  BY <1>1, SumsUpTo
<1> QED BY <1>3, <1>4

\* And there is one of each.
LEMMA SumsAgree ==
    ASSUME NEW S, IsFiniteSet(S), NEW w, NEW f, NEW g,
           Sums(f, w, SUBSET S), Sums(g, w, SUBSET S)
    PROVE  \A s \in SUBSET S : f[s] = g[s]
<1> DEFINE Bad == {k \in Nat : \E s \in SUBSET S : Cardinality(s) = k /\ f[s] # g[s]}
<1>1. \A s \in SUBSET S : Cardinality(s) \in Nat
  BY FS_Subset, FS_CardinalityType
<1> SUFFICES ASSUME Bad # {} PROVE FALSE
    BY <1>1
<1>2. PICK m \in Bad : \A y \in Bad : ~(y < m)
  <2> HIDE DEF Bad
  <2> QED BY Least DEF Bad
<1>3. PICK s \in SUBSET S : Cardinality(s) = m /\ f[s] # g[s]
  BY <1>2
<1>4. /\ f[s] = IF s = {} THEN 0 ELSE w[OneOf(s)] + f[s \ {OneOf(s)}]
      /\ g[s] = IF s = {} THEN 0 ELSE w[OneOf(s)] + g[s \ {OneOf(s)}]
  BY DEF Sums
<1>5. s # {}
  BY <1>3, <1>4
<1>6. /\ s \ {OneOf(s)} \in SUBSET S
      /\ Cardinality(s \ {OneOf(s)}) \in Nat /\ Cardinality(s \ {OneOf(s)}) < m
  BY <1>1, <1>3, <1>5, Shrinks
<1>7. f[s \ {OneOf(s)}] = g[s \ {OneOf(s)}]
  BY <1>2, <1>6
<1> QED BY <1>3, <1>4, <1>5, <1>7

\* f sums numbers over the parts of a finite set.
Summed(f, w, S) ==
    /\ IsFiniteSet(S) /\ \A x \in S : w[x] \in Nat
    /\ \A s \in SUBSET S : f[s] \in Nat
    /\ Sums(f, w, SUBSET S)

\* Any element can be taken out first.
LEMMA SumSplits ==
    ASSUME NEW S, NEW w, NEW f, Summed(f, w, S)
    PROVE  \A s \in SUBSET S : \A x \in s : f[s] = w[x] + f[s \ {x}]
<1>0. /\ IsFiniteSet(S) /\ \A x \in S : w[x] \in Nat
      /\ \A s \in SUBSET S : f[s] \in Nat /\ Sums(f, w, SUBSET S)
  BY DEF Summed
<1> DEFINE Wrong(s) == \E x \in s : f[s] # w[x] + f[s \ {x}]
           Bad == {k \in Nat : \E s \in SUBSET S : Cardinality(s) = k /\ Wrong(s)}
<1>1. \A s \in SUBSET S : Cardinality(s) \in Nat
  BY <1>0, FS_Subset, FS_CardinalityType
<1> SUFFICES ASSUME Bad # {} PROVE FALSE
    BY <1>1
<1>2. PICK m \in Bad : \A y \in Bad : ~(y < m)
  <2> HIDE DEF Bad
  <2> QED BY Least DEF Bad
<1>3. PICK s \in SUBSET S : Cardinality(s) = m /\ Wrong(s)
  BY <1>2
<1>4. PICK x \in s : f[s] # w[x] + f[s \ {x}]
  BY <1>3
<1>5. PICK y \in s : y = OneOf(s)
  BY <1>0, Shrinks
<1>6. f[s] = w[y] + f[s \ {y}]
  BY <1>0, <1>5 DEF Sums
<1>7. x # y
  BY <1>4, <1>6
<1>8. PICK sx \in SUBSET S : sx = s \ {x}
  OBVIOUS
<1>9. PICK sy \in SUBSET S : sy = s \ {y}
  OBVIOUS
<1>10. Cardinality(sx) \in Nat /\ Cardinality(sx) < m /\ Cardinality(sy) \in Nat /\ Cardinality(sy) < m
  BY <1>1, <1>3, <1>8, <1>9, <1>0, Shrinks
<1>11. ~Wrong(sx) /\ ~Wrong(sy)
  <2>1. Cardinality(sx) \notin Bad /\ Cardinality(sy) \notin Bad
    <3> HIDE DEF Bad
    <3> QED BY <1>2, <1>10
  <2> QED BY <2>1, <1>10
<1>12. PICK z \in SUBSET S : z = s \ {x, y}
  OBVIOUS
<1>13. sx \ {y} = z /\ sy \ {x} = z /\ y \in sx /\ x \in sy
  BY <1>7, <1>8, <1>9, <1>12
<1>14. f[sx] = w[y] + f[z] /\ f[sy] = w[x] + f[z]
  BY <1>11, <1>13
<1>15. f[s] = w[y] + f[sy] /\ f[s] # w[x] + f[sx]
  BY <1>4, <1>6, <1>8, <1>9
<1>16. w[x] \in Nat /\ w[y] \in Nat /\ f[z] \in Nat
  BY <1>0
<1> QED BY <1>14, <1>15, <1>16

-----------------------------------------------------------------------------
(* The bytes of a set of uploads in a table of intents.                    *)

BytesIn(table, S) == MapThenSumSet(LAMBDA i : Size[table[i].form.content], S)

Weights(table, S) == [i \in S |-> Size[table[i].form.content]]

\* The content of a row has a size.
LEMMA WeightsType ==
    ASSUME NEW table \in [UploadIds -> Intents], NEW S \in SUBSET UploadIds
    PROVE  Weights(table, S) \in [S -> Nat]
<1>1. \A i \in S : table[i].form.content \in Contents
  BY DEF Intents, Forms
<1> QED BY <1>1, ConstantsAssumption DEF Weights, ConstantsAssumption

\* The fold is the sum of the weights.
LEMMA FoldIsSum ==
    ASSUME NEW table \in [UploadIds -> Intents], NEW S \in SUBSET UploadIds, IsFiniteSet(S)
    PROVE  \E f \in [SUBSET S -> Nat] :
              Sums(f, Weights(table, S), SUBSET S) /\ BytesIn(table, S) = f[S]
<1>1. \A T \in SUBSET S : T # {} => OneOf(T) \in S
  BY Shrinks
<1> DEFINE P(f) == f = [T \in SUBSET S |-> IF T = {} THEN 0
                           ELSE Size[table[OneOf(T)].form.content] + f[T \ {OneOf(T)}]]
<1>2. \A f : Sums(f, Weights(table, S), SUBSET S) <=> P(f)
  BY <1>1 DEF Sums, Weights
<1>3. PICK f \in [SUBSET S -> Nat] : Sums(f, Weights(table, S), SUBSET S)
  BY WeightsType, SumsExist
<1>4. PICK g : g = CHOOSE h : P(h)
  OBVIOUS
<1>5. P(g)
  <2>1. P(f)
    BY <1>2, <1>3
  <2> HIDE DEF P
  <2> QED BY <2>1, <1>4
<1>6. BytesIn(table, S) = g[S]
  BY <1>4 DEF BytesIn, MapThenSumSet, MapThenFoldSet, OneOf
<1>7. \A T \in SUBSET S : f[T] = g[T]
  <2>1. Sums(g, Weights(table, S), SUBSET S)
    BY <1>2, <1>5
  <2> QED BY <2>1, <1>3, SumsAgree
<1> QED BY <1>3, <1>6, <1>7

\* A set of uploads holds a number of bytes, and one more upload adds its own.
LEMMA BytesAdd ==
    ASSUME NEW table \in [UploadIds -> Intents], NEW S \in SUBSET UploadIds, IsFiniteSet(S),
           NEW i \in UploadIds, i \notin S
    PROVE  /\ BytesIn(table, S) \in Nat
           /\ Size[table[i].form.content] \in Nat
           /\ BytesIn(table, S \cup {i}) = BytesIn(table, S) + Size[table[i].form.content]
<1>0. PICK T \in SUBSET UploadIds : T = S \cup {i}
  OBVIOUS
<1>1. S \in SUBSET T /\ i \in T /\ IsFiniteSet(T)
  BY <1>0, FS_AddElement
<1>2. PICK f \in [SUBSET T -> Nat] :
         Sums(f, Weights(table, T), SUBSET T) /\ BytesIn(table, T) = f[T]
  BY <1>1, FoldIsSum
<1>3. PICK g \in [SUBSET S -> Nat] :
         Sums(g, Weights(table, S), SUBSET S) /\ BytesIn(table, S) = g[S]
  BY FoldIsSum
<1>4. PICK h \in [SUBSET S -> Nat] : h = [s \in SUBSET S |-> f[s]]
  BY <1>1
<1>5. Sums(h, Weights(table, S), SUBSET S)
  <2>1. \A s \in SUBSET S : s # {} => OneOf(s) \in S /\ s \ {OneOf(s)} \in SUBSET S
    BY Shrinks
  <2>2. \A s \in SUBSET S : f[s] = IF s = {} THEN 0
                                   ELSE Weights(table, T)[OneOf(s)] + f[s \ {OneOf(s)}]
    BY <1>1, <1>2 DEF Sums
  <2>3. \A x \in S : Weights(table, T)[x] = Weights(table, S)[x]
    BY <1>1 DEF Weights
  <2>4. h = [s \in SUBSET S |-> IF s = {} THEN 0
                                ELSE Weights(table, S)[OneOf(s)] + h[s \ {OneOf(s)}]]
    BY <1>1, <1>4, <2>1, <2>2, <2>3
  <2> QED BY <2>4 DEF Sums
<1>6. h[S] = g[S]
  BY <1>3, <1>5, SumsAgree
<1>7. f[T] = Weights(table, T)[i] + f[T \ {i}]
  <2>1. PICK w \in [T -> Nat] : w = Weights(table, T)
    BY WeightsType
  <2>2. Summed(f, w, T)
    BY <1>1, <1>2, <2>1 DEF Summed
  <2>3. f[T] = w[i] + f[T \ {i}]
    BY <1>1, <2>2, SumSplits
  <2> QED BY <1>1, <2>1, <2>3
<1>8. T \ {i} = S
  BY <1>0
<1>9. Weights(table, T)[i] = Size[table[i].form.content]
  BY <1>1 DEF Weights
<1>10. Weights(table, T) \in [T -> Nat]
  BY WeightsType
<1>11. Size[table[i].form.content] \in Nat
  BY <1>1, <1>9, <1>10
<1>12. BytesIn(table, S) = f[S] /\ BytesIn(table, S) \in Nat
  BY <1>1, <1>3, <1>4, <1>6
<1>13. BytesIn(table, S \cup {i}) = f[T]
  BY <1>0, <1>2
<1>14. f[T] = Size[table[i].form.content] + f[S]
  BY <1>7, <1>8, <1>9
<1> QED BY ONLY <1>11, <1>12, <1>13, <1>14

\* No uploads hold no bytes.
LEMMA BytesNone ==
    ASSUME NEW table \in [UploadIds -> Intents]
    PROVE  BytesIn(table, {}) = 0
<1>1. IsFiniteSet({})
  BY FS_EmptySet
<1>2. PICK f \in [SUBSET {} -> Nat] :
         Sums(f, Weights(table, {}), SUBSET {}) /\ BytesIn(table, {}) = f[{}]
  BY <1>1, FoldIsSum
<1>3. f[{}] = 0
  BY <1>2 DEF Sums
<1> QED BY <1>2, <1>3

\* The bytes are those of the forms, whatever else of the rows changes.
LEMMA BytesFrame ==
    ASSUME NEW table \in [UploadIds -> Intents], NEW later \in [UploadIds -> Intents],
           NEW S \in SUBSET UploadIds, IsFiniteSet(S),
           \A i \in S : later[i].form = table[i].form
    PROVE  BytesIn(later, S) = BytesIn(table, S) /\ BytesIn(table, S) \in Nat
<1>1. PICK f \in [SUBSET S -> Nat] :
         Sums(f, Weights(table, S), SUBSET S) /\ BytesIn(table, S) = f[S]
  BY FoldIsSum
<1>2. PICK g \in [SUBSET S -> Nat] :
         Sums(g, Weights(later, S), SUBSET S) /\ BytesIn(later, S) = g[S]
  BY FoldIsSum
<1>3. Weights(table, S) = Weights(later, S)
  BY DEF Weights
<1>4. f[S] = g[S]
  BY <1>1, <1>2, <1>3, SumsAgree
<1> QED BY <1>1, <1>2, <1>4

\* Fewer uploads hold no more bytes.
LEMMA BytesFewer ==
    ASSUME NEW table \in [UploadIds -> Intents], NEW S \in SUBSET UploadIds, IsFiniteSet(S),
           NEW R \in SUBSET S
    PROVE  BytesIn(table, R) <= BytesIn(table, S)
<1> DEFINE Bad == {k \in Nat : \E T \in SUBSET S : /\ R \subseteq T
                                                   /\ Cardinality(T) = k
                                                   /\ ~(BytesIn(table, R) <= BytesIn(table, T))}
<1>1. \A T \in SUBSET S : IsFiniteSet(T) /\ Cardinality(T) \in Nat /\ BytesIn(table, T) \in Nat
  BY FS_Subset, FS_CardinalityType, BytesFrame
<1> SUFFICES ASSUME Bad # {} PROVE FALSE
    BY <1>1
<1>2. PICK m \in Bad : \A y \in Bad : ~(y < m)
  <2> HIDE DEF Bad
  <2> QED BY Least DEF Bad
<1>3. PICK T \in SUBSET S : /\ R \subseteq T /\ Cardinality(T) = m
                            /\ ~(BytesIn(table, R) <= BytesIn(table, T))
  BY <1>2
<1>4. PICK x \in T : x \notin R
  <2>1. T # R
    BY <1>1, <1>3
  <2> QED BY <1>3, <2>1
<1>5. PICK U \in SUBSET S : U = T \ {x}
  OBVIOUS
<1>6. R \subseteq U /\ T = U \cup {x} /\ x \notin U
  BY <1>3, <1>4, <1>5
<1>7. Cardinality(U) \in Nat /\ Cardinality(U) < m
  BY <1>1, <1>3, <1>5, Shrinks
<1>8. Cardinality(U) \notin Bad
  <2> HIDE DEF Bad
  <2> QED BY <1>2, <1>7
<1>9. BytesIn(table, R) <= BytesIn(table, U)
  BY <1>6, <1>7, <1>8
<1>10. /\ BytesIn(table, U) \in Nat /\ Size[table[x].form.content] \in Nat
       /\ BytesIn(table, T) = BytesIn(table, U) + Size[table[x].form.content]
  BY <1>1, <1>6, BytesAdd
<1>11. BytesIn(table, R) \in Nat
  BY <1>1
<1> QED BY <1>3, <1>9, <1>10, <1>11

-----------------------------------------------------------------------------
(* The quotas.                                                             *)

\* Ids that were drawn, and documents that count.
Used == {i \in UploadIds : intent[i].state # "unused"}
Kept == {d \in UploadIds : docs[d] # "absent"}

QuotaInv == IsFiniteSet(Used) /\ QuotasHold

\* Only ids that were drawn reserve, commit or make documents.
LEMMA UsedCounts ==
    ASSUME IInv, DocsInv
    PROVE  /\ Pending \subseteq Used /\ Committed \subseteq Used /\ Kept \subseteq Used
           /\ Used \subseteq UploadIds
           /\ Pending \cap Committed = {}
           /\ intent \in [UploadIds -> Intents]
<1>1. \A i \in UploadIds : version[i] # None => intent[i].state = "committed"
  BY DEF IInv, RowsOK
<1> QED BY <1>1 DEF Pending, Committed, Kept, Used, DocsInv, DocsOK, DocOK, IInv, TypeOK

\* The bytes of the versions and the reservations, now and after a step.
LEMMA BytesAre ==
    /\ Bytes(Committed) = BytesIn(intent, Committed)
    /\ Bytes(Pending) = BytesIn(intent, Pending)
    /\ Bytes(Committed)' = BytesIn(intent', Committed')
    /\ Bytes(Pending)' = BytesIn(intent', Pending')
BY DEF Bytes, BytesIn, MapThenSumSet, MapThenFoldSet

\* The quotas are bounds on the sizes of finite sets.
LEMMA QuotasAre ==
    QuotasHold <=> /\ Cardinality(Pending) <= MaxPending
                   /\ BytesIn(intent, Committed) + BytesIn(intent, Pending) <= MaxBytes
                   /\ Cardinality(Kept) <= MaxDocuments
                   /\ \A d \in UploadIds : Cardinality(VersionsOf(d)) <= MaxVersions
                   /\ Cardinality(Committed) <= MaxMatterVersions
BY BytesAre DEF QuotasHold, Kept

LEMMA QuotasLater ==
    QuotasHold' <=> /\ Cardinality(Pending') <= MaxPending
                    /\ BytesIn(intent', Committed') + BytesIn(intent', Pending') <= MaxBytes
                    /\ Cardinality(Kept') <= MaxDocuments
                    /\ \A d \in UploadIds : Cardinality(VersionsOf(d)') <= MaxVersions
                    /\ Cardinality(Committed') <= MaxMatterVersions
BY BytesAre DEF QuotasHold, Kept

\* Steps that reserve and commit nothing.
Releases ==
    /\ \A i \in Used : intent'[i].form = intent[i].form
    /\ Pending' \subseteq Pending /\ Kept' \subseteq Kept /\ Used' = Used
    /\ version' = version

LEMMA ReleasesKeep ==
    ASSUME IInv, IInv', DocsInv, DocsInv', QuotaInv, Releases
    PROVE  QuotaInv'
<1>1. PICK U \in SUBSET UploadIds : U = Used /\ IsFiniteSet(U)
  BY UsedCounts DEF QuotaInv
<1>2. PICK P \in SUBSET U : P = Pending
  BY <1>1, UsedCounts
<1>3. PICK Q \in SUBSET P : Q = Pending'
  BY <1>2 DEF Releases
<1>4. PICK C \in SUBSET U : C = Committed /\ C = Committed'
  BY <1>1, UsedCounts DEF Committed, Releases
<1>5. PICK K \in SUBSET U : K = Kept
  BY <1>1, UsedCounts
<1>6. IsFiniteSet(P) /\ IsFiniteSet(Q) /\ IsFiniteSet(C) /\ IsFiniteSet(K)
  BY <1>1, FS_Subset
<1>7. /\ BytesIn(intent', C) = BytesIn(intent, C) /\ BytesIn(intent, C) \in Nat
      /\ BytesIn(intent', Q) = BytesIn(intent, Q) /\ BytesIn(intent, Q) \in Nat
  <2>1. intent \in [UploadIds -> Intents] /\ intent' \in [UploadIds -> Intents]
    BY DEF IInv, TypeOK
  <2>2. \A i \in U : intent'[i].form = intent[i].form
    BY <1>1 DEF Releases
  <2> QED BY <1>1, <1>6, <2>1, <2>2, BytesFrame
<1>8. BytesIn(intent, Q) <= BytesIn(intent, P) /\ BytesIn(intent, P) \in Nat
  <2>1. intent \in [UploadIds -> Intents]
    BY DEF IInv, TypeOK
  <2> QED BY <1>1, <1>6, <2>1, BytesFewer, BytesFrame
<1>9. Cardinality(Q) <= Cardinality(P) /\ Cardinality(Q) \in Nat /\ Cardinality(P) \in Nat
  BY <1>6, FS_Subset, FS_CardinalityType
<1>10. Cardinality(Kept') <= Cardinality(K) /\ Cardinality(Kept') \in Nat /\ Cardinality(K) \in Nat
  BY <1>5, <1>6, FS_Subset, FS_CardinalityType DEF Releases
<1>11. \A d \in UploadIds : VersionsOf(d)' = VersionsOf(d)
  BY DEF VersionsOf, Committed, Releases
<1>12. /\ Cardinality(P) <= MaxPending
       /\ BytesIn(intent, C) + BytesIn(intent, P) <= MaxBytes
       /\ Cardinality(K) <= MaxDocuments
       /\ \A d \in UploadIds : Cardinality(VersionsOf(d)) <= MaxVersions
       /\ Cardinality(C) <= MaxMatterVersions
  BY <1>2, <1>4, <1>5, QuotasAre DEF QuotaInv
<1>13. MaxPending \in Nat /\ MaxBytes \in Nat /\ MaxDocuments \in Nat
  BY ConstantsAssumption DEF ConstantsAssumption
<1>14. /\ Cardinality(Pending') <= MaxPending
       /\ BytesIn(intent', Committed') + BytesIn(intent', Pending') <= MaxBytes
       /\ Cardinality(Kept') <= MaxDocuments
       /\ \A d \in UploadIds : Cardinality(VersionsOf(d)') <= MaxVersions
       /\ Cardinality(Committed') <= MaxMatterVersions
  <2>1. Cardinality(Pending') <= MaxPending
    BY <1>3, <1>9, <1>12, <1>13
  <2>2. BytesIn(intent, C) + BytesIn(intent, Q) <= MaxBytes
    BY <1>7, <1>8, <1>12, <1>13
  <2>3. BytesIn(intent', Committed') + BytesIn(intent', Pending') <= MaxBytes
    BY <1>3, <1>4, <1>7, <2>2
  <2>4. Cardinality(Kept') <= MaxDocuments
    BY <1>10, <1>12, <1>13
  <2>5. Cardinality(Committed') <= MaxMatterVersions
    BY <1>4, <1>12
  <2> QED BY <1>11, <1>12, <2>1, <2>3, <2>4, <2>5
<1>15. QuotasHold'
  BY <1>14, QuotasLater
<1> QED BY <1>1, <1>15 DEF QuotaInv, Releases

\* A reservation: one fresh id, within the quotas that its batch checks.
Reserves(i, f) ==
    /\ i \in UploadIds /\ intent[i].state = "unused" /\ f \in Forms /\ StageGuard(f)
    /\ intent' = [intent EXCEPT ![i] = [state |-> "pending", form |-> f, left |-> TTL]]
    /\ docs' = IF f.target = NewDocument THEN [docs EXCEPT ![i] = "provisional"] ELSE docs
    /\ version' = version

\* The batch counts what is there, so the one more it adds fits.
LEMMA ReservesKeep ==
    ASSUME IInv, IInv', DocsInv, QuotaInv, NEW i, NEW f, Reserves(i, f)
    PROVE  QuotaInv'
<1>0. i \in UploadIds /\ f \in Forms
  BY DEF Reserves
<1>1. PICK U \in SUBSET UploadIds : U = Used /\ IsFiniteSet(U)
  BY UsedCounts DEF QuotaInv
<1>2. PICK P \in SUBSET U : P = Pending
  BY <1>1, UsedCounts
<1>3. PICK C \in SUBSET U : C = Committed /\ C = Committed'
  BY <1>1, UsedCounts DEF Committed, Reserves
<1>4. PICK K \in SUBSET U : K = Kept
  BY <1>1, UsedCounts
<1>5. IsFiniteSet(P) /\ IsFiniteSet(C) /\ IsFiniteSet(K)
  BY <1>1, FS_Subset
<1>6. i \notin U /\ i \notin P /\ i \notin C /\ i \notin K
  BY <1>1, <1>2, <1>3, <1>4 DEF Used, Reserves
<1>7. /\ intent'[i].state = "pending" /\ intent'[i].form = f
      /\ \A j \in UploadIds : j # i => intent'[j] = intent[j]
  BY <1>0 DEF Reserves, IInv, TypeOK
<1>8. Used' = U \cup {i} /\ Pending' = P \cup {i}
  BY <1>0, <1>1, <1>2, <1>7 DEF Used, Pending
<1>9. Kept' \subseteq K \cup {i} /\ (f.target # NewDocument => Kept' = K)
  <2>1. \A j \in UploadIds : j # i => docs'[j] = docs[j]
    BY DEF Reserves, IInv, TypeOK
  <2> QED BY <1>4, <2>1 DEF Kept, Reserves
<1>10. /\ IsFiniteSet(Used')
       /\ Cardinality(Pending') = Cardinality(P) + 1 /\ Cardinality(P) \in Nat
  BY <1>1, <1>5, <1>6, <1>8, FS_AddElement, FS_CardinalityType
<1>11. /\ Cardinality(K \cup {i}) = Cardinality(K) + 1 /\ Cardinality(K) \in Nat
       /\ Cardinality(Kept') <= Cardinality(K \cup {i}) /\ Cardinality(Kept') \in Nat
  <2>1. IsFiniteSet(K \cup {i}) /\ Cardinality(K \cup {i}) = Cardinality(K) + 1
    BY <1>5, <1>6, FS_AddElement
  <2> QED BY <1>5, <1>9, <2>1, FS_Subset, FS_CardinalityType
<1>12. /\ MaxPending \in Nat /\ MaxBytes \in Nat /\ MaxDocuments \in Nat
       /\ Size[f.content] \in Nat
  BY <1>0, ConstantsAssumption DEF ConstantsAssumption, Forms
<1>13. P \ C = P
  BY <1>2, <1>3, UsedCounts
<1>14. /\ Cardinality(P) < MaxPending
       /\ BytesIn(intent, C) + BytesIn(intent, P) + Size[f.content] <= MaxBytes
       /\ f.target = NewDocument => Cardinality(K) < MaxDocuments
  <2>1. Bytes(Committed) + Bytes(Pending \ Committed) + Size[f.content] <= MaxBytes
    BY DEF Reserves, StageGuard
  <2>2. Pending \ Committed = Pending
    BY <1>2, <1>3, <1>13
  <2>3. Bytes(Committed) + Bytes(Pending) + Size[f.content] <= MaxBytes
    BY <2>1, <2>2
  <2>4. BytesIn(intent, C) + BytesIn(intent, P) + Size[f.content] <= MaxBytes
    BY <1>2, <1>3, <2>3, BytesAre
  <2> QED BY <1>2, <1>4, <2>4 DEF Reserves, StageGuard, Kept
<1>15. intent \in [UploadIds -> Intents] /\ intent' \in [UploadIds -> Intents]
  BY DEF IInv, TypeOK
<1>16. /\ BytesIn(intent', C) = BytesIn(intent, C) /\ BytesIn(intent, C) \in Nat
       /\ BytesIn(intent', P) = BytesIn(intent, P) /\ BytesIn(intent, P) \in Nat
  <2>1. /\ \A j \in C : intent'[j].form = intent[j].form
        /\ \A j \in P : intent'[j].form = intent[j].form
    BY <1>6, <1>7
  <2> QED BY <1>5, <1>15, <2>1, BytesFrame
<1>17. BytesIn(intent', P \cup {i}) = BytesIn(intent', P) + Size[f.content]
  BY <1>0, <1>5, <1>6, <1>7, <1>15, BytesAdd
<1>18. \A d \in UploadIds : VersionsOf(d)' = VersionsOf(d)
  BY DEF VersionsOf, Committed, Reserves
<1>19. Cardinality(Pending') <= MaxPending
  BY <1>10, <1>12, <1>14
<1>20. BytesIn(intent', Committed') + BytesIn(intent', Pending') <= MaxBytes
  BY <1>3, <1>8, <1>12, <1>14, <1>16, <1>17
<1>21. Cardinality(Kept') <= MaxDocuments
  <2>1. CASE f.target = NewDocument
    BY <1>11, <1>12, <1>14, <2>1
  <2>2. CASE f.target # NewDocument
    BY <1>4, <1>9, <2>2, QuotasAre DEF QuotaInv
  <2> QED BY <2>1, <2>2
<1>22. \A d \in UploadIds : Cardinality(VersionsOf(d)') <= MaxVersions
  BY <1>18, QuotasAre DEF QuotaInv
<1>23. Cardinality(Committed') <= MaxMatterVersions
  BY <1>3, QuotasAre DEF QuotaInv
<1>24. QuotasHold'
  BY <1>19, <1>20, <1>21, <1>22, <1>23, QuotasLater
<1> QED BY <1>10, <1>24 DEF QuotaInv

\* A commit: the reservation's bytes become the version's.
Commits(i, d) ==
    /\ i \in UploadIds /\ d = DocOf(i)
    /\ intent[i].state = "pending" /\ version[i] = None /\ docs[d] # "absent"
    /\ Cardinality(VersionsOf(d)) < MaxVersions /\ Cardinality(Committed) < MaxMatterVersions
    /\ SetState(i, "committed") /\ docs' = [docs EXCEPT ![d] = "final"]
    /\ version'[i] # None /\ version'[i].doc = d
    /\ \A j \in UploadIds : j # i => version'[j] = version[j]

LEMMA CommitsKeep ==
    ASSUME IInv, IInv', DocsInv, QuotaInv, NEW i, NEW d, Commits(i, d)
    PROVE  QuotaInv'
<1>0. i \in UploadIds /\ d \in UploadIds
  BY DocOfType DEF Commits, IInv
<1>1. PICK U \in SUBSET UploadIds : U = Used /\ IsFiniteSet(U)
  BY UsedCounts DEF QuotaInv
<1>2. PICK P \in SUBSET U : P = Pending
  BY <1>1, UsedCounts
<1>3. PICK C \in SUBSET U : C = Committed
  BY <1>1, UsedCounts
<1>4. /\ intent'[i].state = "committed"
      /\ \A j \in UploadIds : intent'[j].form = intent[j].form
      /\ \A j \in UploadIds : j # i => intent'[j] = intent[j]
  BY <1>0, SetStateOnly DEF Commits, IInv
<1>5. PICK Q \in SUBSET P : Q = P \ {i}
  OBVIOUS
<1>6. i \in U /\ i \in P /\ i \notin C /\ i \notin Q
  BY <1>0, <1>1, <1>2, <1>3, <1>5 DEF Used, Pending, Committed, Commits
<1>7. Used' = U /\ Pending' = Q /\ Committed' = C \cup {i} /\ P = Q \cup {i}
  <2>1. Used' = U
    BY <1>0, <1>1, <1>4, <1>6 DEF Used
  <2>2. Pending' = Q
    BY <1>0, <1>2, <1>4, <1>5 DEF Pending
  <2>3. Committed' = C \cup {i}
    BY <1>0, <1>3 DEF Committed, Commits
  <2> QED BY <1>5, <1>6, <2>1, <2>2, <2>3
<1>8. Kept' = Kept
  <2>1. \A j \in UploadIds : docs'[j] # "absent" <=> docs[j] # "absent"
    BY <1>0 DEF Commits, IInv, TypeOK
  <2> QED BY <2>1 DEF Kept
<1>9. IsFiniteSet(P) /\ IsFiniteSet(Q) /\ IsFiniteSet(C)
  BY <1>1, FS_Subset
<1>10. /\ Cardinality(Committed') = Cardinality(C) + 1 /\ Cardinality(C) \in Nat
       /\ Cardinality(Q) <= Cardinality(P) /\ Cardinality(Q) \in Nat /\ Cardinality(P) \in Nat
  BY <1>6, <1>7, <1>9, FS_AddElement, FS_Subset, FS_CardinalityType
<1>11. intent \in [UploadIds -> Intents] /\ intent' \in [UploadIds -> Intents]
  BY DEF IInv, TypeOK
<1>12. /\ BytesIn(intent', C) = BytesIn(intent, C) /\ BytesIn(intent, C) \in Nat
       /\ BytesIn(intent', Q) = BytesIn(intent, Q) /\ BytesIn(intent, Q) \in Nat
  BY <1>4, <1>9, <1>11, BytesFrame
<1>13. PICK n \in Nat : n = Size[intent[i].form.content] /\ n = Size[intent'[i].form.content]
  <2>1. intent[i].form.content \in Contents /\ intent'[i].form = intent[i].form
    BY <1>0, <1>4, <1>11 DEF Intents, Forms
  <2> QED BY <2>1, ConstantsAssumption DEF ConstantsAssumption
<1>14. BytesIn(intent, P) = BytesIn(intent, Q) + n
  <2>1. BytesIn(intent, Q \cup {i}) = BytesIn(intent, Q) + Size[intent[i].form.content]
    BY <1>0, <1>6, <1>9, <1>11, BytesAdd
  <2> QED BY <1>7, <1>13, <2>1
<1>15. BytesIn(intent', C \cup {i}) = BytesIn(intent', C) + n
  BY <1>0, <1>6, <1>9, <1>11, <1>13, BytesAdd
<1>16. \A e \in UploadIds : Cardinality(VersionsOf(e)') <= MaxVersions
  <2> TAKE e \in UploadIds
  <2>1. VersionsOf(e)' = IF e = d THEN VersionsOf(e) \cup {i} ELSE VersionsOf(e)
    BY <1>0, <1>3, <1>6, <1>7 DEF VersionsOf, Committed, Commits
  <2>2. IsFiniteSet(VersionsOf(e)) /\ i \notin VersionsOf(e)
    BY <1>3, <1>6, <1>9, FS_Subset DEF VersionsOf
  <2>3. /\ Cardinality(VersionsOf(e) \cup {i}) = Cardinality(VersionsOf(e)) + 1
        /\ Cardinality(VersionsOf(e)) \in Nat
    BY <2>2, FS_AddElement, FS_CardinalityType
  <2>4. MaxVersions \in Nat /\ Cardinality(VersionsOf(e)) <= MaxVersions
    BY ConstantsAssumption, QuotasAre DEF ConstantsAssumption, QuotaInv
  <2>5. e = d => Cardinality(VersionsOf(e)) < MaxVersions
    BY DEF Commits
  <2> QED BY <2>1, <2>3, <2>4, <2>5
<1>17. /\ MaxPending \in Nat /\ MaxBytes \in Nat /\ MaxMatterVersions \in Nat
       /\ Cardinality(P) <= MaxPending
       /\ BytesIn(intent, C) + BytesIn(intent, P) <= MaxBytes
       /\ Cardinality(C) < MaxMatterVersions
  BY <1>2, <1>3, ConstantsAssumption, QuotasAre DEF ConstantsAssumption, QuotaInv, Commits
<1>18. Cardinality(Pending') <= MaxPending
  BY <1>7, <1>10, <1>17
<1>19. BytesIn(intent', Committed') + BytesIn(intent', Pending') <= MaxBytes
  BY <1>7, <1>12, <1>14, <1>15, <1>17
<1>20. Cardinality(Kept') <= MaxDocuments
  BY <1>8, QuotasAre DEF QuotaInv
<1>21. Cardinality(Committed') <= MaxMatterVersions
  BY <1>10, <1>17
<1>22. QuotasHold'
  BY <1>16, <1>18, <1>19, <1>20, <1>21, QuotasLater
<1> QED BY <1>1, <1>7, <1>22 DEF QuotaInv

\* Steps that change neither versions nor the states of rows, but for the better.
LEMMA ReleasesAre ==
    ASSUME IInv, UNCHANGED version,
           \A j \in UploadIds :
              /\ intent'[j].form = intent[j].form
              /\ intent'[j].state = "unused" <=> intent[j].state = "unused"
              /\ intent'[j].state = "pending" => intent[j].state = "pending"
              /\ docs[j] = "absent" => docs'[j] = "absent"
    PROVE  Releases
BY DEF Releases, Used, Pending, Kept

\* A row taken to a later state of its cleanup.
LEMMA ClaimReleases ==
    ASSUME IInv, UNCHANGED version, NEW i \in UploadIds, intent[i].state # "unused",
           NEW s \in {"deleting", "deleted", "removed"}, SetState(i, s),
           \A j \in UploadIds : docs[j] = "absent" => docs'[j] = "absent"
    PROVE  Releases
<1>1. /\ \A j \in UploadIds : intent'[j].form = intent[j].form
      /\ intent'[i].state = s
      /\ \A j \in UploadIds : j # i => intent'[j] = intent[j]
  BY SetStateOnly DEF IInv
<1> QED BY <1>1, ReleasesAre

\* What a step does to the quotas.
LEMMA QuotaEffect ==
    ASSUME IInv, IInv', DocsInv, [Next]_vars
    PROVE  Releases \/ (\E i, f : Reserves(i, f)) \/ (\E i, d : Commits(i, d))
<1>1. ASSUME UNCHANGED <<intent, docs, version>> PROVE Releases
  BY <1>1, ReleasesAre
<1>2. CASE OtherMutation \/ UNCHANGED vars
  BY <1>1, <1>2 DEF OtherMutation, vars
<1>3. CASE Tick
  <2>1. \A j \in UploadIds : intent'[j].form = intent[j].form /\ intent'[j].state = intent[j].state
    BY <1>3 DEF Tick, IInv, TypeOK, Intents
  <2> QED BY <1>3, <2>1, ReleasesAre DEF Tick, ledger
<1>4. ASSUME NEW r \in Requests, Stage(r)
      PROVE  Releases \/ \E i, f : Reserves(i, f)
  <2>1. CASE UNCHANGED <<intent, docs>>
    BY <1>1, <1>4, <2>1 DEF Stage
  <2>2. CASE ~UNCHANGED <<intent, docs>>
    <3>1. PICK i \in UploadIds :
             /\ intent[i].state = "unused" /\ StageGuard(req[r].form)
             /\ intent' = [intent EXCEPT ![i] =
                              [state |-> "pending", form |-> req[r].form, left |-> TTL]]
             /\ docs' = IF req[r].form.target = NewDocument
                        THEN [docs EXCEPT ![i] = "provisional"] ELSE docs
      BY <1>4, <2>2 DEF Stage
    <3>2. req[r].form \in Forms /\ version' = version
      BY <1>4 DEF Stage, IInv, TypeOK, Locals
    <3> QED BY <3>1, <3>2 DEF Reserves
  <2> QED BY <2>1, <2>2
<1>5. ASSUME NEW r \in Requests, NEW lost \in BOOLEAN, CommitBatch(r, lost)
      PROVE  Releases \/ \E i, d : Commits(i, d)
  <2>1. CASE UNCHANGED <<ledger, intent>>
    BY <1>1, <2>1 DEF ledger
  <2>2. CASE ~UNCHANGED <<ledger, intent>>
    <3>1. PICK i : i = req[r].held
      OBVIOUS
    <3>2. /\ CommitGuard(i, req[r].current) /\ CommitRows(i, req[r].current)
          /\ i \in UploadIds
      BY <1>5, <2>2, <3>1 DEF CommitBatch, Step, IInv, StepsJustified, RequestOK
    <3>3. PICK d \in UploadIds : d = DocOf(i)
      BY <3>2, DocOfType DEF IInv
    <3>4. /\ version' = [version EXCEPT ![i] =
                [doc |-> d, ordinal |-> NextOrdinal(req[r].current),
                 predecessor |-> req[r].current, revision |-> intent[i].form.expected + 1]]
          /\ docs' = [docs EXCEPT ![d] = "final"] /\ SetState(i, "committed")
      BY <3>2, <3>3 DEF CommitRows
    <3>5. version'[i].doc = d /\ \A j \in UploadIds : j # i => version'[j] = version[j]
      BY <3>2, <3>4 DEF IInv, TypeOK
    <3>6. version'[i] # None
      <4>1. intent'[i].state = "committed"
        BY <3>2, <3>4, SetStateOnly DEF IInv
      <4> QED BY <3>2, <4>1 DEF IInv, RowsOK
    <3>7. Commits(i, d)
      BY <3>2, <3>3, <3>4, <3>5, <3>6 DEF CommitGuard, Commits
    <3> QED BY <3>7
  <2> QED BY <2>1, <2>2
<1>6. ASSUME NEW r \in Requests, NEW lost \in BOOLEAN,
             \/ Abort(r, lost) \/ Claim(r, lost) \/ Finish(r, lost) \/ DeleteIntent(r, lost)
      PROVE  Releases
  <2>1. UNCHANGED <<docs, version>>
    BY <1>6 DEF Abort, Claim, Finish, DeleteIntent, ledger
  <2>2. CASE UNCHANGED intent
    BY <1>1, <2>1, <2>2
  <2>3. CASE ~UNCHANGED intent
    <3>1. \E i \in UploadIds, s \in {"deleting", "deleted", "removed"} :
             SetState(i, s) /\ intent[i].state # "unused"
      <4>1. req[r].pc = "abort" => req[r].held \in UploadIds
        BY DEF IInv, StepsJustified, RequestOK
      <4>2. req[r].pc \in {"claim", "finish", "forget"} => req[r].target \in UploadIds
        BY DEF IInv, StepsJustified, RequestOK, CleanupPcs
      <4> QED BY <1>6, <2>3, <4>1, <4>2 DEF Abort, Claim, Finish, DeleteIntent, Step
    <3> QED BY <2>1, <3>1, ClaimReleases
  <2> QED BY <2>2, <2>3
<1>7. ASSUME NEW r \in Requests, NEW lost \in BOOLEAN, DeleteDocument(r, lost)
      PROVE  Releases
  <2>1. UNCHANGED version
    BY <1>7 DEF DeleteDocument
  <2>2. CASE UNCHANGED <<docs, intent>>
    BY <1>1, <2>1, <2>2
  <2>3. CASE ~UNCHANGED <<docs, intent>>
    <3>1. PICK i : i = req[r].target
      OBVIOUS
    <3>2. /\ docs' = [docs EXCEPT ![DocOf(i)] = "absent"] /\ SetState(i, "removed")
          /\ intent[i].state \in {"deleted", "removed"} /\ req[r].pc = "finalize"
      BY <1>7, <2>3, <3>1 DEF DeleteDocument, Step
    <3>3. i \in UploadIds
      BY <3>1, <3>2 DEF IInv, StepsJustified, RequestOK, CleanupPcs
    <3>4. \A j \in UploadIds : docs[j] = "absent" => docs'[j] = "absent"
      BY <3>2 DEF IInv, TypeOK
    <3> QED BY <2>1, <3>2, <3>3, <3>4, ClaimReleases
  <2> QED BY <2>2, <2>3
<1>8. ASSUME NEW r \in Requests, NEW lost \in BOOLEAN,
             \/ Arrive(r) \/ SelectSweep(r) \/ SweepNext(r) \/ Lookup(r) \/ Relookup(r)
             \/ CheckCommitted(r) \/ Put(r, lost) \/ HeadObject(r) \/ PrepareCommit(r) \/ Recheck(r)
             \/ AnswerFailed(r) \/ ReadLive(r) \/ ReadClaimed(r) \/ DeleteObject(r, lost)
             \/ CallFails(r) \/ Crash(r)
      PROVE  UNCHANGED <<intent, docs, version>>
  BY <1>8 DEF Arrive, SelectSweep, SweepNext, Lookup, Relookup, CheckCommitted, Put, HeadObject,
              PrepareCommit, Recheck, AnswerFailed, ReadLive, ReadClaimed, DeleteObject,
              CallFails, Crash, ledger
<1>9. ASSUME NEW r \in Requests, Arrive(r) \/ Progress(r) \/ Fault(r)
      PROVE  Releases \/ (\E i, f : Reserves(i, f)) \/ (\E i, d : Commits(i, d))
  BY <1>1, <1>4, <1>5, <1>6, <1>7, <1>8, <1>9 DEF Progress, Fault
<1> QED BY <1>2, <1>3, <1>9 DEF Next

\* The quotas admit the Matter's first document.
BaseFits ==
    /\ Size[NoForm.content] <= MaxBytes
    /\ MaxDocuments > 0 /\ MaxVersions > 0 /\ MaxMatterVersions > 0

LEMMA InitQuotas ==
    ASSUME BaseFits, Init PROVE QuotaInv
<1> USE ConstantsAssumption DEF ConstantsAssumption
<1>1. IInv /\ DocsInv
  BY InitIInv, InitDocs
<1>2. Used = {Base} /\ Pending = {} /\ Committed = {Base} /\ Kept = {Base}
  <2>1. \A i \in UploadIds : version[i] # None <=> i = Base
    BY <1>1 DEF IInv, RowsOK, Init
  <2> QED BY <2>1 DEF Init, Used, Pending, Committed, Kept
<1>3. \A d \in UploadIds : VersionsOf(d) \in SUBSET {Base}
  BY <1>2 DEF VersionsOf
<1>4. /\ IsFiniteSet({Base}) /\ Cardinality({Base}) = 1
      /\ IsFiniteSet({}) /\ Cardinality({}) = 0
  BY FS_Singleton, FS_EmptySet
<1>5. \A S \in SUBSET {Base} : Cardinality(S) <= 1 /\ Cardinality(S) \in Nat
  BY <1>4, FS_Subset, FS_CardinalityType
<1>6. intent \in [UploadIds -> Intents] /\ intent[Base].form = NoForm
  BY <1>1 DEF IInv, TypeOK, Init
<1>7. /\ BytesIn(intent, {}) = 0
      /\ BytesIn(intent, {} \cup {Base}) = BytesIn(intent, {}) + Size[intent[Base].form.content]
      /\ Size[intent[Base].form.content] \in Nat
  <2>1. PICK E \in SUBSET UploadIds : E = {}
    OBVIOUS
  <2>2. IsFiniteSet(E) /\ Base \in UploadIds /\ Base \notin E
    BY <1>4, <2>1
  <2>3. /\ BytesIn(intent, E \cup {Base}) = BytesIn(intent, E) + Size[intent[Base].form.content]
        /\ Size[intent[Base].form.content] \in Nat
    BY <1>6, <2>2, BytesAdd
  <2> QED BY <1>6, <2>1, <2>3, BytesNone
<1>8. {} \cup {Base} = {Base}
  OBVIOUS
<1>9. BytesIn(intent, {Base}) + BytesIn(intent, {}) <= MaxBytes
  BY <1>6, <1>7, <1>8 DEF BaseFits
<1>10. \A d \in UploadIds : Cardinality(VersionsOf(d)) <= MaxVersions
  BY <1>3, <1>5 DEF BaseFits
<1> QED BY <1>2, <1>4, <1>9, <1>10, QuotasAre DEF QuotaInv, BaseFits

LEMMA NextQuotas ==
    IInv /\ IInv' /\ DocsInv /\ DocsInv' /\ QuotaInv /\ [Next]_vars => QuotaInv'
BY QuotaEffect, ReleasesKeep, ReservesKeep, CommitsKeep

\* However many requests passed the policy check on counts they read earlier, the Matter's
\* reservations, bytes, documents and versions never exceed its quotas: the batches count again.
THEOREM QuotasKept ==
    ASSUME BaseFits PROVE Spec => []QuotasHold
<1>1. QuotaInv => QuotasHold
  BY DEF QuotaInv
<1>2. Init => QuotaInv
  BY InitQuotas
<1>3. Spec => []DocsInv
  BY InitDocs, NextDocs, Invariance, PTL DEF Spec
<1>4. Spec => []QuotaInv
  BY <1>2, <1>3, NextQuotas, Invariance, PTL DEF Spec
<1> QED BY <1>1, <1>4, PTL
=============================================================================
