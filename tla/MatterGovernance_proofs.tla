----------------------- MODULE MatterGovernance_proofs -----------------------
(***************************************************************************)
(* The governance of a Matter for every number of requests, participants,  *)
(* snapshots, outputs and revisions.  Tables says what the rows and the    *)
(* audit chain have in common; Holds what a request may rely on between    *)
(* its reads and its batch, and Undone what is still as it was read when   *)
(* no other batch was applied.                                             *)
(***************************************************************************)
EXTENDS MatterGovernance, FiniteSetTheorems, TLAPS

\* The chain has one entry for each move of the revision, and each is the first of its revision.
ChainOrdered ==
    /\ receipts = Start .. revision
    /\ \A i \in DOMAIN chain : chain[i].rev \in Start .. revision
    /\ \A i, j \in DOMAIN chain : i < j =>
          /\ chain[i].rev <= chain[j].rev
          /\ chain[j].type \in Moves => chain[i].rev < chain[j].rev
    /\ \A r \in Start .. revision : \E i \in DOMAIN chain :
          chain[i].type \in Moves /\ chain[i].rev = r

\* A sealed snapshot has its entry, whose boundary covers every move before it.
SealsTold ==
    /\ \A s \in Snapshots : snapshot[s] # None =>
          \E j \in DOMAIN chain : /\ chain[j].type = "sealed" /\ chain[j].ref = s
                                  /\ chain[j].rev = snapshot[s].rev
    /\ \A i \in DOMAIN chain : chain[i].type = "sealed" =>
          /\ chain[i].ref \in Snapshots /\ snapshot[chain[i].ref] # None
          /\ \A j \in 1 .. i : chain[j].type \in Moves =>
                /\ j <= snapshot[chain[i].ref].through
                /\ chain[j].rev <= snapshot[chain[i].ref].rev

\* An output reports a sealed snapshot.
OutputsSealed ==
    \A o \in Outputs : output[o] # None => snapshot[output[o].snapshot] # None

\* An approval has its entry, after that of the snapshot's seal.
ApprovalsTold ==
    \A o \in Outputs, a \in Actors : <<o, a>> \in approvals =>
        /\ output[o] # None
        /\ \E j, k \in DOMAIN chain :
              /\ j < k
              /\ chain[j].type = "sealed" /\ chain[j].ref = output[o].snapshot
              /\ chain[j].rev = snapshot[output[o].snapshot].rev
              /\ chain[k].type = "approved" /\ chain[k].ref = o /\ chain[k].by = a

\* The entry of an approving transition names an output, and while the Matter has not moved since
\* its status tells so.
ApprovalsStand ==
    \A i \in DOMAIN chain : chain[i].type = "transition" /\ chain[i].ref # None =>
        /\ chain[i].ref \in Outputs /\ output[chain[i].ref] # None
        /\ chain[i].rev = revision => status = "output_approved"

\* The b-th entry made the output; later than that at most one marked it stale.
History(o, b) ==
    /\ \A i \in DOMAIN chain : chain[i].type = "generated" /\ chain[i].ref = o <=> i = b
    /\ output[o].state = "current" => \A i \in DOMAIN chain : o \notin chain[i].stale
    /\ output[o].state = "stale" => \E m \in DOMAIN chain :
          b < m /\ \A i \in DOMAIN chain : o \in chain[i].stale <=> i = m
Told(o) ==
    /\ output[o] = None => \A i \in DOMAIN chain :
          o \notin chain[i].stale /\ ~(chain[i].type = "generated" /\ chain[i].ref = o)
    /\ output[o] # None => \E b \in DOMAIN chain : History(o, b)
OutputsTold == \A o \in Outputs : Told(o)

Tables ==
    /\ ChainOrdered /\ SealsTold /\ OutputsSealed /\ ApprovalsTold /\ ApprovalsStand
    /\ OutputsFresh /\ ApprovedAsReviewed /\ OutputsTold

\* What a request holds.
Holds(q) ==
    /\ q.pc \in {"put", "cleanup"} => q.op \in {"snapshot", "output"}
    /\ q.pc = "manifest" => q.op = "output"
    /\ q.pc = "approvals" => q.op = "transition"
    /\ q.pc # "idle" =>
          /\ q.rev <= revision
          /\ q.op \in {"write", "transition"} => q.rev < MaxRevision
          /\ q.op = "snapshot" =>
                q.id \in Snapshots /\ (q.pc # "cleanup" => snapshot[q.id] = None)
          /\ q.op = "output" =>
                /\ q.id \in Outputs /\ (q.pc # "cleanup" => output[q.id] = None)
                /\ q.about \in Snapshots /\ snapshot[q.about] # None
                /\ snapshot[q.about].rev = q.rev /\ q.format \in Formats
          /\ q.op = "approve" =>
                q.about \in Outputs /\ output[q.about] # None /\ q.actor \in Actors
          /\ q.op = "transition" => q.actor \in Actors
    /\ q.op = "snapshot" /\ q.pc \in {"head", "put", "commit"} =>
          /\ q.through \in 0 .. Len(chain)
          /\ \A j \in DOMAIN chain :
                j > q.through /\ chain[j].type \in Moves => chain[j].rev > q.rev
    /\ q.op = "transition" /\ q.pc \in {"head", "commit"} /\ q.to = "output_approved" =>
          q.status = "internal_review"

\* What it holds is still so while nobody else's batch was applied.
Undone(q) ==
    q.alone /\ q.pc \notin {"idle", "cleanup"} =>
        /\ q.rev = revision /\ q.status = status
        /\ q.pc \in {"put", "commit"} => q.head = Len(chain)
        /\ q.op = "write" /\ q.pc \in {"head", "commit"} => q.current = Current
        /\ q.op = "output" /\ q.pc \in {"manifest", "head", "put", "commit"} =>
              q.current \subseteq Current
        /\ q.op = "approve" /\ q.pc \in {"head", "commit"} =>
              q.about \in Current /\ <<q.about, q.actor>> \notin approvals

\* No two requests drew one id.
IdsApart == \A c, d \in Clients : c # d /\ req[c].id # None => req[c].id # req[d].id

HeldOK == \A c \in Clients : Holds(req[c]) /\ Undone(req[c])

GovInv == TypeOK /\ Tables /\ HeldOK /\ IdsApart

-----------------------------------------------------------------------------
(* What an applied batch does.                                             *)

\* The entry e is appended; a move takes the next revision; rows of snapshots and outputs stay,
\* and the outputs that were current and that e marks are stale.
Grows(e) ==
    /\ e \in Events /\ chain' = Append(chain, e) /\ e.rev = revision' /\ revision' \in Revisions
    /\ \/ /\ e.type \in Moves /\ revision' = revision + 1
          /\ receipts' = receipts \cup {revision'}
       \/ /\ e.type \notin Moves /\ revision' = revision
          /\ receipts' = receipts /\ status' = status
    /\ \A s \in Snapshots : snapshot[s] # None => snapshot'[s] = snapshot[s]
    /\ e.stale \subseteq Current
    /\ \A o \in Outputs : output[o] # None =>
          /\ output'[o] # None /\ output'[o].snapshot = output[o].snapshot
          /\ output'[o].state = IF o \in e.stale THEN "stale" ELSE output[o].state

\* The snapshot s is sealed through the first n entries.
Seals(e, s, n) ==
    /\ e.type = "sealed" /\ e.ref = s /\ e.stale = {} /\ s \in Snapshots
    /\ snapshot[s] = None /\ snapshot'[s] # None
    /\ snapshot'[s].rev = revision /\ snapshot'[s].through = n
    /\ \A t \in Snapshots : t # s => snapshot'[t] = snapshot[t]
    /\ \A j \in DOMAIN chain : j > n => chain[j].type \notin Moves
    /\ UNCHANGED <<output, approvals>>

\* The output o is generated, and current.
Generates(e, o) ==
    /\ e.type = "generated" /\ e.ref = o /\ o \in Outputs
    /\ output[o] = None /\ output'[o] # None /\ output'[o].state = "current"
    /\ output'[o].snapshot \in Snapshots
    /\ snapshot[output'[o].snapshot] # None /\ snapshot[output'[o].snapshot].rev = revision
    /\ \A p \in Outputs : p # o /\ output[p] = None => output'[p] = None
    /\ UNCHANGED <<snapshot, approvals>>

\* The reviewer a approves the output o.
Approves(e, o, a) ==
    /\ e.type = "approved" /\ e.ref = o /\ e.by = a /\ e.stale = {}
    /\ o \in Current /\ a \in Actors
    /\ approvals' = approvals \cup {<<o, a>>}
    /\ UNCHANGED <<snapshot, output>>

\* The Matter moves, and no output stays current.
MovesOn(e) ==
    /\ e.type \in Moves /\ e.ref = None /\ e.stale = Current
    /\ \A p \in Outputs : output[p] = None => output'[p] = None
    /\ UNCHANGED <<snapshot, approvals>>

\* The Matter moves to its approval of the output o by a.
ApprovesMatter(e, o, a) ==
    /\ e.type = "transition" /\ e.ref = o /\ e.by = a /\ e.stale = {}
    /\ o \in Current /\ a \in Actors /\ <<o, a>> \in approvals
    /\ \A p \in Current : output[p].snapshot = output[o].snapshot
    /\ status = "internal_review" /\ status' = "output_approved"
    /\ UNCHANGED <<snapshot, output, approvals>>

Effect(e) ==
    /\ Grows(e)
    /\ \/ \E s \in Snapshots, n \in Nat : Seals(e, s, n)
       \/ \E o \in Outputs : Generates(e, o)
       \/ \E o \in Outputs, a \in Actors : Approves(e, o, a)
       \/ MovesOn(e)
       \/ \E o \in Outputs, a \in Actors : ApprovesMatter(e, o, a)

\* One entry more.
LEMMA Longer ==
    ASSUME TypeOK, NEW e \in Events, chain' = Append(chain, e)
    PROVE  /\ chain' \in Seq(Events) /\ Len(chain') = Len(chain) + 1
           /\ Len(chain) \in Nat /\ DOMAIN chain = 1 .. Len(chain)
           /\ DOMAIN chain' = 1 .. Len(chain) + 1
           /\ \A i \in 1 .. Len(chain) : chain'[i] = chain[i]
           /\ chain'[Len(chain) + 1] = e
BY DEF TypeOK

-----------------------------------------------------------------------------
(* The tables and the chain stay in agreement.                             *)

\* Moves take one revision after another.
LEMMA OrderKept ==
    ASSUME TypeOK, ChainOrdered, NEW e, Grows(e)
    PROVE  ChainOrdered'
<1>1. e \in Events /\ chain' = Append(chain, e) /\ revision \in Int /\ Start \in Int
  BY GovernanceAssumption DEF Grows, TypeOK, Revisions, GovernanceAssumption
<1> DEFINE n == Len(chain)
<1>2. /\ n \in Nat /\ DOMAIN chain = 1 .. n /\ DOMAIN chain' = 1 .. n + 1
      /\ \A i \in 1 .. n : chain'[i] = chain[i]
      /\ chain'[n + 1] = e
  BY <1>1, Longer
<1> HIDE DEF n
<1>3. receipts' = Start .. revision'
  <2>1. receipts = Start .. revision /\ revision >= Start
    BY <1>1 DEF ChainOrdered, TypeOK, Revisions
  <2>2. CASE revision' = revision /\ receipts' = receipts
    BY <2>1, <2>2
  <2>3. CASE revision' = revision + 1 /\ receipts' = receipts \cup {revision'}
    <3>1. receipts' = (Start .. revision) \cup {revision + 1}
      BY <2>1, <2>3
    <3>2. (Start .. revision) \cup {revision + 1} = Start .. (revision + 1)
      BY <1>1, <2>1
    <3> QED BY <2>3, <3>1, <3>2
  <2> QED BY <2>2, <2>3 DEF Grows
<1>4. \A i \in 1 .. n + 1 : chain'[i].rev \in Start .. revision'
  BY <1>1, <1>2 DEF Grows, ChainOrdered, TypeOK, Revisions
<1>5. \A i, j \in 1 .. n + 1 : i < j =>
          /\ chain'[i].rev <= chain'[j].rev
          /\ chain'[j].type \in Moves => chain'[i].rev < chain'[j].rev
  <2> SUFFICES ASSUME NEW i \in 1 .. n + 1, NEW j \in 1 .. n + 1, i < j
               PROVE  /\ chain'[i].rev <= chain'[j].rev
                      /\ chain'[j].type \in Moves => chain'[i].rev < chain'[j].rev
    OBVIOUS
  <2>1. i \in 1 .. n /\ chain'[i] = chain[i]
    BY <1>2
  <2>2. CASE j \in 1 .. n
    BY <1>2, <2>1, <2>2 DEF ChainOrdered
  <2>3. CASE j = n + 1
    <3>1. chain[i].rev \in Start .. revision /\ chain'[j] = e
      BY <1>2, <2>1, <2>3 DEF ChainOrdered
    <3> QED BY <1>1, <2>1, <3>1 DEF Grows
  <2> QED BY <1>2, <2>2, <2>3
<1>6. \A r \in Start .. revision' : \E i \in 1 .. n + 1 :
          chain'[i].type \in Moves /\ chain'[i].rev = r
  <2> SUFFICES ASSUME NEW r \in Start .. revision'
               PROVE  \E i \in 1 .. n + 1 : chain'[i].type \in Moves /\ chain'[i].rev = r
    OBVIOUS
  <2>1. CASE r \in Start .. revision
    <3>1. PICK i \in 1 .. n : chain[i].type \in Moves /\ chain[i].rev = r
      BY <1>2, <2>1 DEF ChainOrdered
    <3> QED BY <1>2, <3>1
  <2>2. CASE r \notin Start .. revision
    <3>1. r = revision' /\ e.type \in Moves
      BY <1>1, <2>2 DEF Grows
    <3> QED BY <1>2, <3>1 DEF Grows
  <2> QED BY <2>1, <2>2
<1> QED BY <1>2, <1>3, <1>4, <1>5, <1>6 DEF ChainOrdered

\* Every entry but the last is as it was, and is not newer than the revision.
LEMMA EntriesKept ==
    ASSUME TypeOK, ChainOrdered, NEW e, Grows(e)
    PROVE  \E n \in Nat : /\ DOMAIN chain = 1 .. n /\ DOMAIN chain' = 1 .. n + 1
                          /\ \A i \in 1 .. n : chain'[i] = chain[i]
                          /\ chain'[n + 1] = e
                          /\ \A i \in 1 .. n : chain[i].rev <= revision
                          /\ revision \in Int /\ revision' \in {revision, revision + 1}
                          /\ e.rev = revision' /\ e \in Events
                          /\ \A i \in 1 .. n : chain[i] \in Events
<1>1. e \in Events /\ chain' = Append(chain, e) /\ revision \in Int /\ Start \in Int
  BY GovernanceAssumption DEF Grows, TypeOK, Revisions, GovernanceAssumption
<1>2. /\ Len(chain) \in Nat /\ DOMAIN chain = 1 .. Len(chain) /\ DOMAIN chain' = 1 .. Len(chain) + 1
      /\ \A i \in 1 .. Len(chain) : chain'[i] = chain[i]
      /\ chain'[Len(chain) + 1] = e
  BY <1>1, Longer
<1>3. \A i \in 1 .. Len(chain) : chain[i].rev <= revision
  BY <1>1, <1>2 DEF ChainOrdered
<1>4. revision' \in {revision, revision + 1} /\ e.rev = revision'
  BY DEF Grows
<1>5. \A i \in 1 .. Len(chain) : chain[i] \in Events
  BY DEF TypeOK
<1> QED BY <1>1, <1>2, <1>3, <1>4, <1>5

\* A seal covers every move before it.
LEMMA SealsKept ==
    ASSUME TypeOK, Tables, NEW e, Effect(e)
    PROVE  SealsTold'
<1>1. Grows(e) /\ ChainOrdered /\ SealsTold
  BY DEF Effect, Tables
<1>2. PICK n \in Nat : /\ DOMAIN chain = 1 .. n /\ DOMAIN chain' = 1 .. n + 1
                       /\ \A i \in 1 .. n : chain'[i] = chain[i]
                       /\ chain'[n + 1] = e
                       /\ \A i \in 1 .. n : chain[i].rev <= revision
                       /\ revision \in Int /\ revision' \in {revision, revision + 1}
                       /\ e.rev = revision' /\ e \in Events
                       /\ \A i \in 1 .. n : chain[i] \in Events
  BY <1>1, EntriesKept
<1>3. ASSUME NEW s \in Snapshots, snapshot'[s] # None
      PROVE  \E j \in 1 .. n + 1 : /\ chain'[j].type = "sealed" /\ chain'[j].ref = s
                                   /\ chain'[j].rev = snapshot'[s].rev
  <2>1. CASE snapshot[s] # None
    <3>1. PICK j \in 1 .. n : /\ chain[j].type = "sealed" /\ chain[j].ref = s
                              /\ chain[j].rev = snapshot[s].rev
      BY <1>1, <1>2, <2>1 DEF SealsTold
    <3> QED BY <1>1, <1>2, <2>1, <3>1 DEF Grows
  <2>2. CASE snapshot[s] = None
    <3>1. PICK m \in Nat : Seals(e, s, m)
      BY <1>3, <2>2 DEF Effect, Seals, Generates, Approves, MovesOn, ApprovesMatter
    <3>2. e.rev = revision
      BY <1>1, <3>1 DEF Grows, Seals, Moves
    <3> QED BY <1>2, <3>1, <3>2 DEF Seals
  <2> QED BY <2>1, <2>2
<1>4. ASSUME NEW i \in 1 .. n + 1, chain'[i].type = "sealed"
      PROVE  /\ chain'[i].ref \in Snapshots /\ snapshot'[chain'[i].ref] # None
             /\ \A j \in 1 .. i : chain'[j].type \in Moves =>
                   /\ j <= snapshot'[chain'[i].ref].through
                   /\ chain'[j].rev <= snapshot'[chain'[i].ref].rev
  <2>1. CASE i \in 1 .. n
    <3>1. /\ chain[i].ref \in Snapshots /\ snapshot[chain[i].ref] # None
          /\ \A j \in 1 .. i : chain[j].type \in Moves =>
                /\ j <= snapshot[chain[i].ref].through
                /\ chain[j].rev <= snapshot[chain[i].ref].rev
      BY <1>1, <1>2, <1>4, <2>1 DEF SealsTold
    <3>2. snapshot'[chain[i].ref] = snapshot[chain[i].ref] /\ 1 .. i \subseteq 1 .. n
      BY <1>1, <2>1, <3>1 DEF Grows
    <3> QED BY <1>2, <2>1, <3>1, <3>2
  <2>2. CASE i = n + 1
    <3>1. e.type = "sealed"
      BY <1>2, <1>4, <2>2
    <3>2. PICK s \in Snapshots, m \in Nat : Seals(e, s, m)
      BY <3>1 DEF Effect, Generates, Approves, MovesOn, ApprovesMatter, Moves
    <3>3. \A j \in 1 .. n : chain[j].type \in Moves => j <= m
      BY <1>2, <3>2 DEF Seals
    <3> QED BY <1>2, <2>2, <3>1, <3>2, <3>3 DEF Seals, Moves
  <2> QED BY <1>2, <2>1, <2>2
<1> QED BY <1>2, <1>3, <1>4 DEF SealsTold

\* Outputs and approvals keep what they rest on.
LEMMA RowsKept ==
    ASSUME TypeOK, Tables, NEW e, Effect(e)
    PROVE  OutputsSealed' /\ ApprovalsTold'
<1>1. Grows(e) /\ ChainOrdered /\ OutputsSealed /\ ApprovalsTold /\ SealsTold
  BY DEF Effect, Tables
<1>2. PICK n \in Nat : /\ DOMAIN chain = 1 .. n /\ DOMAIN chain' = 1 .. n + 1
                       /\ \A i \in 1 .. n : chain'[i] = chain[i]
                       /\ chain'[n + 1] = e
                       /\ \A i \in 1 .. n : chain[i].rev <= revision
                       /\ revision \in Int /\ revision' \in {revision, revision + 1}
                       /\ e.rev = revision' /\ e \in Events
                       /\ \A i \in 1 .. n : chain[i] \in Events
  BY <1>1, EntriesKept
<1>3. \A o \in Outputs : output[o] # None => output[o].snapshot \in Snapshots
  BY DEF TypeOK, Generated
<1>4. ASSUME NEW o \in Outputs, output'[o] # None PROVE snapshot'[output'[o].snapshot] # None
  <2>1. CASE output[o] # None
    BY <1>1, <1>3, <2>1 DEF Grows, OutputsSealed
  <2>2. CASE output[o] = None
    <3>1. Generates(e, o)
      BY <1>4, <2>2 DEF Effect, Seals, Generates, Approves, MovesOn, ApprovesMatter
    <3> QED BY <3>1 DEF Generates
  <2> QED BY <2>1, <2>2
<1>5. ASSUME NEW o \in Outputs, NEW a \in Actors, <<o, a>> \in approvals'
      PROVE  /\ output'[o] # None
             /\ \E j, k \in 1 .. n + 1 :
                   /\ j < k
                   /\ chain'[j].type = "sealed" /\ chain'[j].ref = output'[o].snapshot
                   /\ chain'[j].rev = snapshot'[output'[o].snapshot].rev
                   /\ chain'[k].type = "approved" /\ chain'[k].ref = o /\ chain'[k].by = a
  <2>1. CASE <<o, a>> \in approvals
    <3>1. PICK j \in 1 .. n, k \in 1 .. n :
                   /\ j < k
                   /\ chain[j].type = "sealed" /\ chain[j].ref = output[o].snapshot
                   /\ chain[j].rev = snapshot[output[o].snapshot].rev
                   /\ chain[k].type = "approved" /\ chain[k].ref = o /\ chain[k].by = a
      BY <1>1, <1>2, <2>1 DEF ApprovalsTold
    <3>2. output[o] # None
      BY <1>1, <2>1 DEF ApprovalsTold
    <3>3. /\ output'[o] # None /\ output'[o].snapshot = output[o].snapshot
          /\ snapshot'[output[o].snapshot] = snapshot[output[o].snapshot]
      BY <1>1, <1>3, <3>2 DEF Grows, OutputsSealed
    <3>4. chain'[j] = chain[j] /\ chain'[k] = chain[k] /\ j \in 1 .. n + 1 /\ k \in 1 .. n + 1
      BY <1>2
    <3> QED BY <3>1, <3>3, <3>4
  <2>2. CASE <<o, a>> \notin approvals
    <3>1. approvals' # approvals
      BY <1>5, <2>2
    <3>2. PICK p \in Outputs, b \in Actors : Approves(e, p, b)
      BY <3>1 DEF Effect, Seals, Generates, MovesOn, ApprovesMatter
    <3>3. <<o, a>> = <<p, b>>
      BY <1>5, <2>2, <3>2 DEF Approves
    <3>4. Approves(e, o, a)
      BY <3>2, <3>3
    <3>5. output[o] # None /\ UNCHANGED <<snapshot, output>>
      BY <3>4 DEF Approves, Current
    <3>6. PICK j \in 1 .. n : /\ chain[j].type = "sealed" /\ chain[j].ref = output[o].snapshot
                              /\ chain[j].rev = snapshot[output[o].snapshot].rev
      BY <1>1, <1>2, <1>3, <3>5 DEF SealsTold, OutputsSealed
    <3>7. chain'[j] = chain[j] /\ j \in 1 .. n + 1 /\ n + 1 \in 1 .. n + 1 /\ j < n + 1
      BY <1>2
    <3> QED BY <1>2, <3>4, <3>5, <3>6, <3>7 DEF Approves
  <2> QED BY <2>1, <2>2
<1> QED BY <1>2, <1>4, <1>5 DEF OutputsSealed, ApprovalsTold

\* An approving transition is the Matter's status until it moves again.
LEMMA StandKept ==
    ASSUME TypeOK, Tables, NEW e, Effect(e)
    PROVE  ApprovalsStand'
<1>1. Grows(e) /\ ChainOrdered /\ ApprovalsStand
  BY DEF Effect, Tables
<1>2. PICK n \in Nat : /\ DOMAIN chain = 1 .. n /\ DOMAIN chain' = 1 .. n + 1
                       /\ \A i \in 1 .. n : chain'[i] = chain[i]
                       /\ chain'[n + 1] = e
                       /\ \A i \in 1 .. n : chain[i].rev <= revision
                       /\ revision \in Int /\ revision' \in {revision, revision + 1}
                       /\ e.rev = revision' /\ e \in Events
                       /\ \A i \in 1 .. n : chain[i] \in Events
  BY <1>1, EntriesKept
<1> SUFFICES ASSUME NEW i \in 1 .. n + 1, chain'[i].type = "transition", chain'[i].ref # None
             PROVE  /\ chain'[i].ref \in Outputs /\ output'[chain'[i].ref] # None
                    /\ chain'[i].rev = revision' => status' = "output_approved"
  BY <1>2 DEF ApprovalsStand
<1>3. CASE i \in 1 .. n
  <2>1. /\ chain'[i] = chain[i] /\ chain[i].rev <= revision
        /\ chain[i].ref \in Outputs /\ output[chain[i].ref] # None
        /\ chain[i].rev = revision => status = "output_approved"
    BY <1>1, <1>2, <1>3 DEF ApprovalsStand
  <2>2. output'[chain[i].ref] # None
    BY <1>1, <2>1 DEF Grows
  <2>3. ASSUME chain[i].rev = revision' PROVE status' = "output_approved"
    <3>1. chain[i].rev \in Int
      BY <1>1, <1>2, <1>3 DEF ChainOrdered
    <3>2. revision' = revision
      BY <1>2, <2>1, <2>3, <3>1
    <3>3. status' = status
      BY <1>1, <1>2, <3>2 DEF Grows
    <3> QED BY <2>1, <2>3, <3>2, <3>3
  <2> QED BY <2>1, <2>2, <2>3
<1>4. CASE i = n + 1
  <2>1. e.type = "transition" /\ e.ref # None /\ chain'[i] = e
    BY <1>2, <1>4
  <2>2. PICK o \in Outputs, a \in Actors : ApprovesMatter(e, o, a)
    BY <2>1 DEF Effect, Seals, Generates, Approves, MovesOn
  <2> QED BY <2>1, <2>2 DEF ApprovesMatter, Current
<1> QED BY <1>3, <1>4

\* Only a Matter that was approved has a current output of an older revision.
LEMMA UnapprovedFresh ==
    ASSUME TypeOK, Tables, status # "output_approved", NEW o \in Current
    PROVE  snapshot[output[o].snapshot].rev = revision
<1> SUFFICES ASSUME NEW p \in ApprovedOutput PROVE FALSE
  BY DEF Tables, OutputsFresh
<1>1. PICK i \in DOMAIN chain : /\ chain[i].type = "transition" /\ chain[i].rev = revision
                                /\ p = chain[i].ref /\ p # None
  BY DEF ApprovedOutput
<1> QED BY <1>1 DEF Tables, ApprovalsStand

\* Current outputs report the revision, or what was approved of the one before.
LEMMA FreshKept ==
    ASSUME TypeOK, Tables, NEW e, Effect(e)
    PROVE  OutputsFresh'
<1>1. Grows(e) /\ ChainOrdered /\ OutputsFresh /\ OutputsSealed
  BY DEF Effect, Tables
<1>2. PICK n \in Nat : /\ DOMAIN chain = 1 .. n /\ DOMAIN chain' = 1 .. n + 1
                       /\ \A i \in 1 .. n : chain'[i] = chain[i]
                       /\ chain'[n + 1] = e
                       /\ \A i \in 1 .. n : chain[i].rev <= revision
                       /\ revision \in Int /\ revision' \in {revision, revision + 1}
                       /\ e.rev = revision' /\ e \in Events
                       /\ \A i \in 1 .. n : chain[i] \in Events
  BY <1>1, EntriesKept
<1>3. \A o \in Outputs : output[o] # None => output[o].snapshot \in Snapshots
  BY DEF TypeOK, Generated
<1>4. ASSUME NEW o \in Current', output[o] # None
      PROVE  /\ o \in Outputs /\ o \in Current /\ output'[o].snapshot = output[o].snapshot
             /\ snapshot'[output[o].snapshot] = snapshot[output[o].snapshot] /\ o \notin e.stale
  <2>1. o \in Outputs /\ output'[o] # None /\ output'[o].state = "current"
    BY <1>4 DEF Current
  <2>2. /\ output'[o].snapshot = output[o].snapshot
        /\ output'[o].state = IF o \in e.stale THEN "stale" ELSE output[o].state
    BY <1>1, <1>4, <2>1 DEF Grows
  <2>3. snapshot'[output[o].snapshot] = snapshot[output[o].snapshot]
    BY <1>1, <1>3, <1>4, <2>1 DEF Grows, OutputsSealed
  <2> QED BY <1>4, <2>1, <2>2, <2>3 DEF Current
<1> SUFFICES ASSUME NEW o \in Current'
             PROVE  \/ snapshot'[output'[o].snapshot].rev = revision'
                    \/ /\ snapshot'[output'[o].snapshot].rev = revision' - 1
                       /\ \E p \in ApprovedOutput' : output'[p].snapshot = output'[o].snapshot
  BY DEF OutputsFresh
<1>5. CASE output[o] = None
  <2>1. o \in Outputs /\ output'[o] # None
    BY DEF Current
  <2>2. PICK p \in Outputs : Generates(e, p)
    BY <1>5, <2>1 DEF Effect, Seals, Generates, Approves, MovesOn, ApprovesMatter
  <2>3. Generates(e, o)
    BY <1>5, <2>1, <2>2 DEF Generates
  <2>4. revision' = revision
    BY <1>1, <2>3 DEF Grows, Generates, Moves
  <2> QED BY <2>3, <2>4 DEF Generates
<1>6. CASE output[o] # None /\ revision' = revision
  <2>1. /\ o \in Outputs /\ o \in Current /\ output'[o].snapshot = output[o].snapshot
        /\ snapshot'[output[o].snapshot] = snapshot[output[o].snapshot]
    BY <1>4, <1>6
  <2>2. ASSUME NEW p \in ApprovedOutput PROVE p \in ApprovedOutput' /\ output'[p].snapshot = output[p].snapshot
    <3>1. PICK i \in 1 .. n : /\ chain[i].type = "transition" /\ chain[i].rev = revision
                              /\ p = chain[i].ref /\ p # None
      BY <1>2, <2>2 DEF ApprovedOutput
    <3>2. i \in DOMAIN chain' /\ chain'[i] = chain[i]
      BY <1>2
    <3>3. p \in ApprovedOutput'
      BY <1>6, <3>1, <3>2 DEF ApprovedOutput
    <3>4. p \in Outputs /\ output[p] # None
      BY <1>2, <3>1 DEF Tables, ApprovalsStand
    <3> QED BY <1>1, <3>3, <3>4 DEF Grows
  <2> QED BY <1>1, <1>6, <2>1, <2>2 DEF OutputsFresh
<1>7. CASE output[o] # None /\ revision' # revision
  <2>1. /\ o \in Outputs /\ o \in Current /\ output'[o].snapshot = output[o].snapshot
        /\ snapshot'[output[o].snapshot] = snapshot[output[o].snapshot] /\ o \notin e.stale
    BY <1>4, <1>7
  <2>2. e.type \in Moves /\ revision' = revision + 1
    BY <1>1, <1>7 DEF Grows
  <2>3. PICK p \in Outputs, a \in Actors : ApprovesMatter(e, p, a)
    BY <2>1, <2>2 DEF Effect, Seals, Generates, Approves, MovesOn, Moves
  <2>4. snapshot[output[o].snapshot].rev = revision
    BY <2>1, <2>3, UnapprovedFresh DEF ApprovesMatter
  <2>5. n + 1 \in DOMAIN chain' /\ chain'[n + 1].ref = p /\ chain'[n + 1].rev = revision'
        /\ chain'[n + 1].type = "transition" /\ p # None
    BY <1>2, <2>3, GovernanceAssumption DEF ApprovesMatter, GovernanceAssumption
  <2>6. p \in ApprovedOutput'
    BY <2>5 DEF ApprovedOutput
  <2>7. output'[p].snapshot = output'[o].snapshot
    BY <2>1, <2>3 DEF ApprovesMatter
  <2> QED BY <1>2, <2>1, <2>2, <2>4, <2>6, <2>7
<1> QED BY <1>2, <1>5, <1>6, <1>7

\* Nothing moved the Matter between the seal, the approval and the approving transition.
LEMMA ReviewedKept ==
    ASSUME TypeOK, Tables, NEW e, Effect(e)
    PROVE  ApprovedAsReviewed'
<1>1. Grows(e) /\ ChainOrdered /\ ApprovedAsReviewed /\ ApprovalsStand /\ ApprovalsTold
  BY DEF Effect, Tables
<1>2. PICK n \in Nat : /\ DOMAIN chain = 1 .. n /\ DOMAIN chain' = 1 .. n + 1
                       /\ \A i \in 1 .. n : chain'[i] = chain[i]
                       /\ chain'[n + 1] = e
                       /\ \A i \in 1 .. n : chain[i].rev <= revision
                       /\ revision \in Int /\ revision' \in {revision, revision + 1}
                       /\ e.rev = revision' /\ e \in Events
                       /\ \A i \in 1 .. n : chain[i] \in Events
  BY <1>1, EntriesKept
<1> SUFFICES ASSUME NEW i \in 1 .. n + 1, chain'[i].type = "transition", chain'[i].ref # None
             PROVE  \E j, k \in 1 .. i - 1 :
                /\ j < k
                /\ chain'[j].type = "sealed" /\ chain'[j].ref = output'[chain'[i].ref].snapshot
                /\ chain'[k].type = "approved" /\ chain'[k].ref = chain'[i].ref
                /\ chain'[k].by = chain'[i].by
                /\ \A m \in j .. i - 1 : chain'[m].type \notin Moves
  BY <1>2 DEF ApprovedAsReviewed, Moves
<1>3. CASE i \in 1 .. n
  <2>1. /\ chain'[i] = chain[i] /\ chain[i].ref \in Outputs /\ output[chain[i].ref] # None
        /\ i \in DOMAIN chain
    BY <1>1, <1>2, <1>3 DEF ApprovalsStand
  <2>2. output'[chain[i].ref].snapshot = output[chain[i].ref].snapshot
    BY <1>1, <2>1 DEF Grows
  <2>3. PICK j \in 1 .. i - 1, k \in 1 .. i - 1 :
                /\ j < k
                /\ chain[j].type = "sealed" /\ chain[j].ref = output[chain[i].ref].snapshot
                /\ chain[k].type = "approved" /\ chain[k].ref = chain[i].ref
                /\ chain[k].by = chain[i].by
                /\ \A m \in j .. i - 1 : chain[m].type \notin Moves
    BY <1>1, <2>1 DEF ApprovedAsReviewed
  <2>4. chain'[j] = chain[j] /\ chain'[k] = chain[k]
    BY <1>2, <1>3
  <2>5. \A m \in j .. i - 1 : chain'[m] = chain[m]
    BY <1>2, <1>3
  <2> QED BY <2>1, <2>2, <2>3, <2>4, <2>5
<1>4. CASE i = n + 1
  <2>1. e.type = "transition" /\ e.ref # None /\ chain'[i] = e
    BY <1>2, <1>4
  <2>2. PICK o \in Outputs, a \in Actors : ApprovesMatter(e, o, a)
    BY <2>1 DEF Effect, Seals, Generates, Approves, MovesOn
  <2>3. /\ e.ref = o /\ e.by = a /\ o \in Current /\ <<o, a>> \in approvals
        /\ status = "internal_review" /\ output' = output
    BY <2>2 DEF ApprovesMatter
  <2>4. snapshot[output[o].snapshot].rev = revision
    BY <2>3, UnapprovedFresh
  <2>5. PICK j \in 1 .. n, k \in 1 .. n :
              /\ j < k
              /\ chain[j].type = "sealed" /\ chain[j].ref = output[o].snapshot
              /\ chain[j].rev = snapshot[output[o].snapshot].rev
              /\ chain[k].type = "approved" /\ chain[k].ref = o /\ chain[k].by = a
    BY <1>1, <1>2, <2>3 DEF ApprovalsTold
  <2>6. ASSUME NEW m \in j .. n PROVE chain'[m].type \notin Moves
    <3>1. m \in 1 .. n /\ chain'[m] = chain[m] /\ chain[m].rev <= revision
      BY <1>2
    <3>2. CASE m = j
      BY <2>5, <3>1, <3>2 DEF Moves
    <3>3. CASE j < m
      <4>1. chain[m].type \in Moves => chain[j].rev < chain[m].rev
        BY <1>1, <1>2, <3>1, <3>3 DEF ChainOrdered
      <4>2. chain[m].rev \in Int
        BY <1>1, <1>2, <3>1 DEF ChainOrdered
      <4> QED BY <1>2, <2>4, <2>5, <3>1, <4>1, <4>2
    <3> QED BY <3>2, <3>3
  <2>7. chain'[j] = chain[j] /\ chain'[k] = chain[k] /\ i - 1 = n
    BY <1>2, <1>4
  <2> QED BY <2>1, <2>3, <2>5, <2>6, <2>7
<1> QED BY <1>3, <1>4

\* The chain tells one output's history.
LEMMA OneToldKept ==
    ASSUME TypeOK, Tables, NEW e, Effect(e), NEW o \in Outputs, Told(o)
    PROVE  Told(o)'
<1>1. Grows(e) /\ ChainOrdered
  BY DEF Effect, Tables
<1>2. PICK n \in Nat : /\ DOMAIN chain = 1 .. n /\ DOMAIN chain' = 1 .. n + 1
                       /\ \A i \in 1 .. n : chain'[i] = chain[i]
                       /\ chain'[n + 1] = e
                       /\ \A i \in 1 .. n : chain[i].rev <= revision
                       /\ revision \in Int /\ revision' \in {revision, revision + 1}
                       /\ e.rev = revision' /\ e \in Events
                       /\ \A i \in 1 .. n : chain[i] \in Events
  BY <1>1, EntriesKept
<1>3. o \in e.stale => output[o] # None /\ output[o].state = "current"
  BY <1>1 DEF Grows, Current
<1>4. e.type = "generated" /\ e.ref = o => output[o] = None /\ output'[o] # None
  BY DEF Effect, Seals, Generates, Approves, MovesOn, ApprovesMatter, Moves
<1>5. CASE output[o] = None /\ output'[o] = None
  <2>1. \A i \in 1 .. n : o \notin chain[i].stale /\ ~(chain[i].type = "generated" /\ chain[i].ref = o)
    BY <1>2, <1>5 DEF Told
  <2>2. \A i \in 1 .. n + 1 :
            o \notin chain'[i].stale /\ ~(chain'[i].type = "generated" /\ chain'[i].ref = o)
    BY <1>2, <1>3, <1>4, <1>5, <2>1
  <2> QED BY <1>2, <1>5, <2>2 DEF Told
<1>6. CASE output[o] = None /\ output'[o] # None
  <2>1. \A i \in 1 .. n : o \notin chain[i].stale /\ ~(chain[i].type = "generated" /\ chain[i].ref = o)
    BY <1>2, <1>6 DEF Told
  <2>2. Generates(e, o)
    BY <1>6 DEF Effect, Seals, Generates, Approves, MovesOn, ApprovesMatter
  <2>3. e.type = "generated" /\ e.ref = o /\ output'[o].state = "current" /\ o \notin e.stale
    BY <1>3, <1>6, <2>2 DEF Generates
  <2>4. \A i \in 1 .. n + 1 : o \notin chain'[i].stale
    BY <1>2, <2>1, <2>3
  <2>5. \A i \in 1 .. n + 1 : chain'[i].type = "generated" /\ chain'[i].ref = o <=> i = n + 1
    BY <1>2, <2>1, <2>3
  <2>6. n + 1 \in 1 .. n + 1 /\ output'[o].state # "stale"
    BY <2>3
  <2>7. History(o, n + 1)'
    BY <1>2, <2>4, <2>5, <2>6 DEF History
  <2> QED BY <1>2, <1>6, <2>6, <2>7 DEF Told
<1>7. CASE output[o] # None
  <2>7. PICK b \in 1 .. n : History(o, b)
    BY <1>2, <1>7 DEF Told
  <2>1. /\ \A i \in 1 .. n : chain[i].type = "generated" /\ chain[i].ref = o <=> i = b
        /\ output[o].state = "current" => \A i \in 1 .. n : o \notin chain[i].stale
    BY <1>2, <2>7 DEF History
  <2>2. /\ output'[o] # None
        /\ output'[o].state = IF o \in e.stale THEN "stale" ELSE output[o].state
    BY <1>1, <1>7 DEF Grows
  <2>3. b \in 1 .. n + 1 /\ b # n + 1
    BY <2>1
  <2>4. \A i \in 1 .. n + 1 : chain'[i].type = "generated" /\ chain'[i].ref = o <=> i = b
    BY <1>2, <1>4, <1>7, <2>1, <2>3
  <2>5. CASE o \in e.stale
    <3>1. \A i \in 1 .. n : o \notin chain[i].stale
      BY <1>3, <2>1, <2>5
    <3>2. \A i \in 1 .. n + 1 : o \in chain'[i].stale <=> i = n + 1
      BY <1>2, <2>5, <3>1
    <3>3. b < n + 1 /\ n + 1 \in 1 .. n + 1 /\ output'[o].state = "stale"
      BY <2>1, <2>2, <2>5
    <3>4. output'[o].state # "current"
      BY <3>3
    <3>5. \E m \in DOMAIN chain' : b < m /\ \A i \in DOMAIN chain' : o \in chain'[i].stale <=> i = m
      <4>1. n + 1 \in DOMAIN chain' /\ b < n + 1
        BY <1>2, <3>3
      <4>2. \A i \in DOMAIN chain' : o \in chain'[i].stale <=> i = n + 1
        BY <1>2, <3>2
      <4> QED BY <4>1, <4>2
    <3>6. \A i \in DOMAIN chain' : chain'[i].type = "generated" /\ chain'[i].ref = o <=> i = b
      BY <1>2, <2>4
    <3>7. History(o, b)'
      BY <3>4, <3>5, <3>6 DEF History
    <3> QED BY <1>2, <2>2, <2>3, <3>7 DEF Told
  <2>6. CASE o \notin e.stale
    <3>1. output'[o].state = output[o].state
      BY <2>2, <2>6
    <3>2. output'[o].state = "current" => \A i \in 1 .. n + 1 : o \notin chain'[i].stale
      BY <1>2, <2>1, <2>6, <3>1
    <3>3. ASSUME output'[o].state = "stale"
          PROVE  \E m \in DOMAIN chain' :
                    b < m /\ \A i \in DOMAIN chain' : o \in chain'[i].stale <=> i = m
      <4>1. PICK m \in DOMAIN chain : b < m /\ \A i \in DOMAIN chain : o \in chain[i].stale <=> i = m
        BY <2>7, <3>1, <3>3 DEF History
      <4>2. m \in DOMAIN chain' /\ m # n + 1
        BY <1>2
      <4>3. \A i \in DOMAIN chain' : o \in chain'[i].stale <=> i = m
        BY <1>2, <2>6, <4>1, <4>2
      <4> QED BY <4>1, <4>2, <4>3
    <3>4. \A i \in DOMAIN chain' : chain'[i].type = "generated" /\ chain'[i].ref = o <=> i = b
      BY <1>2, <2>4
    <3>5. output'[o].state = "current" => \A i \in DOMAIN chain' : o \notin chain'[i].stale
      BY <1>2, <3>2
    <3>6. History(o, b)'
      BY <3>3, <3>4, <3>5 DEF History
    <3> QED BY <1>2, <2>2, <2>3, <3>6 DEF Told
  <2> QED BY <2>5, <2>6
<1> QED BY <1>5, <1>6, <1>7

\* An applied batch leaves the tables and the chain in agreement.
LEMMA TablesKept ==
    ASSUME TypeOK, Tables, NEW e, Effect(e)
    PROVE  Tables'
<1>1. ChainOrdered'
  BY OrderKept DEF Tables, Effect
<1>2. SealsTold' /\ OutputsSealed' /\ ApprovalsTold' /\ ApprovalsStand'
  BY SealsKept, RowsKept, StandKept
<1>3. OutputsFresh' /\ ApprovedAsReviewed'
  BY FreshKept, ReviewedKept
<1>4. ASSUME NEW o \in Outputs PROVE Told(o)'
  BY OneToldKept DEF Tables, OutputsTold
<1>5. OutputsTold'
  BY <1>4 DEF OutputsTold
<1> QED BY <1>1, <1>2, <1>3, <1>5 DEF Tables

-----------------------------------------------------------------------------
(* What the batches do.                                                    *)

\* The part of TypeOK about the tables.
TablesTyped ==
    /\ revision \in Revisions /\ status \in Statuses
    /\ chain \in Seq(Events) /\ receipts \subseteq Revisions
    /\ snapshot \in [Snapshots -> Sealed \cup {None}]
    /\ output \in [Outputs -> Generated \cup {None}]
    /\ approvals \subseteq Outputs \X Actors

\* A batch makes no row but those of the id x.
Draws(x) ==
    /\ \A s \in Snapshots : s # x => snapshot'[s] = snapshot[s]
    /\ \A o \in Outputs : o # x /\ output[o] = None => output'[o] = None

\* An applied batch has an effect on the tables, with rows of its own id only.
Batch(x) == TablesTyped' /\ Draws(x) /\ \E e : Effect(e)

\* Outputs are marked stale and nothing else.
LEMMA StaleRows ==
    ASSUME TypeOK, NEW S, S \subseteq Current
    PROVE  /\ Stale(S) \in [Outputs -> Generated \cup {None}]
           /\ \A o \in Outputs : output[o] = None => Stale(S)[o] = None
           /\ \A o \in Outputs : output[o] # None =>
                 /\ Stale(S)[o] # None /\ Stale(S)[o].snapshot = output[o].snapshot
                 /\ Stale(S)[o].state = IF o \in S THEN "stale" ELSE output[o].state
<1>1. ASSUME NEW o \in Outputs
      PROVE  /\ Stale(S)[o] = IF o \in S THEN [output[o] EXCEPT !.state = "stale"] ELSE output[o]
             /\ o \in S => output[o] # None
             /\ output[o] # None => output[o] \in Generated
             /\ output[o] \in Generated \cup {None}
  BY DEF Stale, Current, TypeOK
<1>2. ASSUME NEW g \in Generated
      PROVE  /\ [g EXCEPT !.state = "stale"] \in Generated
             /\ [g EXCEPT !.state = "stale"].snapshot = g.snapshot
             /\ [g EXCEPT !.state = "stale"].state = "stale"
  BY DEF Generated
<1>3. \A g \in Generated : g # None
  BY NoneAssumption
<1>4. ASSUME NEW o \in Outputs
      PROVE  /\ Stale(S)[o] \in Generated \cup {None}
             /\ output[o] = None => Stale(S)[o] = None
             /\ output[o] # None =>
                 /\ Stale(S)[o] # None /\ Stale(S)[o].snapshot = output[o].snapshot
                 /\ Stale(S)[o].state = IF o \in S THEN "stale" ELSE output[o].state
  <2>1. CASE o \in S
    BY <1>1, <1>2, <1>3, <2>1
  <2>2. CASE o \notin S
    BY <1>1, <1>2, <1>3, <2>2
  <2> QED BY <2>1, <2>2
<1>5. Stale(S) = [o \in Outputs |-> Stale(S)[o]]
  BY DEF Stale
<1> QED BY <1>4, <1>5

\* The fields of a request and of an event.
LEMMA Fields ==
    ASSUME TypeOK, NEW c \in Clients
    PROVE  /\ req[c].rev \in Revisions /\ req[c].status \in Statuses /\ req[c].to \in Statuses
           /\ req[c].current \subseteq Outputs /\ req[c].through \in Nat
           /\ revision \in Nat /\ Revisions \subseteq Nat /\ revision \in Revisions
BY GovernanceAssumption DEF TypeOK, Locals, Revisions, GovernanceAssumption

\* A sealed snapshot.
LEMMA SealEffect ==
    ASSUME TypeOK, Tables, NEW c \in Clients, Holds(req[c]), req[c].pc = "commit", Seal(c)
    PROVE  Batch(req[c].id)
<1> DEFINE s == req[c].id
           e == Event(revision, "sealed", s, None, {})
           row == [rev |-> req[c].rev, through |-> req[c].through]
<1>1. /\ s \in Snapshots /\ snapshot[s] = None /\ req[c].rev = revision
      /\ \A j \in DOMAIN chain : j > req[c].through /\ chain[j].type \in Moves => chain[j].rev > req[c].rev
  BY DEF Seal, SealAccepted, ExtendsChain, Holds
<1>2. /\ chain' = Append(chain, e) /\ snapshot' = [snapshot EXCEPT ![s] = row]
      /\ UNCHANGED <<revision, status, receipts, output, approvals>>
  BY DEF Seal
<1>3. e \in Events /\ e.type = "sealed" /\ e.ref = s /\ e.stale = {} /\ e.rev = revision
  BY <1>1, Fields DEF Event, Events
<1>4. row \in Sealed /\ row.rev = revision /\ row.through = req[c].through /\ row # None
  BY <1>1, Fields, NoneAssumption DEF Sealed
<1>5. /\ snapshot' \in [Snapshots -> Sealed \cup {None}] /\ snapshot'[s] = row
      /\ \A t \in Snapshots : t # s => snapshot'[t] = snapshot[t]
  BY <1>1, <1>2, <1>4 DEF TypeOK
<1>6. chain' \in Seq(Events)
  BY <1>2, <1>3 DEF TypeOK
<1> HIDE DEF e, row
<1>7. TablesTyped'
  BY <1>2, <1>5, <1>6 DEF TablesTyped, TypeOK
<1>8. \A j \in DOMAIN chain : j > req[c].through => chain[j].type \notin Moves
  <2>1. \A j \in DOMAIN chain : chain[j].rev \in Start .. revision
    BY DEF Tables, ChainOrdered
  <2> QED BY <1>1, <2>1, Fields
<1>9. Seals(e, s, req[c].through)
  BY <1>1, <1>2, <1>3, <1>4, <1>5, <1>8 DEF Seals
<1>10. Grows(e)
  <2>1. "sealed" \notin Moves
    BY DEF Moves
  <2>2. \A o \in Outputs : o \notin e.stale
    BY <1>3
  <2> QED BY <1>1, <1>2, <1>3, <1>5, <2>1, <2>2, Fields DEF Grows
<1>11. Effect(e)
  BY <1>1, <1>9, <1>10, Fields DEF Effect
<1>12. Draws(s)
  BY <1>2, <1>5 DEF Draws
<1> QED BY <1>7, <1>11, <1>12 DEF Batch

\* A generated output.
LEMMA GenerateEffect ==
    ASSUME TypeOK, Tables, NEW c \in Clients, Holds(req[c]), req[c].pc = "commit", Generate(c)
    PROVE  Batch(req[c].id)
<1> DEFINE o == req[c].id
           S == req[c].current
           e == Event(revision, "generated", o, None, S)
           row == [snapshot |-> req[c].about, format |-> req[c].format, state |-> "current"]
<1>1. /\ o \in Outputs /\ output[o] = None /\ S \subseteq Current
      /\ req[c].about \in Snapshots /\ snapshot[req[c].about] # None
      /\ snapshot[req[c].about].rev = revision /\ req[c].format \in Formats
  BY DEF Generate, GenerateAccepted, ExtendsChain, AllStillCurrent, Holds
<1>2. /\ chain' = Append(chain, e) /\ output' = [Stale(S) EXCEPT ![o] = row]
      /\ UNCHANGED <<revision, status, receipts, snapshot, approvals>>
  BY DEF Generate
<1>3. e \in Events /\ e.type = "generated" /\ e.ref = o /\ e.stale = S /\ e.rev = revision
  BY <1>1, Fields DEF Event, Events
<1>4. row \in Generated /\ row.snapshot = req[c].about /\ row.state = "current" /\ row # None
  BY <1>1, NoneAssumption DEF Generated
<1> HIDE DEF e, row
<1>5. /\ output' \in [Outputs -> Generated \cup {None}] /\ output'[o] = row
      /\ \A p \in Outputs : p # o => output'[p] = Stale(S)[p]
  <2>1. Stale(S) \in [Outputs -> Generated \cup {None}]
    BY <1>1, StaleRows
  <2> QED BY <1>1, <1>2, <1>4, <2>1
<1>6. chain' \in Seq(Events)
  BY <1>2, <1>3 DEF TypeOK
<1>7. TablesTyped'
  BY <1>2, <1>5, <1>6 DEF TablesTyped, TypeOK
<1>8. \A p \in Outputs :
         /\ p # o /\ output[p] = None => output'[p] = None
         /\ output[p] # None =>
               /\ output'[p] # None /\ output'[p].snapshot = output[p].snapshot
               /\ output'[p].state = IF p \in S THEN "stale" ELSE output[p].state
  BY <1>1, <1>5, StaleRows
<1>9. Generates(e, o)
  BY <1>1, <1>2, <1>3, <1>4, <1>5, <1>8 DEF Generates
<1>10. Grows(e)
  <2>1. "generated" \notin Moves
    BY DEF Moves
  <2> QED BY <1>1, <1>2, <1>3, <1>8, <2>1, Fields DEF Grows
<1>11. Effect(e)
  BY <1>1, <1>9, <1>10 DEF Effect
<1>12. Draws(o)
  BY <1>2, <1>8 DEF Draws
<1> QED BY <1>7, <1>11, <1>12 DEF Batch

\* An approval.
LEMMA ApproveEffect ==
    ASSUME TypeOK, Tables, NEW c \in Clients, Holds(req[c]), req[c].pc = "commit", Approve(c)
    PROVE  Batch(req[c].id)
<1> DEFINE o == req[c].about
           a == req[c].actor
           e == Event(revision, "approved", o, a, {})
<1>1. o \in Current /\ o \in Outputs /\ a \in Actors
  BY DEF Approve, ApproveAccepted, Holds, Current
<1>2. /\ chain' = Append(chain, e) /\ approvals' = approvals \cup {<<o, a>>}
      /\ UNCHANGED <<revision, status, receipts, snapshot, output>>
  BY DEF Approve
<1>3. e \in Events /\ e.type = "approved" /\ e.ref = o /\ e.by = a /\ e.stale = {} /\ e.rev = revision
  BY <1>1, Fields DEF Event, Events
<1> HIDE DEF e
<1>4. chain' \in Seq(Events)
  BY <1>2, <1>3 DEF TypeOK
<1>5. approvals' \subseteq Outputs \X Actors
  BY <1>1, <1>2 DEF TypeOK
<1>6. TablesTyped'
  BY <1>2, <1>4, <1>5 DEF TablesTyped, TypeOK
<1>7. Approves(e, o, a)
  BY <1>1, <1>2, <1>3 DEF Approves
<1>8. Grows(e)
  <2>1. "approved" \notin Moves
    BY DEF Moves
  <2> QED BY <1>2, <1>3, <2>1, Fields DEF Grows
<1>9. Effect(e)
  BY <1>1, <1>7, <1>8 DEF Effect
<1>10. Draws(req[c].id)
  BY <1>2 DEF Draws
<1> QED BY <1>6, <1>9, <1>10 DEF Batch

\* A move marks every current output stale.
LEMMA MoveEffect ==
    ASSUME TypeOK, Tables, NEW e \in Events, NEW x, e.type \in Moves, e.ref = None,
           e.stale = Current, e.rev = revision + 1, revision + 1 \in Revisions,
           revision' = revision + 1, status' \in Statuses, receipts' = receipts \cup {revision'},
           chain' = Append(chain, e), output' = Stale(e.stale), UNCHANGED <<snapshot, approvals>>
    PROVE  Batch(x)
<1>1. chain' \in Seq(Events)
  BY DEF TypeOK
<1>2. /\ Stale(Current) \in [Outputs -> Generated \cup {None}]
      /\ \A o \in Outputs : output[o] = None => Stale(Current)[o] = None
      /\ \A o \in Outputs : output[o] # None =>
            /\ Stale(Current)[o] # None /\ Stale(Current)[o].snapshot = output[o].snapshot
            /\ Stale(Current)[o].state = IF o \in Current THEN "stale" ELSE output[o].state
  BY StaleRows
<1>3. TablesTyped'
  BY <1>1, <1>2 DEF TablesTyped, TypeOK
<1>4. MovesOn(e)
  BY <1>2 DEF MovesOn
<1>5. Grows(e)
  BY <1>2, <1>4 DEF Grows, MovesOn
<1>6. Draws(x)
  BY <1>2 DEF Draws
<1> QED BY <1>3, <1>4, <1>5, <1>6 DEF Batch, Effect

\* The receipt of the next revision is free only at the live revision.
LEMMA ReceiptFree ==
    ASSUME TypeOK, Tables, NEW c \in Clients, Holds(req[c]), req[c].pc = "commit",
           req[c].op \in {"write", "transition"}, req[c].rev + 1 \notin receipts
    PROVE  req[c].rev = revision /\ Moved(c) = revision + 1 /\ revision + 1 \in Revisions
<1>1. req[c].rev <= revision /\ req[c].rev < MaxRevision
  BY DEF Holds
<1>2. receipts = Start .. revision
  BY DEF Tables, ChainOrdered
<1>3. req[c].rev \in Start .. MaxRevision /\ revision \in Nat /\ Start \in Nat /\ MaxRevision \in Nat
  BY Fields, GovernanceAssumption DEF Revisions, GovernanceAssumption
<1>4. req[c].rev = revision
  BY <1>1, <1>2, <1>3
<1> QED BY <1>1, <1>3, <1>4 DEF Moved, Revisions

\* An update of the Matter.
LEMMA WriteEffect ==
    ASSUME TypeOK, Tables, NEW c \in Clients, Holds(req[c]), req[c].pc = "commit", Write(c)
    PROVE  Batch(req[c].id)
<1> DEFINE S == req[c].current
           e == Event(req[c].rev + 1, "write", None, None, S)
<1>1. /\ S \subseteq Current /\ Current \ S = {} /\ req[c].rev + 1 \notin receipts
      /\ req[c].op = "write"
  BY DEF Write, WriteAccepted, AllStillCurrent, ReceiptAccepted
<1>2. req[c].rev = revision /\ Moved(c) = revision + 1 /\ revision + 1 \in Revisions
  BY <1>1, ReceiptFree
<1>3. S = Current
  BY <1>1
<1>4. /\ revision' = revision + 1 /\ output' = Stale(S) /\ chain' = Append(chain, e)
      /\ receipts' = receipts \cup {revision'} /\ UNCHANGED <<status, snapshot, approvals>>
  BY <1>2 DEF Write
<1>5. /\ e \in Events /\ e.type = "write" /\ e.ref = None /\ e.stale = S /\ e.rev = revision + 1
  BY <1>2, Fields DEF Event, Events
<1> HIDE DEF e, S
<1>6. e.type \in Moves /\ status' \in Statuses
  BY <1>4, <1>5 DEF Moves, TypeOK
<1> QED BY <1>2, <1>3, <1>4, <1>5, <1>6, MoveEffect

\* A transition of the Matter.
LEMMA TransitionEffect ==
    ASSUME TypeOK, Tables, NEW c \in Clients, Holds(req[c]), req[c].pc = "commit", Transition(c)
    PROVE  Batch(req[c].id)
<1>1. req[c].op = "transition" /\ TransitionAccepted(c)
  BY DEF Transition
<1>2. req[c].rev + 1 \notin receipts
  BY <1>1 DEF TransitionAccepted
<1>3. req[c].rev = revision /\ Moved(c) = revision + 1 /\ revision + 1 \in Revisions
  BY <1>1, <1>2, ReceiptFree
<1>4. CASE ~Approving(c)
  <2> DEFINE S == req[c].current
             e == Event(req[c].rev + 1, "transition", None, None, S)
  <2>1. ToStale(c) = S
    BY <1>4 DEF ToStale, Approving
  <2>2. S = Current
    BY <1>1, <1>4, <2>1 DEF TransitionAccepted, AllStillCurrent
  <2>3. /\ revision' = revision + 1 /\ output' = Stale(S) /\ chain' = Append(chain, e)
        /\ receipts' = receipts \cup {revision'} /\ UNCHANGED <<snapshot, approvals>>
        /\ status' = req[c].to
    BY <1>3, <1>4, <2>1 DEF Transition
  <2>4. e \in Events /\ e.type = "transition" /\ e.ref = None /\ e.stale = S /\ e.rev = revision + 1
    BY <1>3, Fields DEF Event, Events
  <2> HIDE DEF e, S
  <2>5. e.type \in Moves /\ status' \in Statuses
    BY <2>3, <2>4, Fields DEF Moves
  <2> QED BY <1>3, <2>2, <2>3, <2>4, <2>5, MoveEffect
<1>5. CASE Approving(c)
  <2> DEFINE o == req[c].approved
             a == req[c].actor
             e == Event(req[c].rev + 1, "transition", o, a, {})
  <2>1. ToStale(c) = {}
    BY <1>5 DEF ToStale, Approving
  <2>2. /\ o \in Current /\ o \in Outputs /\ <<o, a>> \in approvals
        /\ \A p \in Current : output[p].snapshot = output[o].snapshot /\ status = req[c].status
    BY <1>1, <1>5 DEF TransitionAccepted, ApprovedBy, Current
  <2>3. a \in Actors /\ req[c].status = "internal_review"
    BY <1>1, <1>5 DEF Holds, Approving
  <2>4. output' = output
    <3>1. output' = Stale({})
      BY <2>1 DEF Transition
    <3>2. Stale({}) = [p \in Outputs |-> output[p]]
      BY DEF Stale
    <3> QED BY <3>1, <3>2 DEF TypeOK
  <2>5. /\ revision' = revision + 1 /\ chain' = Append(chain, e)
        /\ receipts' = receipts \cup {revision'} /\ UNCHANGED <<snapshot, approvals>>
        /\ status' = "output_approved"
    BY <1>3, <1>5, <2>1 DEF Transition, Approving
  <2>6. /\ e \in Events /\ e.type = "transition" /\ e.ref = o /\ e.by = a /\ e.stale = {}
        /\ e.rev = revision + 1
    BY <1>3, <2>2, <2>3, Fields DEF Event, Events
  <2> HIDE DEF e
  <2>7. chain' \in Seq(Events) /\ receipts' \subseteq Revisions
    BY <1>3, <2>5, <2>6 DEF TypeOK
  <2>8. TablesTyped'
    BY <1>3, <2>4, <2>5, <2>7 DEF TablesTyped, TypeOK, Statuses
  <2>9. ApprovesMatter(e, o, a)
    BY <1>1, <2>2, <2>3, <2>4, <2>5, <2>6 DEF ApprovesMatter, TransitionAccepted
  <2>10. Grows(e)
    <3>1. "transition" \in Moves
      BY DEF Moves
    <3>2. \A p \in Outputs : p \notin e.stale
      BY <2>6
    <3> QED BY <1>3, <2>4, <2>5, <2>6, <3>1, <3>2 DEF Grows
  <2>11. Effect(e)
    BY <2>2, <2>3, <2>9, <2>10 DEF Effect
  <2>12. Draws(req[c].id)
    BY <2>4, <2>5 DEF Draws
  <2> QED BY <2>8, <2>11, <2>12 DEF Batch
<1> QED BY <1>4, <1>5

\* Whatever the operation.
LEMMA AppliedEffect ==
    ASSUME TypeOK, Tables, NEW c \in Clients, Holds(req[c]), req[c].pc = "commit", Applied(c)
    PROVE  Batch(req[c].id)
BY SealEffect, GenerateEffect, ApproveEffect, WriteEffect, TransitionEffect DEF Applied

-----------------------------------------------------------------------------
(* What the requests hold.                                                 *)

\* Agreement is about the tables only.
LEMMA TablesStay ==
    ASSUME Tables, UNCHANGED matter
    PROVE  Tables'
<1>1. ChainOrdered' /\ SealsTold'
  BY DEF Tables, matter, ChainOrdered, SealsTold, Moves
<1>2. OutputsSealed' /\ ApprovalsTold' /\ ApprovalsStand'
  BY DEF Tables, matter, OutputsSealed, ApprovalsTold, ApprovalsStand
<1>3. Current' = Current /\ ApprovedOutput' = ApprovedOutput
  BY DEF matter, Current, ApprovedOutput
<1>4. OutputsFresh'
  BY <1>3 DEF Tables, matter, OutputsFresh
<1>5. ApprovedAsReviewed'
  BY DEF Tables, matter, ApprovedAsReviewed, Moves
<1>6. OutputsTold'
  BY DEF Tables, matter, OutputsTold, Told, History
<1> QED BY <1>1, <1>2, <1>4, <1>5, <1>6 DEF Tables

\* What one request holds depends on the tables only.
LEMMA HeldStays ==
    ASSUME UNCHANGED matter, NEW q, Holds(q), Undone(q)
    PROVE  Holds(q)' /\ Undone(q)'
<1>1. Holds(q)'
  BY DEF Holds, matter, Moves
<1>2. Undone(q)'
  BY DEF Undone, matter, Current
<1> QED BY <1>1, <1>2

\* A step of one request that leaves the tables alone.
LEMMA OneStep ==
    ASSUME GovInv, UNCHANGED matter, bucket' \subseteq Snapshots \cup Outputs,
           faults' \in 0 .. MaxFaults, NEW c \in Clients, NEW q \in Locals, Become(c, q),
           Holds(q), Undone(q), q.id # None => \A d \in Clients : d # c => req[d].id # q.id
    PROVE  GovInv'
<1>1. /\ req' \in [Clients -> Locals] /\ req'[c] = q
      /\ \A d \in Clients : d # c => req'[d] = req[d]
  BY DEF GovInv, TypeOK, Become
<1>2. TypeOK'
  BY <1>1 DEF GovInv, TypeOK, matter
<1>3. Tables'
  BY TablesStay DEF GovInv
<1>4. ASSUME NEW d \in Clients PROVE Holds(req[d])' /\ Undone(req[d])'
  <2>1. PICK h : h = req'[d]
    OBVIOUS
  <2>2. Holds(h) /\ Undone(h)
    <3>1. CASE d = c
      BY <1>1, <2>1, <3>1
    <3>2. CASE d # c
      BY <1>1, <2>1, <3>2 DEF GovInv, HeldOK
    <3> QED BY <3>1, <3>2
  <2>3. Holds(h)' /\ Undone(h)'
    BY <2>2, HeldStays
  <2> QED BY <2>1, <2>3
<1>5. HeldOK'
  BY <1>4 DEF HeldOK
<1>6. ASSUME NEW d \in Clients, NEW f \in Clients, d # f, req'[d].id # None
      PROVE  req'[d].id # req'[f].id
  BY <1>1, <1>6 DEF GovInv, IdsApart
<1>7. IdsApart'
  BY <1>6 DEF IdsApart
<1> QED BY <1>2, <1>3, <1>5, <1>7 DEF GovInv

\* A slot that holds nothing.
LEMMA BlankHeld ==
    ASSUME TypeOK
    PROVE  Blank \in Locals /\ Holds(Blank) /\ Undone(Blank) /\ Blank.id = None
<1>1. Start \in Revisions
  BY GovernanceAssumption DEF Revisions, GovernanceAssumption
<1>2. Blank \in Locals
  BY <1>1 DEF Blank, Locals, Pcs, Ops, Statuses
<1>3. Blank.pc = "idle" /\ Blank.op = "write" /\ Blank.id = None
  BY DEF Blank
<1>4. Holds(Blank)
  BY <1>3 DEF Holds
<1>5. Undone(Blank)
  BY <1>3 DEF Undone
<1> QED BY <1>2, <1>3, <1>4, <1>5

\* A request that is answered.
LEMMA AnswerKept ==
    ASSUME GovInv, UNCHANGED matter, bucket' \subseteq Snapshots \cup Outputs,
           faults' \in 0 .. MaxFaults, NEW c \in Clients, Answer(c)
    PROVE  GovInv'
<1>1. TypeOK
  BY DEF GovInv
<1>2. PICK q \in Locals : q = Blank
  BY <1>1, BlankHeld
<1>3. Holds(q) /\ Undone(q) /\ q.id = None /\ Become(c, q)
  BY <1>1, <1>2, BlankHeld DEF Answer
<1> QED BY <1>3, OneStep

\* A request that asks for an output holds what a request can hold.
LEMMA LocalsGoOn ==
    ASSUME NEW r \in Locals, NEW s \in Snapshots, NEW f \in Formats, NEW o \in Outputs,
           NEW S \in SUBSET Outputs
    PROVE  [r EXCEPT !.about = s, !.format = f, !.id = o, !.current = S] \in Locals
BY DEF Locals

\* What a request has when it begins.
LEMMA ReadFields ==
    ASSUME TypeOK, NEW c, NEW op \in Ops, NEW a \in Actors \cup {None}
    PROVE  \E r \in Locals :
              /\ r = Read(c, op, a) /\ r.pc = "facts" /\ r.op = op /\ r.actor = a
              /\ r.rev = revision /\ r.status = status /\ r.id = None
<1>1. PICK b \in Locals : b = Blank /\ b.id = None
  BY BlankHeld
<1>2. revision \in Revisions /\ status \in Statuses
  BY DEF TypeOK
<1> DEFINE r == [b EXCEPT !.pc = "facts", !.op = op, !.actor = a, !.rev = revision, !.status = status]
<1>3. r \in Locals
  BY <1>2 DEF Locals, Pcs
<1>4. /\ r.pc = "facts" /\ r.op = op /\ r.actor = a
      /\ r.rev = revision /\ r.status = status /\ r.id = None
  BY <1>1 DEF Locals
<1>5. r = Read(c, op, a)
  BY <1>1 DEF Read
<1> QED BY <1>3, <1>4, <1>5

\* A request begins at the revision and status it read.
LEMMA BeginKept ==
    ASSUME GovInv, NEW c \in Clients, BeginSome(c)
    PROVE  GovInv'
<1>1. TypeOK /\ revision \in Revisions /\ Revisions \subseteq Nat
  BY GovernanceAssumption DEF GovInv, TypeOK, Revisions, GovernanceAssumption
<1>2. None \in Actors \cup {None} /\ Ops = {"snapshot", "output", "approve", "write", "transition"}
  BY DEF Ops
<1>3. revision \in Int /\ faults \in Nat /\ MaxRevision \in Int
  BY <1>1, GovernanceAssumption DEF TypeOK, GovernanceAssumption
<1>4. bucket \subseteq Snapshots \cup Outputs /\ faults \in 0 .. MaxFaults
  BY <1>1 DEF TypeOK
<1>5. CASE BeginSnapshot(c)
  <2>1. PICK s \in FreshSnapshots : Become(c, [Read(c, "snapshot", None) EXCEPT !.id = s])
    BY <1>5 DEF BeginSnapshot
  <2>2. PICK r \in Locals :
              /\ r = Read(c, "snapshot", None) /\ r.pc = "facts" /\ r.op = "snapshot" /\ r.actor = None
              /\ r.rev = revision /\ r.status = status /\ r.id = None
    BY <1>1, <1>2, ReadFields
  <2>3. PICK q : q = [r EXCEPT !.id = s]
    OBVIOUS
  <2>4. s \in Snapshots /\ snapshot[s] = None /\ \A d \in Clients : req[d].id # s
    BY <2>1 DEF FreshSnapshots, Unused
  <2>5. /\ q \in Locals /\ q.pc = "facts" /\ q.op = "snapshot" /\ q.rev = revision
        /\ q.status = status /\ q.id = s
    BY <2>2, <2>3, <2>4 DEF Locals
  <2>6. Holds(q)
    BY <1>3, <2>4, <2>5 DEF Holds
  <2>7. Undone(q)
    BY <2>5 DEF Undone
  <2>8. Become(c, q)
    BY <2>1, <2>2, <2>3
  <2>9. UNCHANGED <<matter, bucket, faults>>
    BY <1>5 DEF BeginSnapshot, Quiet
  <2> QED BY <1>4, <2>4, <2>5, <2>6, <2>7, <2>8, <2>9, OneStep
<1>6. CASE BeginWrite(c)
  <2>1. PICK r \in Locals :
              /\ r = Read(c, "write", None) /\ r.pc = "facts" /\ r.op = "write" /\ r.actor = None
              /\ r.rev = revision /\ r.status = status /\ r.id = None
    BY <1>1, <1>2, ReadFields
  <2>2. revision < MaxRevision
    BY <1>3, <1>6 DEF BeginWrite
  <2>3. Holds(r)
    BY <1>3, <2>1, <2>2 DEF Holds
  <2>4. Undone(r)
    BY <2>1 DEF Undone
  <2>5. Become(c, r) /\ UNCHANGED <<matter, bucket, faults>>
    BY <1>6, <2>1 DEF BeginWrite, Quiet
  <2> QED BY <1>4, <2>1, <2>3, <2>4, <2>5, OneStep
<1>7. ASSUME NEW s \in Snapshots, NEW f \in Formats, BeginOutput(c, s, f) PROVE GovInv'
  <2> DEFINE known == {p \in Outputs : output[p] # None}
  <2>1. PICK o \in FreshOutputs :
              Become(c, [Read(c, "output", None) EXCEPT !.about = s, !.format = f, !.id = o,
                             !.current = known])
    BY <1>7 DEF BeginOutput
  <2>2. PICK r \in Locals :
              /\ r = Read(c, "output", None) /\ r.pc = "facts" /\ r.op = "output" /\ r.actor = None
              /\ r.rev = revision /\ r.status = status /\ r.id = None
    BY <1>1, <1>2, ReadFields
  <2>3. PICK q : q = [r EXCEPT !.about = s, !.format = f, !.id = o, !.current = known]
    OBVIOUS
  <2>4. o \in Outputs /\ output[o] = None /\ \A d \in Clients : req[d].id # o
    BY <2>1 DEF FreshOutputs, Unused
  <2>5. known \in SUBSET Outputs
    OBVIOUS
  <2> HIDE DEF known
  <2>6. /\ q \in Locals /\ q.pc = "facts" /\ q.op = "output" /\ q.rev = revision
        /\ q.status = status /\ q.id = o /\ q.about = s /\ q.format = f
    <3>1. q \in Locals
      BY <2>3, <2>4, <2>5, LocalsGoOn
    <3>2. q.id = o /\ q.about = s /\ q.format = f
      BY <2>2, <2>3 DEF Locals
    <3>3. q.pc = r.pc /\ q.op = r.op /\ q.rev = r.rev /\ q.status = r.status
      BY <2>3
    <3> QED BY <2>2, <3>1, <3>2, <3>3
  <2>7. snapshot[s] # None /\ snapshot[s].rev = revision
    BY <1>7 DEF BeginOutput
  <2>8. Holds(q)
    BY <1>3, <2>4, <2>6, <2>7 DEF Holds
  <2>9. Undone(q)
    BY <2>6 DEF Undone
  <2>10. Become(c, q)
    BY <2>1, <2>2, <2>3
  <2>11. UNCHANGED <<matter, bucket, faults>>
    BY <1>7 DEF BeginOutput, Quiet
  <2> QED BY <1>4, <2>4, <2>6, <2>8, <2>9, <2>10, <2>11, OneStep
<1>8. ASSUME NEW a \in Actors, NEW o \in Outputs, BeginApproval(c, a, o) PROVE GovInv'
  <2>1. PICK r \in Locals :
              /\ r = Read(c, "approve", a) /\ r.pc = "facts" /\ r.op = "approve" /\ r.actor = a
              /\ r.rev = revision /\ r.status = status /\ r.id = None
    BY <1>1, <1>2, ReadFields
  <2>2. PICK q : q = [r EXCEPT !.about = o]
    OBVIOUS
  <2>3. /\ q \in Locals /\ q.pc = "facts" /\ q.op = "approve" /\ q.rev = revision
        /\ q.status = status /\ q.id = None /\ q.about = o /\ q.actor = a
    BY <2>1, <2>2 DEF Locals
  <2>4. output[o] # None
    BY <1>8 DEF BeginApproval
  <2>5. Holds(q)
    BY <1>3, <2>3, <2>4 DEF Holds
  <2>6. Undone(q)
    BY <2>3 DEF Undone
  <2>7. Become(c, q) /\ UNCHANGED <<matter, bucket, faults>>
    BY <1>8, <2>1, <2>2 DEF BeginApproval, Quiet
  <2> QED BY <1>4, <2>3, <2>5, <2>6, <2>7, OneStep
<1>9. ASSUME NEW a \in Actors, NEW to \in Asked, BeginTransition(c, a, to) PROVE GovInv'
  <2>1. PICK r \in Locals :
              /\ r = Read(c, "transition", a) /\ r.pc = "facts" /\ r.op = "transition" /\ r.actor = a
              /\ r.rev = revision /\ r.status = status /\ r.id = None
    BY <1>1, <1>2, ReadFields
  <2>2. PICK q : q = [r EXCEPT !.to = to]
    OBVIOUS
  <2>3. to \in Statuses
    BY GovernanceAssumption DEF GovernanceAssumption
  <2>4. /\ q \in Locals /\ q.pc = "facts" /\ q.op = "transition" /\ q.rev = revision
        /\ q.status = status /\ q.id = None /\ q.actor = a
    BY <2>1, <2>2, <2>3 DEF Locals
  <2>5. revision < MaxRevision
    BY <1>3, <1>9 DEF BeginTransition
  <2>6. Holds(q)
    BY <1>3, <2>4, <2>5 DEF Holds
  <2>7. Undone(q)
    BY <2>4 DEF Undone
  <2>8. Become(c, q) /\ UNCHANGED <<matter, bucket, faults>>
    BY <1>9, <2>1, <2>2 DEF BeginTransition, Quiet
  <2> QED BY <1>4, <2>4, <2>6, <2>7, <2>8, OneStep
<1> QED BY <1>5, <1>6, <1>7, <1>8, <1>9 DEF BeginSome

\* The request of a slot, as it is.
LEMMA Holding ==
    ASSUME GovInv, NEW c \in Clients
    PROVE  /\ \E r \in Locals : r = req[c] /\ Holds(r) /\ Undone(r)
           /\ \A d \in Clients : d # c /\ req[c].id # None => req[d].id # req[c].id
           /\ bucket \subseteq Snapshots \cup Outputs /\ faults \in 0 .. MaxFaults
           /\ Len(chain) \in Nat /\ DOMAIN chain = 1 .. Len(chain)
           /\ \A i \in DOMAIN chain : chain[i].rev \in Int
           /\ \A r \in Locals : r.rev \in Int
<1>1. req[c] \in Locals /\ Holds(req[c]) /\ Undone(req[c])
  BY DEF GovInv, TypeOK, HeldOK
<1>2. \A d \in Clients : d # c /\ req[c].id # None => req[d].id # req[c].id
  BY DEF GovInv, IdsApart
<1>3. Revisions \subseteq Int
  BY GovernanceAssumption DEF Revisions, GovernanceAssumption
<1>4. \A i \in DOMAIN chain : chain[i].rev \in Int
  <2>1. \A i \in DOMAIN chain : chain[i] \in Events
    BY DEF GovInv, TypeOK
  <2> QED BY <1>3, <2>1 DEF Events
<1>5. Len(chain) \in Nat /\ DOMAIN chain = 1 .. Len(chain)
  BY DEF GovInv, TypeOK
<1>6. bucket \subseteq Snapshots \cup Outputs /\ faults \in 0 .. MaxFaults
  BY DEF GovInv, TypeOK
<1> QED BY <1>1, <1>2, <1>3, <1>4, <1>5, <1>6 DEF Locals

\* The facts are read.
LEMMA FactsKept ==
    ASSUME GovInv, NEW c \in Clients, ReadFacts(c)
    PROVE  GovInv'
<1>1. PICK r \in Locals : r = req[c] /\ Holds(r) /\ Undone(r)
  BY Holding
<1>2. /\ \A d \in Clients : d # c /\ r.id # None => req[d].id # r.id
      /\ bucket \subseteq Snapshots \cup Outputs /\ faults \in 0 .. MaxFaults
      /\ Len(chain) \in Nat /\ DOMAIN chain = 1 .. Len(chain)
      /\ \A i \in DOMAIN chain : chain[i].rev \in Int
      /\ r.rev \in Int
  BY <1>1, Holding
<1>3. r.pc = "facts" /\ UNCHANGED <<matter, bucket, faults>>
  BY <1>1 DEF ReadFacts, Quiet
<1>4. ASSUME Answer(c) PROVE GovInv'
  BY <1>2, <1>3, <1>4, AnswerKept
<1>5. CASE SealedBoundary(c)
  <2>1. CASE \E i \in DOMAIN chain : chain[i].rev > r.rev
    BY <1>1, <1>4, <1>5, <2>1 DEF SealedBoundary
  <2>2. CASE ~ \E i \in DOMAIN chain : chain[i].rev > r.rev
    <3>1. PICK q : q = [r EXCEPT !.pc = "head", !.through = Len(chain)]
      OBVIOUS
    <3>2. Become(c, q) /\ r.op = "snapshot"
      BY <1>1, <1>5, <2>2, <3>1 DEF SealedBoundary
    <3>3. /\ q \in Locals /\ q.pc = "head" /\ q.op = "snapshot" /\ q.rev = r.rev /\ q.id = r.id
          /\ q.status = r.status /\ q.through = Len(chain) /\ q.alone = r.alone
      BY <1>2, <3>1, <3>2 DEF Locals, Pcs
    <3>4. Holds(q)
      BY <1>1, <1>2, <1>3, <3>2, <3>3 DEF Holds
    <3>5. Undone(q)
      BY <1>1, <1>3, <3>3 DEF Undone
    <3> QED BY <1>2, <1>3, <3>2, <3>3, <3>4, <3>5, OneStep
  <2> QED BY <2>1, <2>2
<1>6. CASE OutputFacts(c)
  <2> DEFINE current == r.current \cap Current
             same == {o \in current : output[o].snapshot = r.about}
  <2>1. CASE \E o \in same : output[o].format = r.format
    BY <1>1, <1>4, <1>6, <2>1 DEF OutputFacts
  <2>2. CASE ~ \E o \in same : output[o].format = r.format
    <3>1. PICK q : q = [r EXCEPT !.pc = "manifest", !.current = current \ same]
      OBVIOUS
    <3>2. Become(c, q) /\ r.op = "output"
      BY <1>1, <1>6, <2>2, <3>1 DEF OutputFacts
    <3>3. current \ same \in SUBSET Outputs /\ current \ same \subseteq Current
      BY DEF Current
    <3> HIDE DEF current, same
    <3>4. /\ q \in Locals /\ q.pc = "manifest" /\ q.op = "output" /\ q.rev = r.rev /\ q.id = r.id
          /\ q.status = r.status /\ q.current = current \ same /\ q.alone = r.alone
          /\ q.about = r.about /\ q.format = r.format
      BY <3>1, <3>2, <3>3 DEF Locals, Pcs
    <3>5. Holds(q)
      BY <1>1, <1>3, <3>2, <3>4 DEF Holds
    <3>6. Undone(q)
      BY <1>1, <1>3, <3>3, <3>4 DEF Undone
    <3> QED BY <1>2, <1>3, <3>2, <3>4, <3>5, <3>6, OneStep
  <2> QED BY <2>1, <2>2
<1>7. CASE ApprovalFacts(c)
  <2>1. CASE r.about \notin Current
    BY <1>1, <1>4, <1>7, <2>1 DEF ApprovalFacts
  <2>2. CASE r.about \in Current /\ <<r.about, r.actor>> \in approvals
    BY <1>1, <1>4, <1>7, <2>2 DEF ApprovalFacts
  <2>3. CASE r.about \in Current /\ <<r.about, r.actor>> \notin approvals
    <3>1. PICK q : q = [r EXCEPT !.pc = "head"]
      OBVIOUS
    <3>2. Become(c, q) /\ r.op = "approve"
      BY <1>1, <1>7, <2>3, <3>1 DEF ApprovalFacts
    <3>3. /\ q \in Locals /\ q.pc = "head" /\ q.op = "approve" /\ q.rev = r.rev /\ q.id = r.id
          /\ q.status = r.status /\ q.alone = r.alone /\ q.about = r.about /\ q.actor = r.actor
      BY <3>1, <3>2 DEF Locals, Pcs
    <3>4. Holds(q)
      BY <1>1, <1>3, <3>2, <3>3 DEF Holds
    <3>5. Undone(q)
      BY <1>1, <1>3, <2>3, <3>3 DEF Undone
    <3> QED BY <1>2, <1>3, <3>2, <3>3, <3>4, <3>5, OneStep
  <2> QED BY <2>1, <2>2, <2>3
<1>8. Current \in SUBSET Outputs
  BY DEF Current
<1>9. CASE StaleFacts(c)
  <2>1. PICK q : q = [r EXCEPT !.pc = "head", !.current = Current]
    OBVIOUS
  <2>2. Become(c, q) /\ r.op = "write"
    BY <1>1, <1>9, <2>1 DEF StaleFacts
  <2>3. /\ q \in Locals /\ q.pc = "head" /\ q.op = "write" /\ q.rev = r.rev /\ q.id = r.id
        /\ q.status = r.status /\ q.alone = r.alone /\ q.current = Current
    BY <1>8, <2>1, <2>2 DEF Locals, Pcs
  <2>4. Holds(q)
    BY <1>1, <1>3, <2>2, <2>3 DEF Holds
  <2>5. Undone(q)
    BY <1>1, <1>3, <2>3 DEF Undone
  <2> QED BY <1>2, <1>3, <2>2, <2>3, <2>4, <2>5, OneStep
<1>10. CASE TransitionFacts(c)
  <2>1. PICK q : q = [r EXCEPT !.pc = "approvals", !.current = Current]
    OBVIOUS
  <2>2. Become(c, q) /\ r.op = "transition"
    BY <1>1, <1>10, <2>1 DEF TransitionFacts
  <2>3. /\ q \in Locals /\ q.pc = "approvals" /\ q.op = "transition" /\ q.rev = r.rev /\ q.id = r.id
        /\ q.status = r.status /\ q.alone = r.alone /\ q.actor = r.actor
    BY <1>8, <2>1, <2>2 DEF Locals, Pcs
  <2>4. Holds(q)
    BY <1>1, <1>3, <2>2, <2>3 DEF Holds
  <2>5. Undone(q)
    BY <1>1, <1>3, <2>3 DEF Undone
  <2> QED BY <1>2, <1>3, <2>2, <2>3, <2>4, <2>5, OneStep
<1> QED BY <1>5, <1>6, <1>7, <1>9, <1>10 DEF ReadFacts

\* The registry is asked; the only way to the approval is from internal review.
LEMMA ApprovedFromReview ==
    ASSUME NEW from, NEW role, NEW hasCurrent, NEW hasApproval,
           Allowed(from, "output_approved", role, hasCurrent, hasApproval)
    PROVE  from = "internal_review" /\ hasApproval
<1>1. PICK roles \in SUBSET Roles : <<from, "output_approved", roles>> \in Registry
  BY DEF Allowed
<1>2. from = "internal_review"
  BY <1>1 DEF Registry
<1> QED BY <1>2 DEF Allowed

\* A transition is decided.
LEMMA DecideKept ==
    ASSUME GovInv, NEW c \in Clients, Decide(c)
    PROVE  GovInv'
<1>1. PICK r \in Locals : r = req[c] /\ Holds(r) /\ Undone(r)
  BY Holding
<1>2. /\ \A d \in Clients : d # c /\ r.id # None => req[d].id # r.id
      /\ bucket \subseteq Snapshots \cup Outputs /\ faults \in 0 .. MaxFaults
  BY <1>1, Holding
<1>3. r.pc = "approvals" /\ UNCHANGED <<matter, bucket, faults>>
  BY <1>1 DEF Decide, Quiet
<1> DEFINE mine == r.current \cap ApprovedBy(r.actor)
           allowed == Allowed(r.status, r.to, Role[r.actor], r.current # {}, mine # {})
<1>4. CASE ~allowed
  <2>1. Answer(c)
    BY <1>1, <1>4 DEF Decide
  <2> QED BY <1>2, <1>3, <2>1, AnswerKept
<1>5. CASE allowed
  <2>1. PICK o \in IF mine = {} THEN {None} ELSE mine :
            Become(c, [req[c] EXCEPT !.pc = "head", !.approved = o])
    BY <1>1, <1>5 DEF Decide
  <2>2. o \in Outputs \cup {None}
    BY <2>1 DEF ApprovedBy
  <2>3. r.to = "output_approved" => r.status = "internal_review"
    BY <1>5, ApprovedFromReview
  <2> HIDE DEF mine, allowed
  <2>4. PICK q : q = [r EXCEPT !.pc = "head", !.approved = o]
    OBVIOUS
  <2>5. Become(c, q)
    BY <1>1, <2>1, <2>4
  <2>6. /\ q \in Locals /\ q.pc = "head" /\ q.op = r.op /\ q.rev = r.rev /\ q.id = r.id
        /\ q.status = r.status /\ q.alone = r.alone /\ q.actor = r.actor /\ q.to = r.to
    BY <2>2, <2>4 DEF Locals, Pcs
  <2>7. r.op = "transition"
    BY <1>1, <1>3 DEF Holds
  <2>8. Holds(q)
    BY <1>1, <1>3, <2>3, <2>6, <2>7 DEF Holds
  <2>9. Undone(q)
    BY <1>1, <1>3, <2>6, <2>7 DEF Undone
  <2> QED BY <1>2, <1>3, <2>5, <2>6, <2>8, <2>9, OneStep
<1> QED BY <1>4, <1>5

\* The snapshot's manifest is read.
LEMMA ManifestKept ==
    ASSUME GovInv, NEW c \in Clients, ReadManifest(c)
    PROVE  GovInv'
<1>1. PICK r \in Locals : r = req[c] /\ Holds(r) /\ Undone(r)
  BY Holding
<1>2. /\ \A d \in Clients : d # c /\ r.id # None => req[d].id # r.id
      /\ bucket \subseteq Snapshots \cup Outputs /\ faults \in 0 .. MaxFaults
  BY <1>1, Holding
<1>3. r.pc = "manifest" /\ UNCHANGED <<matter, bucket, faults>>
  BY <1>1 DEF ReadManifest, Quiet
<1>4. CASE r.about \notin bucket
  <2>1. Answer(c)
    BY <1>1, <1>4 DEF ReadManifest
  <2> QED BY <1>2, <1>3, <2>1, AnswerKept
<1>5. CASE r.about \in bucket
  <2>1. PICK q : q = [r EXCEPT !.pc = "head"]
    OBVIOUS
  <2>2. Become(c, q)
    BY <1>1, <1>5, <2>1 DEF ReadManifest
  <2>3. /\ q \in Locals /\ q.pc = "head" /\ q.op = r.op /\ q.rev = r.rev /\ q.id = r.id
        /\ q.status = r.status /\ q.alone = r.alone /\ q.current = r.current /\ q.about = r.about
        /\ q.format = r.format
    BY <2>1 DEF Locals, Pcs
  <2>4. r.op = "output"
    BY <1>1, <1>3 DEF Holds
  <2>5. Holds(q)
    BY <1>1, <1>3, <2>3, <2>4 DEF Holds
  <2>6. Undone(q)
    BY <1>1, <1>3, <2>3, <2>4 DEF Undone
  <2> QED BY <1>2, <1>3, <2>2, <2>3, <2>5, <2>6, OneStep
<1> QED BY <1>4, <1>5

\* The events are chained to the last one.
LEMMA AuditKept ==
    ASSUME GovInv, NEW c \in Clients, PrepareAudit(c)
    PROVE  GovInv'
<1>1. PICK r \in Locals : r = req[c] /\ Holds(r) /\ Undone(r)
  BY Holding
<1>2. /\ \A d \in Clients : d # c /\ r.id # None => req[d].id # r.id
      /\ bucket \subseteq Snapshots \cup Outputs /\ faults \in 0 .. MaxFaults
      /\ Len(chain) \in Nat
  BY <1>1, Holding
<1>3. r.pc = "head" /\ UNCHANGED <<matter, bucket, faults>>
  BY <1>1 DEF PrepareAudit, Quiet
<1>0. PICK next \in Pcs : next = IF r.op \in {"snapshot", "output"} THEN "put" ELSE "commit"
  BY DEF Pcs
<1>4. PICK q : q = [r EXCEPT !.head = Len(chain), !.pc = next]
  OBVIOUS
<1>5. Become(c, q)
  BY <1>0, <1>1, <1>4 DEF PrepareAudit
<1>6. /\ q \in Locals /\ q.pc = next /\ q.op = r.op /\ q.rev = r.rev /\ q.id = r.id
      /\ q.status = r.status /\ q.alone = r.alone /\ q.current = r.current /\ q.about = r.about
      /\ q.format = r.format /\ q.actor = r.actor /\ q.to = r.to /\ q.through = r.through
      /\ q.head = Len(chain)
  BY <1>2, <1>4 DEF Locals
<1>7. Holds(q)
  BY <1>0, <1>1, <1>3, <1>6 DEF Holds
<1>8. Undone(q)
  BY <1>0, <1>1, <1>3, <1>6 DEF Undone
<1> QED BY <1>2, <1>3, <1>5, <1>6, <1>7, <1>8, OneStep

\* The object is put before the batch.
LEMMA PutKept ==
    ASSUME GovInv, NEW c \in Clients, Put(c)
    PROVE  GovInv'
<1>1. PICK r \in Locals : r = req[c] /\ Holds(r) /\ Undone(r)
  BY Holding
<1>2. /\ \A d \in Clients : d # c /\ r.id # None => req[d].id # r.id
      /\ bucket \subseteq Snapshots \cup Outputs /\ faults \in 0 .. MaxFaults
  BY <1>1, Holding
<1>3. r.pc = "put" /\ UNCHANGED matter
  BY <1>1 DEF Put
<1>4. r.id \in Snapshots \cup Outputs /\ r.op \in {"snapshot", "output"}
  BY <1>1, <1>3 DEF Holds
<1>5. bucket' \subseteq Snapshots \cup Outputs
  BY <1>1, <1>2, <1>4 DEF Put
<1>6. faults' \in 0 .. MaxFaults
  BY <1>2, GovernanceAssumption DEF Put, Fault, GovernanceAssumption
<1>7. CASE Answer(c)
  BY <1>3, <1>5, <1>6, <1>7, AnswerKept
<1>8. CASE Become(c, [req[c] EXCEPT !.pc = "commit"])
  <2>1. PICK q : q = [r EXCEPT !.pc = "commit"]
    OBVIOUS
  <2>2. /\ q \in Locals /\ q.pc = "commit" /\ q.op = r.op /\ q.rev = r.rev /\ q.id = r.id
        /\ q.status = r.status /\ q.alone = r.alone /\ q.current = r.current /\ q.about = r.about
        /\ q.format = r.format /\ q.through = r.through /\ q.head = r.head
    BY <2>1 DEF Locals, Pcs
  <2>3. Become(c, q)
    BY <1>1, <1>8, <2>1
  <2>4. Holds(q)
    BY <1>1, <1>3, <1>4, <2>2 DEF Holds
  <2>5. Undone(q)
    BY <1>1, <1>3, <1>4, <2>2 DEF Undone
  <2> QED BY <1>2, <1>3, <1>5, <1>6, <2>2, <2>3, <2>4, <2>5, OneStep
<1> QED BY <1>7, <1>8 DEF Put

\* What is left after a batch that threw.
LEMMA ThrownHeld ==
    ASSUME GovInv, NEW c \in Clients, req[c].pc = "commit"
    PROVE  \E q \in Locals : /\ q = Thrown(c) /\ Holds(q) /\ Undone(q) /\ q.pc \in {"idle", "cleanup"}
                             /\ q.id \in {None, req[c].id}
<1>1. PICK r \in Locals : r = req[c] /\ Holds(r) /\ Undone(r)
  BY Holding
<1>2. CASE r.op \in {"snapshot", "output"}
  <2>1. PICK q : q = [r EXCEPT !.pc = "cleanup"]
    OBVIOUS
  <2>2. /\ q \in Locals /\ q.pc = "cleanup" /\ q.op = r.op /\ q.rev = r.rev /\ q.id = r.id
        /\ q.about = r.about /\ q.format = r.format
    BY <2>1 DEF Locals, Pcs
  <2>3. q = Thrown(c)
    BY <1>1, <1>2, <2>1 DEF Thrown
  <2>4. Holds(q)
    BY <1>1, <1>2, <2>2 DEF Holds
  <2>5. Undone(q)
    BY <2>2 DEF Undone
  <2> QED BY <1>1, <2>2, <2>3, <2>4, <2>5
<1>3. CASE r.op \notin {"snapshot", "output"}
  <2>1. Thrown(c) = Blank
    BY <1>1, <1>3 DEF Thrown
  <2>2. Blank.pc = "idle" /\ TypeOK
    BY DEF Blank, GovInv
  <2> QED BY <2>1, <2>2, BlankHeld
<1> QED BY <1>2, <1>3

\* A batch is refused.
LEMMA RefusedKept ==
    ASSUME GovInv, NEW c \in Clients, req[c].pc = "commit", Become(c, Thrown(c)),
           UNCHANGED <<matter, bucket>>, faults' \in 0 .. MaxFaults
    PROVE  GovInv'
<1>1. PICK q \in Locals : /\ q = Thrown(c) /\ Holds(q) /\ Undone(q) /\ q.pc \in {"idle", "cleanup"}
                          /\ q.id \in {None, req[c].id}
  BY ThrownHeld
<1>2. /\ \A d \in Clients : d # c /\ req[c].id # None => req[d].id # req[c].id
      /\ bucket \subseteq Snapshots \cup Outputs
  BY Holding
<1> QED BY <1>1, <1>2, OneStep

\* The objects of a batch that threw are deleted.
LEMMA CleanupKept ==
    ASSUME GovInv, NEW c \in Clients, Cleanup(c)
    PROVE  GovInv'
<1>1. bucket \subseteq Snapshots \cup Outputs /\ faults \in 0 .. MaxFaults
  BY Holding
<1>2. bucket' \subseteq Snapshots \cup Outputs /\ UNCHANGED matter /\ Answer(c)
  BY <1>1 DEF Cleanup
<1>3. faults' \in 0 .. MaxFaults
  BY <1>1, GovernanceAssumption DEF Cleanup, Fault, GovernanceAssumption
<1> QED BY <1>2, <1>3, AnswerKept

-----------------------------------------------------------------------------
(* A batch is applied while other requests are in flight.                  *)

\* What another request holds.
LEMMA OthersHold ==
    ASSUME GovInv, NEW x, Batch(x), NEW q \in Locals, Holds(q), q.id # None => q.id # x
    PROVE  Holds(q)'
<1>1. PICK e : Effect(e)
  BY DEF Batch
<1>2. TypeOK /\ Tables /\ Grows(e) /\ ChainOrdered
  BY <1>1 DEF GovInv, Tables, Effect
<1>3. PICK n \in Nat : /\ DOMAIN chain = 1 .. n /\ DOMAIN chain' = 1 .. n + 1
                       /\ \A i \in 1 .. n : chain'[i] = chain[i]
                       /\ chain'[n + 1] = e
                       /\ \A i \in 1 .. n : chain[i].rev <= revision
                       /\ revision \in Int /\ revision' \in {revision, revision + 1}
                       /\ e.rev = revision' /\ e \in Events
                       /\ \A i \in 1 .. n : chain[i] \in Events
  BY <1>2, EntriesKept
<1>4. Len(chain) = n /\ Len(chain') = n + 1
  <2>1. /\ DOMAIN chain = 1 .. Len(chain) /\ Len(chain') = Len(chain) + 1 /\ Len(chain) \in Nat
    BY <1>2, Longer DEF Grows
  <2> QED BY <1>3, <2>1
<1>5. q.rev \in Int /\ revision' >= revision
  <2>1. Revisions \subseteq Int
    BY GovernanceAssumption DEF Revisions, GovernanceAssumption
  <2>2. q.rev \in Int
    BY <2>1 DEF Locals
  <2> QED BY <1>3, <2>2
<1>6. ASSUME q.pc # "idle"
      PROVE  /\ q.rev <= revision'
             /\ q.op \in {"write", "transition"} => q.rev < MaxRevision
             /\ q.op = "snapshot" =>
                   q.id \in Snapshots /\ (q.pc # "cleanup" => snapshot'[q.id] = None)
             /\ q.op = "output" =>
                   /\ q.id \in Outputs /\ (q.pc # "cleanup" => output'[q.id] = None)
                   /\ q.about \in Snapshots /\ snapshot'[q.about] # None
                   /\ snapshot'[q.about].rev = q.rev /\ q.format \in Formats
             /\ q.op = "approve" =>
                   q.about \in Outputs /\ output'[q.about] # None /\ q.actor \in Actors
             /\ q.op = "transition" => q.actor \in Actors
  <2>1. q.rev <= revision'
    BY <1>3, <1>5, <1>6 DEF Holds
  <2>2. q.op = "snapshot" =>
            q.id \in Snapshots /\ (q.pc # "cleanup" => snapshot'[q.id] = None)
    BY <1>6, GovernanceAssumption DEF Holds, Batch, Draws, GovernanceAssumption
  <2>3. q.op = "output" =>
            /\ q.id \in Outputs /\ (q.pc # "cleanup" => output'[q.id] = None)
            /\ q.about \in Snapshots /\ snapshot'[q.about] # None
            /\ snapshot'[q.about].rev = q.rev /\ q.format \in Formats
    BY <1>2, <1>6, GovernanceAssumption DEF Holds, Batch, Draws, GovernanceAssumption, Grows
  <2>4. q.op = "approve" => q.about \in Outputs /\ output'[q.about] # None /\ q.actor \in Actors
    BY <1>2, <1>6 DEF Holds, Grows
  <2> QED BY <1>6, <2>1, <2>2, <2>3, <2>4 DEF Holds
<1>7. ASSUME q.op = "snapshot", q.pc \in {"head", "put", "commit"}
      PROVE  /\ q.through \in 0 .. n + 1
             /\ \A j \in 1 .. n + 1 :
                   j > q.through /\ chain'[j].type \in Moves => chain'[j].rev > q.rev
  <2>1. /\ q.through \in 0 .. n
        /\ \A j \in 1 .. n : j > q.through /\ chain[j].type \in Moves => chain[j].rev > q.rev
    BY <1>3, <1>4, <1>7 DEF Holds
  <2>2. e.type \in Moves => e.rev > q.rev
    <3>1. q.rev <= revision
      BY <1>7 DEF Holds
    <3>2. e.type \in Moves => e.rev = revision + 1
      BY <1>2, <1>3 DEF Grows
    <3> QED BY <1>3, <1>5, <3>1, <3>2
  <2> QED BY <1>3, <2>1, <2>2
<1>8. /\ q.pc \in {"put", "cleanup"} => q.op \in {"snapshot", "output"}
      /\ q.pc = "manifest" => q.op = "output"
      /\ q.pc = "approvals" => q.op = "transition"
      /\ q.op = "transition" /\ q.pc \in {"head", "commit"} /\ q.to = "output_approved" =>
            q.status = "internal_review"
  BY DEF Holds
<1>9. Moves' = Moves
  BY DEF Moves
<1> QED BY <1>3, <1>4, <1>6, <1>7, <1>8, <1>9 DEF Holds

\* The whole step.
LEMMA AppliedKept ==
    ASSUME GovInv, NEW c \in Clients, req[c].pc = "commit", Applied(c),
           NEW q \in Locals, BecomeApplied(c, q), Holds(q), q.pc \in {"idle", "cleanup"},
           q.pc = "idle" => q = Blank, q.id \in {None, req[c].id},
           UNCHANGED bucket, faults' \in 0 .. MaxFaults
    PROVE  GovInv'
<1>1. TypeOK /\ Tables /\ HeldOK /\ IdsApart
  BY DEF GovInv
<1>2. PICK x : x = req[c].id
  OBVIOUS
<1>3. Batch(x)
  BY <1>1, <1>2, AppliedEffect DEF HeldOK
<1>4. Tables'
  BY <1>1, <1>3, TablesKept DEF Batch
<1>5. ASSUME NEW d \in Clients
      PROVE  /\ req'[d] \in Locals /\ req'[d].id \in {None, req[d].id}
             /\ Holds(req[d])' /\ Undone(req[d])'
  <2>1. PICK h : h = req'[d]
    OBVIOUS
  <2>2. CASE d = c
    <3>1. h = q
      BY <2>1, <2>2 DEF BecomeApplied
    <3>2. Holds(h)'
      <4>1. CASE q = Blank
        <5>1. q.pc = "idle" /\ q.op = "write"
          BY <4>1 DEF Blank
        <5> QED BY <3>1, <5>1 DEF Holds
      <4>2. CASE q # Blank
        <5>1. q.pc = "cleanup" /\ q.op \in {"snapshot", "output"}
          BY <4>2 DEF Holds
        <5>2. PICK e : Effect(e)
          BY <1>3 DEF Batch
        <5>3. /\ \A s \in Snapshots : snapshot[s] # None => snapshot'[s] = snapshot[s]
              /\ revision' >= revision
          BY <1>1, <5>2, Fields DEF Effect, Grows
        <5>4. q.rev \in Nat /\ revision \in Nat /\ revision' \in Nat
          BY <1>1, <1>3, Fields DEF Locals, Batch, TablesTyped
        <5>5. q.rev <= revision'
          BY <5>1, <5>3, <5>4 DEF Holds
        <5> QED BY <3>1, <5>1, <5>3, <5>5 DEF Holds
      <4> QED BY <4>1, <4>2
    <3>3. Undone(h)'
      BY <3>1 DEF Undone
    <3> QED BY <2>1, <2>2, <3>1, <3>2, <3>3
  <2>3. CASE d # c
    <3>1. PICK r \in Locals : r = req[d] /\ Holds(r) /\ Undone(r)
      BY <1>1 DEF TypeOK, HeldOK
    <3>2. PICK v \in BOOLEAN : v = (r.pc = "idle")
      OBVIOUS
    <3>3. h = [r EXCEPT !.alone = v]
      BY <2>1, <2>3, <3>1, <3>2 DEF BecomeApplied
    <3>4. /\ h \in Locals /\ h.pc = r.pc /\ h.op = r.op /\ h.rev = r.rev /\ h.id = r.id
          /\ h.status = r.status /\ h.current = r.current /\ h.about = r.about /\ h.to = r.to
          /\ h.format = r.format /\ h.actor = r.actor /\ h.through = r.through
          /\ h.alone = v
      BY <3>3 DEF Locals
    <3>5. Holds(h)
      BY <3>1, <3>4 DEF Holds
    <3>6. h.id # None => h.id # x
      BY <1>1, <1>2, <2>3, <3>1, <3>4 DEF IdsApart
    <3>7. Holds(h)'
      BY <1>3, <3>4, <3>5, <3>6, OthersHold
    <3>8. Undone(h)'
      BY <3>2, <3>4 DEF Undone
    <3> QED BY <2>1, <3>1, <3>4, <3>7, <3>8
  <2> QED BY <2>2, <2>3
<1>6. HeldOK'
  BY <1>5 DEF HeldOK
<1>7. ASSUME NEW d \in Clients, NEW f \in Clients, d # f, req'[d].id # None
      PROVE  req'[d].id # req'[f].id
  BY <1>1, <1>5, <1>7 DEF IdsApart
<1>8. IdsApart'
  BY <1>7 DEF IdsApart
<1>9. TypeOK'
  <2>1. req' = [d \in Clients |-> req'[d]]
    BY DEF BecomeApplied
  <2>2. req' \in [Clients -> Locals]
    BY <1>5, <2>1
  <2> QED BY <1>1, <1>3, <2>2 DEF TypeOK, Batch, TablesTyped
<1> QED BY <1>4, <1>6, <1>8, <1>9 DEF GovInv

\* A batch is sent.
LEMMA CommitKept ==
    ASSUME GovInv, NEW c \in Clients, Commit(c) \/ CommitRefused(c) \/ CommitLost(c)
    PROVE  GovInv'
<1>1. /\ faults \in 0 .. MaxFaults /\ req[c].pc = "commit"
      /\ faults' \in 0 .. MaxFaults /\ UNCHANGED bucket
  BY Holding, GovernanceAssumption
  DEF Commit, CommitRefused, CommitLost, Quiet, Fault, GovernanceAssumption
<1>2. PICK q \in Locals : /\ q = Thrown(c) /\ Holds(q) /\ Undone(q) /\ q.pc \in {"idle", "cleanup"}
                          /\ q.id \in {None, req[c].id}
  BY <1>1, ThrownHeld
<1>3. q.pc = "idle" => q = Blank
  <2>1. PICK r \in Locals : r = req[c]
    BY Holding
  <2>2. [r EXCEPT !.pc = "cleanup"].pc = "cleanup"
    BY DEF Locals
  <2> QED BY <1>2, <2>1, <2>2 DEF Thrown
<1>4. CASE Applied(c) /\ BecomeApplied(c, Thrown(c))
  BY <1>1, <1>2, <1>3, <1>4, AppliedKept
<1>5. CASE Applied(c) /\ BecomeApplied(c, Blank)
  <2>1. PICK b \in Locals : b = Blank /\ Holds(b) /\ b.id = None
    BY BlankHeld DEF GovInv
  <2>2. b.pc = "idle"
    BY <2>1 DEF Blank
  <2> QED BY <1>1, <1>5, <2>1, <2>2, AppliedKept
<1>6. CASE UNCHANGED matter /\ Become(c, Thrown(c))
  BY <1>1, <1>6, RefusedKept
<1> QED BY <1>4, <1>5, <1>6 DEF Commit, CommitRefused, CommitLost, Quiet

-----------------------------------------------------------------------------
(* The invariant.                                                          *)

\* One entry, no rows, nothing in flight.
LEMMA InitGov == Init => GovInv
<1> SUFFICES ASSUME Init PROVE GovInv
  OBVIOUS
<1>1. /\ revision = Start /\ status = "internal_review" /\ receipts = {Start}
      /\ chain = <<Event(Start, "transition", None, None, {})>>
      /\ snapshot = [s \in Snapshots |-> None] /\ output = [o \in Outputs |-> None]
      /\ approvals = {} /\ bucket = {} /\ req = [c \in Clients |-> Blank] /\ faults = 0
  BY DEF Init
<1>2. Start \in Revisions /\ Revisions \subseteq Nat /\ 0 \in 0 .. MaxFaults
  BY GovernanceAssumption DEF Revisions, GovernanceAssumption
<1>3. PICK e \in Events :
          /\ e = Event(Start, "transition", None, None, {}) /\ e.rev = Start
          /\ e.type = "transition" /\ e.ref = None /\ e.stale = {}
  <2> DEFINE e == Event(Start, "transition", None, None, {})
  <2>1. e \in Events
    BY <1>2 DEF Event, Events
  <2>2. e.rev = Start /\ e.type = "transition" /\ e.ref = None /\ e.stale = {}
    BY DEF Event
  <2> QED BY <2>1, <2>2
<1>4. chain = <<e>> /\ chain \in Seq(Events) /\ Len(chain) = 1 /\ DOMAIN chain = {1} /\ chain[1] = e
  BY <1>1, <1>3
<1>5. PICK b \in Locals : b = Blank /\ b.pc = "idle" /\ b.op = "write" /\ b.id = None
  <2>1. Blank \in Locals
    BY <1>2 DEF Blank, Locals, Pcs, Ops, Statuses
  <2> QED BY <2>1 DEF Blank
<1>6. TypeOK
  <2>1. req \in [Clients -> Locals]
    BY <1>1, <1>5
  <2>2. status \in Statuses
    BY <1>1 DEF Statuses
  <2> QED BY <1>1, <1>2, <1>4, <2>1, <2>2 DEF TypeOK
<1>7. ChainOrdered
  <2>1. receipts = Start .. revision /\ Start .. revision = {Start}
    BY <1>1, <1>2
  <2>2. chain[1].type \in Moves /\ chain[1].rev = Start
    BY <1>3, <1>4 DEF Moves
  <2>3. \A i, j \in DOMAIN chain : ~(i < j)
    BY <1>4
  <2> QED BY <1>4, <2>1, <2>2, <2>3 DEF ChainOrdered
<1>8. SealsTold
  <2>1. chain[1].type # "sealed"
    BY <1>3, <1>4
  <2> QED BY <1>1, <1>4, <2>1 DEF SealsTold
<1>9. OutputsSealed /\ ApprovalsTold /\ OutputsTold
  <2>1. chain[1].type # "generated" /\ chain[1].stale = {}
    BY <1>3, <1>4
  <2> QED BY <1>1, <1>4, <2>1 DEF OutputsSealed, ApprovalsTold, OutputsTold, Told
<1>10. ApprovalsStand /\ ApprovedAsReviewed
  BY <1>3, <1>4 DEF ApprovalsStand, ApprovedAsReviewed
<1>11. OutputsFresh
  <2>1. Current = {}
    BY <1>1 DEF Current
  <2> QED BY <2>1 DEF OutputsFresh
<1>12. Tables
  BY <1>7, <1>8, <1>9, <1>10, <1>11 DEF Tables
<1>13. HeldOK
  <2>1. \A c \in Clients : req[c] = b
    BY <1>1, <1>5
  <2>2. Holds(b)
    BY <1>5 DEF Holds
  <2>3. Undone(b)
    BY <1>5 DEF Undone
  <2> QED BY <2>1, <2>2, <2>3 DEF HeldOK
<1>14. IdsApart
  BY <1>1, <1>5 DEF IdsApart
<1> QED BY <1>6, <1>12, <1>13, <1>14 DEF GovInv

\* Every step keeps it.
LEMMA NextGov == GovInv /\ [Next]_vars => GovInv'
<1> SUFFICES ASSUME GovInv, [Next]_vars PROVE GovInv'
  OBVIOUS
<1>1. ASSUME NEW c \in Clients, Step(c) PROVE GovInv'
  <2>1. CASE BeginSome(c)
    BY <2>1, BeginKept
  <2>2. CASE ReadFacts(c)
    BY <2>2, FactsKept
  <2>3. CASE Decide(c)
    BY <2>3, DecideKept
  <2>4. CASE ReadManifest(c)
    BY <2>4, ManifestKept
  <2>5. CASE PrepareAudit(c)
    BY <2>5, AuditKept
  <2>6. CASE Put(c)
    BY <2>6, PutKept
  <2>7. CASE Commit(c) \/ CommitRefused(c) \/ CommitLost(c)
    BY <2>7, CommitKept
  <2>8. CASE Cleanup(c)
    BY <2>8, CleanupKept
  <2> QED BY <1>1, <2>1, <2>2, <2>3, <2>4, <2>5, <2>6, <2>7, <2>8 DEF Step
<1>2. CASE UNCHANGED vars
  <2>1. UNCHANGED <<matter, bucket, req, faults>>
    BY <1>2 DEF vars
  <2>2. Tables'
    BY <2>1, TablesStay DEF GovInv
  <2>3. TypeOK'
    BY <2>1 DEF GovInv, TypeOK, matter
  <2>4. ASSUME NEW c \in Clients PROVE Holds(req[c])' /\ Undone(req[c])'
    <3>1. PICK h : h = req[c]
      OBVIOUS
    <3>2. Holds(h)' /\ Undone(h)'
      BY <2>1, <3>1, HeldStays DEF GovInv, HeldOK
    <3>3. h = req'[c]
      BY <2>1, <3>1
    <3> QED BY <3>2, <3>3
  <2>5. HeldOK' /\ IdsApart'
    BY <2>1, <2>4 DEF HeldOK, GovInv, IdsApart
  <2> QED BY <2>2, <2>3, <2>5 DEF GovInv
<1> QED BY <1>1, <1>2 DEF Next

\* It always holds.
THEOREM Agreement == Spec => []GovInv
BY InitGov, NextGov, PTL DEF Spec

-----------------------------------------------------------------------------
(* What follows.                                                           *)

\* Every variable holds a value of its kind, with any number of requests in flight.
THEOREM GovernanceTyped == Spec => []TypeOK
<1>1. GovInv => TypeOK
  BY DEF GovInv
<1> QED BY <1>1, Agreement, PTL

\* Every revision was reached by one accepted write or transition, in order: the receipt and the
\* audit chain's guard serialise the batches, whichever requests are in flight.
THEOREM RevisionsCovered == Spec => []ChainCoversRevisions
<1>1. ASSUME GovInv PROVE ChainCoversRevisions
  <2>1. TypeOK /\ ChainOrdered
    BY <1>1 DEF GovInv, Tables
  <2>2. /\ revision \in Nat /\ Start \in Nat /\ Start <= revision
        /\ DOMAIN chain = 1 .. Len(chain) /\ Len(chain) \in Nat
    BY <2>1, GovernanceAssumption DEF TypeOK, Revisions, GovernanceAssumption
  <2>3. \A i \in 1 .. Len(chain) : chain[i].rev \in Start .. revision
    BY <2>1, <2>2 DEF ChainOrdered
  <2>4. ASSUME NEW r \in Start .. revision
        PROVE  Cardinality({i \in DOMAIN chain : chain[i].type \in Moves /\ chain[i].rev = r}) = 1
    <3> DEFINE M == {i \in DOMAIN chain : chain[i].type \in Moves /\ chain[i].rev = r}
    <3>1. PICK i \in 1 .. Len(chain) : chain[i].type \in Moves /\ chain[i].rev = r
      BY <2>1, <2>2 DEF ChainOrdered
    <3>2. ASSUME NEW j \in M PROVE j = i
      <4>1. j \in 1 .. Len(chain) /\ chain[j].type \in Moves /\ chain[j].rev = r
        BY <2>2
      <4>2. ~(i < j) /\ ~(j < i)
        <5>1. i \in DOMAIN chain /\ j \in DOMAIN chain /\ r \in Int
          BY <2>2, <4>1
        <5>2. i < j => r < r
          BY <2>1, <3>1, <4>1, <5>1 DEF ChainOrdered
        <5>3. j < i => r < r
          BY <2>1, <3>1, <4>1, <5>1 DEF ChainOrdered
        <5> QED BY <5>1, <5>2, <5>3
      <4> QED BY <4>1, <4>2
    <3>3. M = {i}
      BY <2>2, <3>1, <3>2
    <3> QED BY <3>3, FS_Singleton
  <2>5. \A i \in 1 .. Len(chain) - 1 : chain[i].rev <= chain[i + 1].rev
    <3> SUFFICES ASSUME NEW i \in 1 .. Len(chain) - 1 PROVE chain[i].rev <= chain[i + 1].rev
      OBVIOUS
    <3>1. i \in DOMAIN chain /\ i + 1 \in DOMAIN chain /\ i < i + 1
      BY <2>2
    <3> QED BY <2>1, <3>1 DEF ChainOrdered
  <2>6. chain[Len(chain)].rev <= revision
    <3>1. PICK i \in 1 .. Len(chain) : chain[i].rev = revision
      BY <2>1, <2>2 DEF ChainOrdered
    <3>2. Len(chain) \in 1 .. Len(chain)
      BY <2>2
    <3> QED BY <2>2, <2>3, <3>2
  <2> QED BY <2>4, <2>5, <2>6 DEF ChainCoversRevisions
<1> QED BY <1>1, Agreement, PTL

\* Current outputs report the live revision, but for those that stay after its approval.
THEOREM OutputsReport == Spec => []OutputsFresh
<1>1. GovInv => OutputsFresh
  BY DEF GovInv, Tables
<1> QED BY <1>1, Agreement, PTL

\* What is approved was sealed, reported and approved by the same reviewer with no move between.
THEOREM ReviewStands == Spec => []ApprovedAsReviewed
<1>1. GovInv => ApprovedAsReviewed
  BY DEF GovInv, Tables
<1> QED BY <1>1, Agreement, PTL

\* A seal covers every move before it, though revision, boundary and head are read apart.
THEOREM SealsCover == Spec => []SealCoversWrites
<1>1. GovInv => SealCoversWrites
  BY DEF GovInv, Tables, SealsTold, SealCoversWrites
<1> QED BY <1>1, Agreement, PTL

\* The audit chain alone tells which outputs were made and which of them are stale.
THEOREM ChainTells == Spec => []ChainTellsOutputs
<1>1. ASSUME GovInv, NEW o \in Outputs
      PROVE  LET born == {i \in DOMAIN chain : chain[i].type = "generated" /\ chain[i].ref = o}
                 marked == {i \in DOMAIN chain : o \in chain[i].stale}
             IN  IF output[o] = None
                 THEN born \cup marked = {}
                 ELSE /\ Cardinality(born) = 1
                      /\ Cardinality(marked) = IF output[o].state = "stale" THEN 1 ELSE 0
                      /\ \A i \in born, j \in marked : i < j
  <2> DEFINE born == {i \in DOMAIN chain : chain[i].type = "generated" /\ chain[i].ref = o}
             marked == {i \in DOMAIN chain : o \in chain[i].stale}
  <2>1. Told(o) /\ TypeOK
    BY <1>1 DEF GovInv, Tables, OutputsTold
  <2>2. CASE output[o] = None
    BY <2>1, <2>2 DEF Told
  <2>3. CASE output[o] # None
    <3>1. PICK b \in DOMAIN chain : History(o, b)
      BY <2>1, <2>3 DEF Told
    <3>2. born = {b}
      BY <3>1 DEF History
    <3>3. Cardinality(born) = 1
      BY <3>2, FS_Singleton
    <3>4. output[o].state \in {"current", "stale"}
      BY <2>1, <2>3 DEF TypeOK, Generated
    <3>5. CASE output[o].state = "current"
      <4>1. marked = {}
        BY <3>1, <3>5 DEF History
      <4>2. Cardinality(marked) = 0
        BY <4>1, FS_EmptySet
      <4> QED BY <2>3, <3>3, <3>5, <4>1, <4>2
    <3>6. CASE output[o].state = "stale"
      <4>1. PICK m \in DOMAIN chain : b < m /\ \A i \in DOMAIN chain : o \in chain[i].stale <=> i = m
        BY <3>1, <3>6 DEF History
      <4>2. marked = {m}
        BY <4>1
      <4>3. Cardinality(marked) = 1
        BY <4>2, FS_Singleton
      <4> HIDE DEF born, marked
      <4>4. \A i \in born, j \in marked : i < j
        BY <3>2, <4>1, <4>2
      <4> QED BY <2>3, <3>3, <3>6, <4>3, <4>4 DEF born, marked
    <3> QED BY <3>4, <3>5, <3>6
  <2> QED BY <2>2, <2>3
<1>2. GovInv => ChainTellsOutputs
  BY <1>1 DEF ChainTellsOutputs
<1> QED BY <1>2, Agreement, PTL

\* The triggers refuse no update, seal, output or approval that the handler allowed and no other
\* batch came before.
THEOREM HandlersAgree == Spec => []UndisturbedSucceeds
<1>1. ASSUME GovInv, NEW c \in Clients, Undisturbed(c), req[c].op # "transition"
      PROVE  Accepted(c)
  <2>1. PICK q \in Locals : q = req[c] /\ Holds(q) /\ Undone(q)
    BY <1>1, Holding
  <2>2. q.pc = "commit" /\ q.alone /\ q.op \in {"snapshot", "output", "approve", "write"}
    BY <1>1, <2>1 DEF Undisturbed, Locals, Ops
  <2>3. q.rev = revision /\ q.status = status /\ q.head = Len(chain) /\ revision \in Nat
    BY <1>1, <2>2, <2>1, Fields DEF Undone, GovInv
  <2>4. CASE q.op = "snapshot"
    BY <2>1, <2>3, <2>4 DEF Accepted, SealAccepted, ExtendsChain
  <2>5. CASE q.op = "output"
    <3>1. snapshot[q.about].rev = revision /\ q.current \subseteq Current
      BY <2>1, <2>2, <2>3, <2>5 DEF Holds, Undone
    <3> QED BY <2>1, <2>3, <2>5, <3>1 DEF Accepted, GenerateAccepted, ExtendsChain, AllStillCurrent
  <2>6. CASE q.op = "approve"
    <3>1. q.about \in Current /\ <<q.about, q.actor>> \notin approvals
      BY <2>1, <2>2, <2>6 DEF Undone
    <3> QED BY <2>1, <2>3, <2>6, <3>1 DEF Accepted, ApproveAccepted, ExtendsChain
  <2>7. CASE q.op = "write"
    <3>1. q.current = Current
      BY <2>1, <2>2, <2>7 DEF Undone
    <3>2. receipts = Start .. revision
      BY <1>1 DEF GovInv, Tables, ChainOrdered
    <3>3. revision + 1 \notin receipts
      BY <2>3, <3>2
    <3>4. Moved(c) = revision + 1
      BY <2>1, <2>3 DEF Moved
    <3> QED BY <2>1, <2>3, <2>7, <3>1, <3>3, <3>4
            DEF Accepted, WriteAccepted, ExtendsChain, AllStillCurrent, ReceiptAccepted
  <2> QED BY <2>2, <2>4, <2>5, <2>6, <2>7
<1>2. GovInv => UndisturbedSucceeds
  BY <1>1 DEF UndisturbedSucceeds
<1> QED BY <1>2, Agreement, PTL

-----------------------------------------------------------------------------
(* What a step does to the tables.                                         *)

\* It leaves them alone, or one batch has its effect on them.
LEMMA StepEffect ==
    ASSUME GovInv, [Next]_vars
    PROVE  UNCHANGED matter \/ \E e : Effect(e)
<1>1. CASE UNCHANGED vars
  BY <1>1 DEF vars
<1>2. ASSUME NEW c \in Clients, Step(c)
      PROVE  UNCHANGED matter \/ \E e : Effect(e)
  <2>1. CASE Commit(c) \/ CommitRefused(c) \/ CommitLost(c)
    <3>1. req[c].pc = "commit"
      BY <2>1 DEF Commit, CommitRefused, CommitLost
    <3>2. CASE Applied(c)
      <4>1. TypeOK /\ Tables /\ Holds(req[c])
        BY DEF GovInv, HeldOK
      <4> QED BY <3>1, <3>2, <4>1, AppliedEffect DEF Batch
    <3>3. CASE ~Applied(c)
      BY <2>1, <3>3 DEF Commit, CommitRefused, CommitLost, Quiet
    <3> QED BY <3>2, <3>3
  <2>2. CASE BeginSome(c)
    BY <2>2 DEF BeginSome, BeginSnapshot, BeginOutput, BeginApproval, BeginWrite, BeginTransition,
                Quiet
  <2>3. CASE ReadFacts(c) \/ Decide(c) \/ ReadManifest(c) \/ PrepareAudit(c)
    BY <2>3 DEF ReadFacts, Decide, ReadManifest, PrepareAudit, Quiet
  <2>4. CASE Put(c) \/ Cleanup(c)
    BY <2>4 DEF Put, Cleanup
  <2> QED BY <1>2, <2>1, <2>2, <2>3, <2>4 DEF Step
<1> QED BY <1>1, <1>2 DEF Next

\* What was recorded is never rewritten, by whatever batches of whatever requests: the audit chain
\* only grows at its end, a snapshot stays as it was sealed, an approval is not withdrawn, and an
\* output only ever becomes stale.
HistoryStands ==
    [][/\ \A i \in DOMAIN chain : i \in DOMAIN chain' /\ chain'[i] = chain[i]
       /\ approvals \subseteq approvals'
       /\ \A s \in Snapshots : snapshot[s] # None => snapshot'[s] = snapshot[s]
       /\ \A o \in Outputs : output[o] # None =>
             /\ output'[o] # None /\ output'[o].snapshot = output[o].snapshot
             /\ output'[o].state \in {output[o].state, "stale"}]_vars

THEOREM HistoryIsKept == Spec => HistoryStands
<1> DEFINE Stands ==
       /\ \A i \in DOMAIN chain : i \in DOMAIN chain' /\ chain'[i] = chain[i]
       /\ approvals \subseteq approvals'
       /\ \A s \in Snapshots : snapshot[s] # None => snapshot'[s] = snapshot[s]
       /\ \A o \in Outputs : output[o] # None =>
             /\ output'[o] # None /\ output'[o].snapshot = output[o].snapshot
             /\ output'[o].state \in {output[o].state, "stale"}
<1>1. ASSUME GovInv, [Next]_vars PROVE Stands
  <2>1. CASE UNCHANGED matter
    BY <2>1 DEF matter
  <2>2. CASE \E e : Effect(e)
    <3>1. PICK e : Effect(e)
      BY <2>2
    <3>2. TypeOK /\ Grows(e)
      BY <1>1, <3>1 DEF GovInv, Effect
    <3>3. \A i \in DOMAIN chain : i \in DOMAIN chain' /\ chain'[i] = chain[i]
      BY <3>2, Longer DEF Grows
    <3>4. approvals \subseteq approvals'
      BY <3>1 DEF Effect, Seals, Generates, Approves, MovesOn, ApprovesMatter
    <3> QED BY <3>2, <3>3, <3>4 DEF Grows
  <2> QED BY <1>1, <2>1, <2>2, StepEffect
<1> QED BY <1>1, Agreement, PTL DEF Spec, HistoryStands

-----------------------------------------------------------------------------
(* The governed Matter is the compare-and-set ledger.                      *)

\* A move in the chain, as a write of the ledger: its receipt is its key, it was made at the
\* revision before.
MoveOf(e) == [key |-> e.rev, expected |-> e.rev - 1, entry |-> e]

Ledger == INSTANCE MatterLedger WITH
    Origin <- Start,
    Entries <- {MoveOf(e) : e \in Events},
    log <- {MoveOf(chain[i]) : i \in {j \in DOMAIN chain : j > 1 /\ chain[j].type \in Moves}}

\* Updates and transitions form one log with an entry for each revision; seals, outputs and
\* approvals leave it and the revision alone, whatever they read in between.
GovernanceImplementsLedger == Ledger!Spec

THEOREM MatterIsLedger == Spec => GovernanceImplementsLedger
<1> DEFINE L == {j \in DOMAIN chain : j > 1 /\ chain[j].type \in Moves}
           log == {MoveOf(chain[i]) : i \in L}
<1>1. Init => Ledger!Init
  <2> SUFFICES ASSUME Init PROVE Ledger!Init
    OBVIOUS
  <2>1. DOMAIN chain = {1}
    BY DEF Init
  <2>2. L = {}
    BY <2>1
  <2> QED BY <2>2 DEF Init, Ledger!Init
<1>2. ASSUME GovInv, [Next]_vars PROVE [Ledger!Next]_Ledger!ledgerVars
  <2>1. CASE UNCHANGED matter
    BY <2>1 DEF matter, Ledger!ledgerVars, MoveOf, Moves
  <2>2. CASE \E e : Effect(e)
    <3>1. PICK e : Grows(e)
      BY <2>2 DEF Effect
    <3>2. TypeOK /\ ChainOrdered /\ e \in Events /\ chain' = Append(chain, e)
      BY <1>2, <3>1 DEF GovInv, Tables, Grows
    <3>3. PICK n \in Nat : /\ DOMAIN chain = 1 .. n /\ DOMAIN chain' = 1 .. n + 1
                           /\ \A i \in 1 .. n : chain'[i] = chain[i]
                           /\ chain'[n + 1] = e
                           /\ \A i \in 1 .. n : chain[i].rev <= revision
                           /\ revision \in Int /\ revision' \in {revision, revision + 1}
                           /\ e.rev = revision' /\ e \in Events
                           /\ \A i \in 1 .. n : chain[i] \in Events
      BY <3>1, <3>2, EntriesKept
    <3>4. n >= 1
      <4>1. Start \in Int /\ Start <= revision
        BY <3>2, GovernanceAssumption DEF TypeOK, Revisions, GovernanceAssumption
      <4>2. \E i \in DOMAIN chain : chain[i].rev = Start
        BY <3>2, <4>1 DEF ChainOrdered
      <4> QED BY <3>3, <4>2
    <3>5. CASE e.type \notin Moves
      <4>1. revision' = revision
        BY <3>1, <3>5 DEF Grows
      <4>2. L' = L
        BY <3>3, <3>5 DEF Moves
      <4>3. \A i \in L : MoveOf(chain'[i]) = MoveOf(chain[i])
        BY <3>3
      <4>4. log' = log
        BY <4>2, <4>3 DEF MoveOf
      <4> QED BY <4>1, <4>4 DEF Ledger!ledgerVars
    <3>6. CASE e.type \in Moves
      <4>1. revision' = revision + 1 /\ e.rev = revision + 1
        BY <3>1, <3>3, <3>6 DEF Grows
      <4>2. L' = L \cup {n + 1}
        BY <3>3, <3>4, <3>6 DEF Moves
      <4>3. \A i \in L : chain'[i] = chain[i]
        BY <3>3
      <4>4. log' = log \cup {MoveOf(e)}
        BY <3>3, <4>2, <4>3 DEF MoveOf
      <4>5. MoveOf(e).key = revision + 1 /\ MoveOf(e).expected = revision
        BY <3>3, <4>1 DEF MoveOf
      <4>6. \A f \in log : f.key # MoveOf(e).key
        <5>1. ASSUME NEW i \in L PROVE MoveOf(chain[i]).key # revision + 1
          <6>1. chain[i].rev <= revision /\ chain[i].rev \in Int
            BY <3>2, <3>3, GovernanceAssumption DEF Events, Revisions, GovernanceAssumption
          <6> QED BY <3>3, <6>1 DEF MoveOf
        <5> QED BY <4>5, <5>1
      <4>7. Ledger!Append(MoveOf(e))
        BY <4>1, <4>4, <4>5, <4>6 DEF Ledger!Append
      <4> QED BY <3>2, <4>7 DEF Ledger!Next
    <3> QED BY <3>5, <3>6
  <2> QED BY <1>2, <2>1, <2>2, StepEffect
<1> QED BY <1>1, <1>2, Agreement, PTL DEF Spec, GovernanceImplementsLedger, Ledger!Spec

-----------------------------------------------------------------------------
(* Who may move the status.                                                *)

\* The registry has the edge a request decided on, for the role of its actor.
HasEdge(q) ==
    \E roles \in SUBSET Roles : <<q.status, q.to, roles>> \in Registry /\ Role[q.actor] \in roles
Decided(q) == q.op = "transition" /\ q.pc \in {"head", "commit"} => HasEdge(q)
DecisionsHeld == \A c \in Clients : Decided(req[c])

\* A request goes on, and no other one changes.
LEMMA DecidedStep ==
    ASSUME GovInv, DecisionsHeld, NEW c \in Clients, NEW q, Become(c, q), Decided(q)
    PROVE  DecisionsHeld'
BY DEF GovInv, TypeOK, DecisionsHeld, Become

\* A request that does not hold a decision to be committed.
LEMMA NothingDecided ==
    ASSUME NEW q, q.op # "transition" \/ q.pc \notin {"head", "commit"}
    PROVE  Decided(q)
BY DEF Decided

\* The start.
LEMMA InitDecided == Init => DecisionsHeld
<1>1. Blank.pc = "idle"
  BY DEF Blank
<1> QED BY <1>1 DEF Init, DecisionsHeld, Decided

\* What a batch leaves in memory.
LEMMA ThrownDecided ==
    ASSUME GovInv, NEW c \in Clients, NEW q \in {Blank, Thrown(c)}
    PROVE  Decided(q)
<1>1. Blank.pc = "idle" /\ req[c] \in Locals
  BY DEF Blank, GovInv, TypeOK
<1>2. [req[c] EXCEPT !.pc = "cleanup"].pc = "cleanup"
  BY <1>1 DEF Locals
<1> QED BY <1>1, <1>2, NothingDecided DEF Thrown

\* A decision is made on the edge, and kept until it is committed.
LEMMA NextDecided ==
    ASSUME GovInv, DecisionsHeld, [Next]_vars
    PROVE  DecisionsHeld'
<1>1. CASE UNCHANGED vars
  BY <1>1 DEF vars, DecisionsHeld
<1>2. ASSUME NEW c \in Clients, Step(c) PROVE DecisionsHeld'
  <2>1. PICK r \in Locals : r = req[c] /\ Holds(r) /\ Decided(r)
    BY Holding DEF DecisionsHeld
  <2>2. Decided(Blank)
    <3>1. Blank.pc = "idle"
      BY DEF Blank
    <3> QED BY <3>1 DEF Decided
  <2>3. ASSUME Answer(c) PROVE DecisionsHeld'
    BY <2>2, <2>3, DecidedStep DEF Answer
  <2>4. CASE BeginSome(c)
    <3>1. ASSUME NEW op \in Ops, NEW a \in Actors \cup {None}, NEW h, h = Read(c, op, a)
          PROVE  /\ h \in Locals /\ h.pc = "facts"
      <4>1. TypeOK
        BY DEF GovInv
      <4>2. PICK g \in Locals : g = Read(c, op, a) /\ g.pc = "facts"
        BY <4>1, ReadFields
      <4> QED BY <3>1, <4>2
    <3>2. \E q : Become(c, q) /\ q.pc = "facts"
      <4>1. CASE BeginSnapshot(c)
        <5>1. PICK h \in Locals : h = Read(c, "snapshot", None) /\ h.pc = "facts"
          BY <3>1 DEF Ops
        <5>2. PICK s \in FreshSnapshots : Become(c, [h EXCEPT !.id = s])
          BY <4>1, <5>1 DEF BeginSnapshot
        <5>3. [h EXCEPT !.id = s].pc = "facts"
          BY <5>1 DEF Locals
        <5> QED BY <5>2, <5>3
      <4>2. CASE BeginWrite(c)
        <5>1. PICK h \in Locals : h = Read(c, "write", None) /\ h.pc = "facts"
          BY <3>1 DEF Ops
        <5> QED BY <4>2, <5>1 DEF BeginWrite
      <4>3. ASSUME NEW s \in Snapshots, NEW f \in Formats, BeginOutput(c, s, f)
            PROVE  \E q : Become(c, q) /\ q.pc = "facts"
        <5>1. PICK h \in Locals : h = Read(c, "output", None) /\ h.pc = "facts"
          BY <3>1 DEF Ops
        <5>2. PICK o \in FreshOutputs :
                  Become(c, [h EXCEPT !.about = s, !.format = f, !.id = o,
                                 !.current = {p \in Outputs : output[p] # None}])
          BY <4>3, <5>1 DEF BeginOutput
        <5>3. [h EXCEPT !.about = s, !.format = f, !.id = o,
                                 !.current = {p \in Outputs : output[p] # None}].pc = "facts"
          BY <5>1 DEF Locals
        <5> QED BY <5>2, <5>3
      <4>4. ASSUME NEW a \in Actors, NEW o \in Outputs, BeginApproval(c, a, o)
            PROVE  \E q : Become(c, q) /\ q.pc = "facts"
        <5>1. PICK h \in Locals : h = Read(c, "approve", a) /\ h.pc = "facts"
          BY <3>1 DEF Ops
        <5>2. [h EXCEPT !.about = o].pc = "facts"
          BY <5>1 DEF Locals
        <5> QED BY <4>4, <5>1, <5>2 DEF BeginApproval
      <4>5. ASSUME NEW a \in Actors, NEW to \in Asked, BeginTransition(c, a, to)
            PROVE  \E q : Become(c, q) /\ q.pc = "facts"
        <5>1. PICK h \in Locals : h = Read(c, "transition", a) /\ h.pc = "facts"
          BY <3>1 DEF Ops
        <5>2. [h EXCEPT !.to = to].pc = "facts"
          BY <5>1 DEF Locals
        <5> QED BY <4>5, <5>1, <5>2 DEF BeginTransition
      <4> QED BY <2>4, <4>1, <4>2, <4>3, <4>4, <4>5 DEF BeginSome
    <3>3. PICK q : Become(c, q) /\ q.pc = "facts"
      BY <3>2
    <3>4. Decided(q)
      BY <3>3 DEF Decided
    <3> QED BY <3>3, <3>4, DecidedStep
  <2>5. CASE ReadFacts(c)
    <3>1. CASE Answer(c)
      BY <2>3, <3>1
    <3>2. CASE ~Answer(c)
      <4>1. \E q : Become(c, q) /\ (q.op # "transition" \/ q.pc = "approvals")
        <5>1. CASE r.op = "snapshot"
          <6>1. Become(c, [r EXCEPT !.pc = "head", !.through = Len(chain)])
            BY <2>1, <2>5, <3>2, <5>1
               DEF ReadFacts, SealedBoundary, OutputFacts, ApprovalFacts, StaleFacts, TransitionFacts
          <6>2. [r EXCEPT !.pc = "head", !.through = Len(chain)].op = "snapshot"
            BY <5>1 DEF Locals
          <6> QED BY <6>1, <6>2
        <5>2. CASE r.op = "output"
          <6>1. PICK x, S : Become(c, [r EXCEPT !.pc = x, !.current = S])
            BY <2>1, <2>5, <3>2, <5>2
               DEF ReadFacts, SealedBoundary, OutputFacts, ApprovalFacts, StaleFacts, TransitionFacts
          <6>2. [r EXCEPT !.pc = x, !.current = S].op = "output"
            BY <5>2 DEF Locals
          <6> QED BY <6>1, <6>2
        <5>3. CASE r.op = "approve"
          <6>1. Become(c, [r EXCEPT !.pc = "head"])
            BY <2>1, <2>5, <3>2, <5>3
               DEF ReadFacts, SealedBoundary, OutputFacts, ApprovalFacts, StaleFacts, TransitionFacts
          <6>2. [r EXCEPT !.pc = "head"].op = "approve"
            BY <5>3 DEF Locals
          <6> QED BY <6>1, <6>2
        <5>4. CASE r.op = "write"
          <6>1. Become(c, [r EXCEPT !.pc = "head", !.current = Current])
            BY <2>1, <2>5, <3>2, <5>4
               DEF ReadFacts, SealedBoundary, OutputFacts, ApprovalFacts, StaleFacts, TransitionFacts
          <6>2. [r EXCEPT !.pc = "head", !.current = Current].op = "write"
            BY <5>4 DEF Locals
          <6> QED BY <6>1, <6>2
        <5>5. CASE r.op = "transition"
          <6>1. Become(c, [r EXCEPT !.pc = "approvals", !.current = Current])
            BY <2>1, <2>5, <3>2, <5>5
               DEF ReadFacts, SealedBoundary, OutputFacts, ApprovalFacts, StaleFacts, TransitionFacts
          <6>2. [r EXCEPT !.pc = "approvals", !.current = Current].pc = "approvals"
            BY DEF Locals
          <6> QED BY <6>1, <6>2
        <5> QED BY <5>1, <5>2, <5>3, <5>4, <5>5 DEF Locals, Ops
      <4>2. PICK q : Become(c, q) /\ (q.op # "transition" \/ q.pc = "approvals")
        BY <4>1
      <4>3. Decided(q)
        BY <4>2 DEF Decided
      <4> QED BY <4>2, <4>3, DecidedStep
    <3> QED BY <3>1, <3>2
  <2>6. CASE Decide(c)
    <3> DEFINE mine == r.current \cap ApprovedBy(r.actor)
               allowed == Allowed(r.status, r.to, Role[r.actor], r.current # {}, mine # {})
    <3>1. CASE ~allowed
      BY <2>1, <2>3, <2>6, <3>1 DEF Decide
    <3>2. CASE allowed
      <4>1. PICK o : Become(c, [r EXCEPT !.pc = "head", !.approved = o])
        BY <2>1, <2>6, <3>2 DEF Decide
      <4>2. PICK q : q = [r EXCEPT !.pc = "head", !.approved = o]
        OBVIOUS
      <4>3. q.status = r.status /\ q.to = r.to /\ q.actor = r.actor
        BY <4>2 DEF Locals
      <4>4. HasEdge(r)
        BY <3>2 DEF Allowed, HasEdge
      <4>5. Decided(q)
        BY <4>3, <4>4 DEF Decided, HasEdge
      <4> QED BY <4>1, <4>2, <4>5, DecidedStep
    <3> QED BY <3>1, <3>2
  <2>7. CASE ReadManifest(c)
    <3>1. r.op = "output"
      BY <2>1, <2>7 DEF ReadManifest, Holds
    <3>2. [r EXCEPT !.pc = "head"].op = "output"
      BY <3>1 DEF Locals
    <3>3. Decided([r EXCEPT !.pc = "head"])
      BY <3>2, NothingDecided
    <3> QED BY <2>1, <2>3, <2>7, <3>3, DecidedStep DEF ReadManifest
  <2>8. CASE PrepareAudit(c)
    <3>1. PICK q : /\ Become(c, q)
                   /\ q = [r EXCEPT !.head = Len(chain),
                               !.pc = IF r.op \in {"snapshot", "output"} THEN "put" ELSE "commit"]
      BY <2>1, <2>8 DEF PrepareAudit
    <3>2. q.op = r.op /\ q.status = r.status /\ q.to = r.to /\ q.actor = r.actor
      BY <3>1 DEF Locals
    <3>3. r.pc = "head"
      BY <2>1, <2>8 DEF PrepareAudit
    <3>4. Decided(q)
      BY <2>1, <3>2, <3>3 DEF Decided, HasEdge
    <3> QED BY <3>1, <3>4, DecidedStep
  <2>9. CASE Put(c)
    <3>1. r.op \in {"snapshot", "output"}
      BY <2>1, <2>9 DEF Put, Holds
    <3>2. [r EXCEPT !.pc = "commit"].op = r.op
      BY DEF Locals
    <3>3. Decided([r EXCEPT !.pc = "commit"])
      BY <3>1, <3>2, NothingDecided
    <3> QED BY <2>1, <2>3, <2>9, <3>3, DecidedStep DEF Put
  <2>10. CASE Commit(c) \/ CommitRefused(c) \/ CommitLost(c)
    <3>1. PICK q \in {Blank, Thrown(c)} : Become(c, q) \/ BecomeApplied(c, q)
      BY <2>10 DEF Commit, CommitRefused, CommitLost
    <3>2. Decided(q)
      BY ThrownDecided
    <3>3. CASE Become(c, q)
      BY <3>2, <3>3, DecidedStep
    <3>4. CASE BecomeApplied(c, q)
      <4>1. ASSUME NEW d \in Clients PROVE Decided(req'[d])
        <5>1. CASE d = c
          BY <3>2, <3>4, <5>1 DEF BecomeApplied
        <5>2. CASE d # c
          <6>1. PICK h \in Locals : h = req[d] /\ Decided(h)
            BY Holding DEF DecisionsHeld
          <6>2. PICK b : b = (h.pc = "idle")
            OBVIOUS
          <6>3. PICK g : g = req'[d] /\ g = [h EXCEPT !.alone = b]
            BY <3>4, <5>2, <6>1, <6>2 DEF BecomeApplied
          <6>4. g.op = h.op /\ g.pc = h.pc /\ g.status = h.status /\ g.to = h.to /\ g.actor = h.actor
            BY <6>3 DEF Locals
          <6>5. Decided(g)
            BY <6>1, <6>4 DEF Decided, HasEdge
          <6> QED BY <6>3, <6>5
        <5> QED BY <5>1, <5>2
      <4> QED BY <4>1 DEF DecisionsHeld, Decided, HasEdge
    <3> QED BY <3>1, <3>3, <3>4
  <2>11. CASE Cleanup(c)
    BY <2>3, <2>11 DEF Cleanup
  <2> QED BY <1>2, <2>4, <2>5, <2>6, <2>7, <2>8, <2>9, <2>10, <2>11 DEF Step
<1> QED BY <1>1, <1>2 DEF Next

\* The status of a Matter only ever follows an edge of the registry, for the role of one who asked,
\* and the facts the edge needs hold when it is committed, not only when they were read: to be
\* approved there is a current output that this very reviewer approved.
StatusFollowsRegistry ==
    [][status' # status =>
          \E a \in Actors : Allowed(status, status', Role[a], Current # {},
                                    Current \cap ApprovedBy(a) # {})]_vars

THEOREM StatusIsGoverned == Spec => StatusFollowsRegistry
<1> DEFINE Governed ==
       status' # status =>
          \E a \in Actors : Allowed(status, status', Role[a], Current # {},
                                    Current \cap ApprovedBy(a) # {})
<1>1. Spec => []DecisionsHeld
  BY InitDecided, NextDecided, Agreement, PTL DEF Spec
<1>2. ASSUME GovInv, DecisionsHeld, [Next]_vars PROVE Governed
  <2>1. CASE status' = status
    BY <2>1
  <2>2. CASE status' # status
    <3>1. PICK c \in Clients : req[c].pc = "commit" /\ Applied(c)
      BY <1>2, <2>2 DEF Next, Step, BeginSome, BeginSnapshot, BeginOutput, BeginApproval,
         BeginWrite, BeginTransition, ReadFacts, Decide, ReadManifest, PrepareAudit, Put, Commit,
         CommitRefused, CommitLost, Cleanup, Quiet, matter, vars
    <3>2. Transition(c)
      BY <2>2, <3>1 DEF Applied, Seal, Generate, Approve, Write
    <3>3. PICK r \in Locals : r = req[c] /\ Holds(r) /\ Decided(r)
      BY <1>2, Holding DEF DecisionsHeld
    <3>4. /\ r.op = "transition" /\ r.pc = "commit" /\ status = r.status /\ status' = r.to
          /\ r.to = "output_approved" => r.approved \in Current \cap ApprovedBy(r.actor)
      BY <3>1, <3>2, <3>3 DEF Transition, TransitionAccepted, Approving
    <3>5. HasEdge(r) /\ r.actor \in Actors
      BY <3>3, <3>4 DEF Decided, Holds
    <3>6. r.to = "output_approved" => Current # {} /\ Current \cap ApprovedBy(r.actor) # {}
      BY <3>4
    <3>7. Allowed(status, status', Role[r.actor], Current # {}, Current \cap ApprovedBy(r.actor) # {})
      BY <3>4, <3>5, <3>6 DEF Allowed, HasEdge
    <3> QED BY <3>5, <3>7
  <2> QED BY <2>1, <2>2
<1> QED BY <1>1, <1>2, Agreement, PTL DEF Spec, StatusFollowsRegistry
=============================================================================
