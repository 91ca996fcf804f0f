------------------------- MODULE FirmLibrary_proofs -------------------------
(***************************************************************************)
(* The firm's library, for every number of handlers, tabs, keys, documents *)
(* and requests.  A row, once saved, stays; a handler knows of the rows    *)
(* under its key what its reads told it; and the notices rest on what the  *)
(* handlers know.                                                          *)
(***************************************************************************)
EXTENDS FirmLibrary, FiniteSetTheorems, WellFoundedInduction, TLAPS

-----------------------------------------------------------------------------
(* The invariant.                                                          *)

States == {"not_started", "pending", "committed", "cancelled"}
Pcs == {"free", "save", "check", "cancel", "latest", "stage", "put", "insert", "recheck",
        "reread", "intent", "row", "answer"}
Locals == [pc : Pcs, key : Keys \cup {None}, body : Bodies \cup {None},
           status : States \cup {"none", "saved", "conflict", "denied", "failed"},
           seen : Bodies \cup {None}]
Controls == [pending : Bodies \cup {None}, key : Keys \cup {None}, waits : Calls \cup {None}]

\* Every variable holds a value of its kind.
LibraryTyped ==
    /\ upload \in [Keys -> [state : States, form : Forms \cup {None}]]
    /\ saved \in [Keys -> Bodies \cup {None}]
    /\ stored \subseteq {Object(f) : f \in Forms}
    /\ member \in BOOLEAN
    /\ call \in [Calls -> Locals] /\ tab \in [Tabs -> Controls]
    /\ \A t \in Tabs : tab[t].pending # None => tab[t].key \in Keys
    /\ \A n \in told : n.what \in {"saved", "confirmed", "cancelled"} /\ n.key \in Keys
    /\ sent \in [Keys -> Nat] /\ libraryFaults \in 0..MaxLibraryFaults

\* What the rows under one key have in common: an upload has a form; a saved version, and it
\* alone, commits the upload it was staged as; a folder has none; and a key that was never sent
\* has no row.
RowsAgree(k) ==
    /\ upload[k].state # "not_started" => upload[k].form \in Forms
    /\ upload[k].state = "committed" => saved[k] = upload[k].form
    /\ saved[k] \in Forms => Object(saved[k]) \in stored /\ upload[k].state = "committed"
    /\ saved[k] \in Paths => upload[k].state = "not_started"
    /\ sent[k] = 0 => saved[k] = None /\ upload[k].state = "not_started"

\* No two keys saved the same version or folder, and no version is skipped.
VersionsApart == \A k, o \in Keys : k # o /\ saved[k] # None => ~Alike(saved[k], saved[o])
VersionsFollow ==
    \A k \in Files : saved[k].expected > 0 =>
        \E o \in Files : saved[o].doc = saved[k].doc /\ saved[o].expected + 1 = saved[k].expected

\* What a handler knows of the rows under its key.
Knows(q) ==
    /\ q.pc # "free" => q.key \in Keys /\ sent[q.key] > 0
    /\ q.pc = "save" => q.body \in Bodies
    /\ q.pc \in {"latest", "stage", "put", "insert", "recheck", "reread"} => q.body \in Forms
    /\ q.pc \in {"put", "insert"} => upload[q.key].state # "not_started"
    /\ q.pc = "insert" => Object(q.body) \in stored
    /\ q.pc = "row" => q.status \in States
    /\ q.pc # "free" /\ q.seen # None => saved[q.key] = q.seen
    /\ q.pc = "answer" /\ q.status = "saved" => q.body \in Bodies /\ saved[q.key] = q.body
    /\ q.pc \in {"row", "answer"} /\ q.status = "cancelled" => upload[q.key].state = "cancelled"

\* What it knows when it handles the only request that was sent under its key.
KnowsAlone(q) ==
    q.pc # "free" /\ sent[q.key] = 1 =>
        /\ q.pc \in {"save", "latest", "stage", "put", "insert", "reread"} => saved[q.key] = None
        /\ q.pc = "recheck" => saved[q.key] \in {None, q.body}
        /\ q.pc = "answer" /\ q.status = "conflict" => saved[q.key] = None

\* Every handler at work was sent a request of its own.
SentApart ==
    \A c, d \in Calls :
        c # d /\ call[c].pc # "free" /\ call[d].pc # "free" /\ call[c].key = call[d].key =>
            sent[call[c].key] > 1

\* What the tabs were told stays true.
Stands(n) ==
    \/ n.what = "saved" /\ n.body \in Bodies /\ saved[n.key] = n.body
    \/ n.what = "confirmed" /\ Alike(saved[n.key], n.body)
    \/ n.what = "cancelled" /\ upload[n.key].state = "cancelled"

LibraryInv ==
    /\ LibraryTyped
    /\ \A k \in Keys : RowsAgree(k)
    /\ VersionsApart /\ VersionsFollow
    /\ \A c \in Calls : Knows(call[c]) /\ KnowsAlone(call[c])
    /\ SentApart
    /\ \A n \in told : Stands(n)

-----------------------------------------------------------------------------
(* The latest version of a document.                                       *)

\* A set of numbers has a least one.
LEMMA Least ==
    ASSUME NEW T \in SUBSET Nat, T # {}
    PROVE  \E x \in T : \A y \in T : ~(y < x)
<1> DEFINE R == OpToRel(<, Nat)
<1>1. IsWellFoundedOn(R, Nat)
  BY NatLessThanWellFounded
<1>2. \E x \in T : \A y \in T : ~ (<<y, x>> \in R)
  <2> HIDE DEF R
  <2> QED BY <1>1, WFMin
<1>3. \A x, y \in Nat : y < x => <<y, x>> \in R
  BY DEF OpToRel
<1> QED BY <1>2, <1>3

\* A set of numbers with a bound has a greatest one.
LEMMA Greatest ==
    ASSUME NEW S \in SUBSET Nat, S # {}, NEW n \in Nat, \A x \in S : x <= n
    PROVE  Max(S) \in S /\ \A x \in S : x <= Max(S)
<1> DEFINE T == {n - x : x \in S}
<1>1. \A x \in S : n - x \in Nat
  OBVIOUS
<1>2. T \in SUBSET Nat /\ T # {}
  BY <1>1
<1>3. PICK m \in T : \A y \in T : ~(y < m)
  BY <1>2, Least
<1>4. PICK x \in S : m = n - x
  BY <1>3
<1>5. \A y \in S : x >= y
  <2> SUFFICES ASSUME NEW y \in S PROVE x >= y
    OBVIOUS
  <2>1. n - y \in T
    OBVIOUS
  <2>2. ~(n - y < n - x)
    BY <1>3, <1>4, <2>1
  <2>3. x \in Nat /\ y \in Nat
    OBVIOUS
  <2> HIDE DEF T
  <2> QED BY <2>2, <2>3
<1>6. \E z \in S : \A y \in S : z >= y
  BY <1>5
<1>7. Max(S) \in S /\ \A y \in S : Max(S) >= y
  BY <1>6 DEF Max
<1> QED BY <1>7

\* It is that of a saved version, or none is saved.
LEMMA LatestIs ==
    ASSUME LibraryConstants, LibraryTyped, NEW d
    PROVE  /\ Latest(d) \in Nat
           /\ \A k \in Files : saved[k].doc = d =>
                 saved[k].expected \in Nat /\ saved[k].expected + 1 <= Latest(d)
           /\ Latest(d) = 0 \/ \E k \in Files : saved[k].doc = d /\ saved[k].expected + 1 = Latest(d)
<1> DEFINE F == {f \in Files : saved[f].doc = d}
           S == {0} \cup {saved[k].expected + 1 : k \in F}
           n == Cardinality(Keys)
<1>1. n \in Nat
  BY FS_CardinalityType DEF LibraryConstants
<1>2. \A k \in Files : saved[k].expected \in 0 .. n
  BY DEF Files, Forms
<1>3. \A k \in F : saved[k].expected + 1 \in 0 .. n + 1
  BY <1>1, <1>2
<1>4. S \in SUBSET Nat /\ S # {} /\ \A x \in S : x <= n + 1
  BY <1>1, <1>3
<1>5. Max(S) \in S /\ \A x \in S : x <= Max(S)
  <2> HIDE DEF S, n
  <2>1. n + 1 \in Nat
    BY <1>1
  <2> QED BY <1>4, <2>1, Greatest
<1>6. Latest(d) = Max(S)
  BY DEF Latest
<1>7. ASSUME NEW k \in Files, saved[k].doc = d
      PROVE  saved[k].expected \in Nat /\ saved[k].expected + 1 <= Max(S)
  <2>1. saved[k].expected + 1 \in S
    BY <1>7
  <2> QED BY <1>1, <1>2, <1>5, <2>1
<1>8. Max(S) = 0 \/ \E k \in Files : saved[k].doc = d /\ saved[k].expected + 1 = Max(S)
  BY <1>5
<1> HIDE DEF S
<1> QED BY <1>4, <1>5, <1>6, <1>7, <1>8

-----------------------------------------------------------------------------
(* A step of one handler.                                                  *)

\* The handler c holds q, the others what they held.
Turns(c, q) ==
    /\ call' \in [Calls -> Locals] /\ call'[c] = q
    /\ \A d \in Calls : d # c => call'[d] = call[d]

\* The constants apart from None.
LEMMA Apart ==
    ASSUME LibraryConstants
    PROVE  /\ Forms \cap Paths = {} /\ None \notin Bodies /\ None \notin Keys /\ None \notin Calls
           /\ MaxSends \in Nat /\ MaxLibraryFaults \in Nat
BY DEF LibraryConstants, Forms, Bodies

\* What a handler holds.
LEMMA Held ==
    ASSUME LibraryInv, NEW c \in Calls
    PROVE  /\ \E r \in Locals : r = call[c] /\ Knows(r) /\ KnowsAlone(r)
           /\ member \in BOOLEAN /\ libraryFaults \in 0..MaxLibraryFaults
BY DEF LibraryInv, LibraryTyped

\* The ways a handler goes on.
LEMMA ToCall ==
    ASSUME LibraryInv, NEW c \in Calls, NEW pc \in Pcs, To(c, pc)
    PROVE  \E q \in Locals : /\ Turns(c, q) /\ q.pc = pc /\ q.key = call[c].key
                             /\ q.body = call[c].body /\ q.seen = call[c].seen
                             /\ q.status = call[c].status
<1>1. PICK r \in Locals : r = call[c]
  BY Held
<1>2. PICK q : q = [r EXCEPT !.pc = pc]
  OBVIOUS
<1>3. /\ q \in Locals /\ q.pc = pc /\ q.key = r.key /\ q.body = r.body /\ q.seen = r.seen
      /\ q.status = r.status
  BY <1>2 DEF Locals
<1>4. call' = [call EXCEPT ![c] = q]
  BY <1>1, <1>2 DEF To
<1>5. Turns(c, q)
  BY <1>3, <1>4 DEF LibraryInv, LibraryTyped, Turns
<1> QED BY <1>1, <1>3, <1>5

\* An answer is given, with a status.
LEMMA SettleCall ==
    ASSUME LibraryInv, NEW c \in Calls, NEW s \in {"saved", "conflict", "denied", "failed"},
           Fails(c, s)
    PROVE  \E q \in Locals : /\ Turns(c, q) /\ q.pc = "answer" /\ q.key = call[c].key
                             /\ q.body = call[c].body /\ q.seen = call[c].seen /\ q.status = s
<1>1. PICK r \in Locals : r = call[c]
  BY Held
<1>2. PICK q : q = [r EXCEPT !.pc = "answer", !.status = s]
  OBVIOUS
<1>3. /\ q \in Locals /\ q.pc = "answer" /\ q.key = r.key /\ q.body = r.body /\ q.seen = r.seen
      /\ q.status = s
  BY <1>2 DEF Locals, Pcs
<1>4. call' = [call EXCEPT ![c] = q]
  BY <1>1, <1>2 DEF LibraryInv, LibraryTyped, Fails
<1>5. Turns(c, q)
  BY <1>3, <1>4 DEF LibraryInv, LibraryTyped, Turns
<1> QED BY <1>1, <1>3, <1>5

\* The answer of a member; any other is denied.
LEMMA AnswerCall ==
    ASSUME LibraryInv, NEW c \in Calls, NEW s \in {"saved", "conflict", "denied", "failed"},
           Answer(c, s)
    PROVE  \E q \in Locals : /\ Turns(c, q) /\ q.pc = "answer" /\ q.key = call[c].key
                             /\ q.body = call[c].body /\ q.seen = call[c].seen
                             /\ q.status \in {s, "denied"}
<1>1. PICK z : z = IF member THEN s ELSE "denied"
  OBVIOUS
<1>2. z \in {"saved", "conflict", "denied", "failed"} /\ z \in {s, "denied"}
  BY <1>1
<1>3. Fails(c, z)
  BY <1>1 DEF Answer, Fails
<1>4. PICK q \in Locals : /\ Turns(c, q) /\ q.pc = "answer" /\ q.key = call[c].key
                          /\ q.body = call[c].body /\ q.seen = call[c].seen /\ q.status = z
  BY <1>2, <1>3, SettleCall
<1> QED BY <1>2, <1>4

\* The part of the invariant about the rows.
RowsInv ==
    /\ upload \in [Keys -> [state : States, form : Forms \cup {None}]]
    /\ saved \in [Keys -> Bodies \cup {None}]
    /\ stored \subseteq {Object(f) : f \in Forms}
    /\ \A k \in Keys : RowsAgree(k)
    /\ VersionsApart /\ VersionsFollow

\* Rows are never taken back, and no save is made but under the key k.
Accrues(k) ==
    /\ \A o \in Keys :
        /\ saved[o] # None => saved'[o] = saved[o]
        /\ o # k => saved'[o] = saved[o]
        /\ upload[o].state # "not_started" => upload'[o].state # "not_started"
        /\ upload[o].state = "cancelled" => upload'[o].state = "cancelled"
    /\ stored \subseteq stored'

\* What a handler knows stays true when rows accrue under another's key.
LEMMA KnowsStays ==
    ASSUME LibraryConstants, NEW k, Accrues(k), UNCHANGED sent, NEW q \in Locals, Knows(q)
    PROVE  Knows(q)' /\ (KnowsAlone(q) /\ (q.key = k => sent[k] # 1) => KnowsAlone(q)')
<1>1. None \notin Bodies
  BY Apart
<1>2. q.seen \in Bodies \cup {None}
  BY DEF Locals
<1>3. Object(q.body)' = Object(q.body)
  BY DEF Object
<1>4. Knows(q)'
  BY <1>1, <1>2, <1>3 DEF Knows, Accrues
<1>5. ASSUME KnowsAlone(q), q.key = k => sent[k] # 1 PROVE KnowsAlone(q)'
  BY <1>5 DEF KnowsAlone, Accrues, Knows
<1> QED BY <1>4, <1>5

\* And so do the notices.
LEMMA NoticesStay ==
    ASSUME LibraryConstants, LibraryTyped, NEW k, Accrues(k), NEW n \in told, Stands(n)
    PROVE  Stands(n)'
<1>1. n.key \in Keys /\ None \notin Bodies
  BY Apart DEF LibraryTyped
<1>2. Alike(saved[n.key], n.body) => saved[n.key] # None
  BY <1>1 DEF Alike, Bodies
<1> QED BY <1>1, <1>2 DEF Stands, Accrues, Alike

\* The whole step of a handler: the others keep what they know.
LEMMA HandlerStep ==
    ASSUME LibraryConstants, LibraryInv, NEW c \in Calls, call[c].pc # "free",
           NEW q \in Locals, Turns(c, q), q.key = call[c].key, q.pc # "free",
           Accrues(call[c].key), RowsInv', Knows(q)', KnowsAlone(q)',
           UNCHANGED <<member, tab, told, sent>>, libraryFaults' \in 0..MaxLibraryFaults
    PROVE  LibraryInv'
<1>1. PICK k : k = call[c].key
  OBVIOUS
<1>2. Accrues(k)
  BY <1>1
<1>3. LibraryTyped'
  BY DEF LibraryInv, LibraryTyped, RowsInv, Turns
<1>4. ASSUME NEW d \in Calls PROVE Knows(call[d])' /\ KnowsAlone(call[d])'
  <2>1. PICK h : h = call'[d]
    OBVIOUS
  <2>2. CASE d = c
    BY <2>1, <2>2 DEF Turns
  <2>3. CASE d # c
    <3>1. h = call[d] /\ h \in Locals /\ Knows(h) /\ KnowsAlone(h)
      BY <2>1, <2>3 DEF Turns, LibraryInv, LibraryTyped
    <3>2. h.pc # "free" /\ h.key = k => sent[k] > 1
      BY <1>1, <2>3, <3>1 DEF LibraryInv, SentApart
    <3>3. h.pc # "free" /\ h.key = k => sent[k] # 1
      <4>1. h.pc # "free" => h.key \in Keys /\ sent[h.key] \in Nat
        BY <3>1 DEF Knows, LibraryInv, LibraryTyped
      <4> QED BY <3>2, <4>1
    <3>4. Knows(h)'
      BY <1>2, <3>1, KnowsStays
    <3>5. KnowsAlone(h)'
      <4>1. CASE h.pc = "free"
        BY <4>1 DEF KnowsAlone
      <4>2. CASE h.pc # "free"
        BY <1>2, <3>1, <3>3, <4>2, KnowsStays
      <4> QED BY <4>1, <4>2
    <3> QED BY <2>1, <3>4, <3>5
  <2> QED BY <2>2, <2>3
<1>5. SentApart'
  <2>1. \A d \in Calls : call'[d].key = call[d].key /\ (call'[d].pc # "free" => call[d].pc # "free")
    BY DEF Turns
  <2> QED BY <2>1 DEF LibraryInv, SentApart
<1>6. ASSUME NEW n \in told' PROVE Stands(n)'
  BY <1>2, NoticesStay DEF LibraryInv
<1> QED BY <1>3, <1>4, <1>5, <1>6 DEF LibraryInv, RowsInv

\* The rows stay as they are.
LEMMA RowsStay ==
    ASSUME LibraryInv, UNCHANGED <<upload, saved, stored, sent>>
    PROVE  RowsInv'
<1>1. \A k \in Keys : RowsAgree(k)'
  BY DEF LibraryInv, RowsAgree, Object
<1>2. VersionsApart' /\ VersionsFollow'
  BY DEF LibraryInv, VersionsApart, VersionsFollow, Files
<1> QED BY <1>1, <1>2 DEF RowsInv, LibraryInv, LibraryTyped, Object

\* A handler reads, fails or answers.
LEMMA QuietStep ==
    ASSUME LibraryConstants, LibraryInv, NEW c \in Calls, call[c].pc # "free",
           NEW q \in Locals, Turns(c, q), q.key = call[c].key, q.pc # "free",
           Knows(q), KnowsAlone(q),
           UNCHANGED <<tables, member, tab, told, sent>>, libraryFaults' \in 0..MaxLibraryFaults
    PROVE  LibraryInv'
<1>1. UNCHANGED <<upload, saved, stored, sent>>
  BY DEF tables
<1>2. RowsInv'
  BY <1>1, RowsStay
<1>3. Accrues(call[c].key)
  BY <1>1 DEF Accrues
<1>4. Knows(q)' /\ KnowsAlone(q)'
  BY <1>1 DEF Knows, KnowsAlone, Object
<1> QED BY <1>2, <1>3, <1>4, HandlerStep

-----------------------------------------------------------------------------
(* The handlers.                                                           *)

\* Reads that lead on or to an answer.
LEMMA OriginalStep ==
    ASSUME LibraryConstants, LibraryInv, NEW c \in Calls, Original(c) \/ Recheck(c)
    PROVE  LibraryInv'
<1>1. PICK r \in Locals : r = call[c] /\ Knows(r) /\ KnowsAlone(r)
  BY Held
<1>2. UNCHANGED <<tables, member, tab, told, sent, libraryFaults>> /\ libraryFaults' \in 0..MaxLibraryFaults
  BY Held DEF Original, Recheck, Rest
<1>3. r.pc \in {"save", "recheck"} /\ r.body \in Forms /\ r.key \in Keys /\ None \notin Bodies
  BY <1>1, Apart DEF Original, Recheck, Knows
<1>4. CASE saved[r.key] = None
  <2>1. PICK pc \in {"latest", "reread"} : To(c, pc) /\ (pc = "latest" <=> r.pc = "save")
    BY <1>1, <1>3, <1>4 DEF Original, Recheck
  <2>2. pc \in Pcs
    BY <2>1 DEF Pcs
  <2>3. PICK q \in Locals : /\ Turns(c, q) /\ q.pc = pc /\ q.key = r.key /\ q.body = r.body
                            /\ q.seen = r.seen /\ q.status = r.status
    BY <1>1, <2>1, <2>2, ToCall
  <2>4. Knows(q)
    BY <1>1, <1>3, <2>1, <2>3 DEF Knows
  <2>5. KnowsAlone(q)
    BY <1>4, <2>1, <2>3 DEF KnowsAlone
  <2> QED BY <1>1, <1>2, <1>3, <2>1, <2>3, <2>4, <2>5, QuietStep
<1>5. CASE saved[r.key] # None
  <2>1. PICK s \in {"saved", "conflict"} : Answer(c, s) /\ (s = "saved" <=> saved[r.key] = r.body)
    <3>1. Answer(c, IF saved[r.key] = r.body THEN "saved" ELSE "conflict")
      BY <1>1, <1>5 DEF Original, Recheck
    <3> QED BY <3>1
  <2>2. PICK q \in Locals : /\ Turns(c, q) /\ q.pc = "answer" /\ q.key = r.key /\ q.body = r.body
                            /\ q.seen = r.seen /\ q.status \in {s, "denied"}
    BY <1>1, <2>1, AnswerCall
  <2>3. Knows(q)
    BY <1>1, <1>3, <2>1, <2>2 DEF Knows, Bodies
  <2>4. KnowsAlone(q)
    BY <1>1, <1>3, <1>5, <2>1, <2>2 DEF KnowsAlone
  <2> QED BY <1>1, <1>2, <1>3, <2>2, <2>3, <2>4, QuietStep
<1> QED BY <1>4, <1>5

\* A failure or a refusal is answered.
LEMMA SettleStep ==
    ASSUME LibraryConstants, LibraryInv, NEW c \in Calls, call[c].pc # "free",
           NEW s \in {"conflict", "denied", "failed"},
           Answer(c, s) \/ Fails(c, s),
           s = "conflict" /\ sent[call[c].key] = 1 => saved[call[c].key] = None,
           UNCHANGED <<tables, member, tab, told, sent>>, libraryFaults' \in 0..MaxLibraryFaults
    PROVE  LibraryInv'
<1>1. PICK r \in Locals : r = call[c] /\ Knows(r) /\ KnowsAlone(r)
  BY Held
<1>2. PICK q \in Locals : /\ Turns(c, q) /\ q.pc = "answer" /\ q.key = r.key /\ q.body = r.body
                          /\ q.seen = r.seen /\ q.status \in {s, "denied"}
  <2>1. CASE Answer(c, s)
    BY <1>1, <2>1, AnswerCall
  <2>2. CASE Fails(c, s)
    <3>1. s \in {"saved", "conflict", "denied", "failed"}
      OBVIOUS
    <3>2. PICK q \in Locals : /\ Turns(c, q) /\ q.pc = "answer" /\ q.key = call[c].key
                              /\ q.body = call[c].body /\ q.seen = call[c].seen /\ q.status = s
      BY <2>2, <3>1, SettleCall
    <3> QED BY <1>1, <3>2
  <2> QED BY <2>1, <2>2
<1>3. Knows(q)
  BY <1>1, <1>2 DEF Knows
<1>4. KnowsAlone(q)
  BY <1>1, <1>2 DEF KnowsAlone
<1> QED BY <1>1, <1>2, <1>3, <1>4, QuietStep

\* A handler goes on to work under what it knows.
LEMMA GoOn ==
    ASSUME LibraryConstants, LibraryInv, NEW c \in Calls, NEW pc \in Pcs, To(c, pc),
           \/ call[c].pc = "latest" /\ pc = "stage"
           \/ call[c].pc = "stage" /\ pc = "put" /\ upload[call[c].key].state # "not_started"
           \/ call[c].pc \in {"stage", "put", "insert"} /\ pc = "recheck",
           UNCHANGED <<tables, member, tab, told, sent>>, libraryFaults' \in 0..MaxLibraryFaults
    PROVE  LibraryInv'
<1>1. PICK r \in Locals : r = call[c] /\ Knows(r) /\ KnowsAlone(r)
  BY Held
<1>2. PICK q \in Locals : /\ Turns(c, q) /\ q.pc = pc /\ q.key = r.key /\ q.body = r.body
                          /\ q.seen = r.seen /\ q.status = r.status
  BY <1>1, ToCall
<1>3. Knows(q)
  BY <1>1, <1>2 DEF Knows
<1>4. KnowsAlone(q)
  BY <1>1, <1>2 DEF KnowsAlone
<1> QED BY <1>1, <1>2, <1>3, <1>4, QuietStep

\* The latest version is compared.
LEMMA LatestStep ==
    ASSUME LibraryConstants, LibraryInv, NEW c \in Calls, ReadLatest(c)
    PROVE  LibraryInv'
<1>1. PICK r \in Locals : r = call[c] /\ Knows(r) /\ KnowsAlone(r)
  BY Held
<1>2. /\ UNCHANGED <<tables, member, tab, told, sent>> /\ libraryFaults' \in 0..MaxLibraryFaults
      /\ call[c].pc = "latest"
  BY Held DEF ReadLatest, Rest
<1>3. sent[r.key] = 1 => saved[r.key] = None
  BY <1>1, <1>2 DEF KnowsAlone
<1>4. "stage" \in Pcs
  BY DEF Pcs
<1>5. Answer(c, "conflict") \/ To(c, "stage") \/ Fails(c, "denied")
  BY DEF ReadLatest
<1>6. CASE Answer(c, "conflict")
  BY <1>1, <1>2, <1>3, <1>6, SettleStep
<1>7. CASE To(c, "stage")
  BY <1>2, <1>4, <1>7, GoOn
<1>8. CASE Fails(c, "denied")
  BY <1>2, <1>8, SettleStep
<1> QED BY <1>5, <1>6, <1>7, <1>8

\* Why a save was not made.
LEMMA RereadStep ==
    ASSUME LibraryConstants, LibraryInv, NEW c \in Calls, Reread(c)
    PROVE  LibraryInv'
<1>1. PICK r \in Locals : r = call[c] /\ Knows(r) /\ KnowsAlone(r)
  BY Held
<1>2. /\ UNCHANGED <<tables, member, tab, told, sent>> /\ libraryFaults' \in 0..MaxLibraryFaults
      /\ call[c].pc = "reread"
  BY Held DEF Reread, Rest
<1>3. sent[r.key] = 1 => saved[r.key] = None
  BY <1>1, <1>2 DEF KnowsAlone
<1>4. PICK s \in {"conflict", "failed"} : Fails(c, s)
  BY DEF Reread
<1> QED BY <1>1, <1>2, <1>3, <1>4, SettleStep

\* A storage call throws.
LEMMA CallFailsStep ==
    ASSUME LibraryConstants, LibraryInv, NEW c \in Calls, CallFails(c)
    PROVE  LibraryInv'
<1>1. libraryFaults \in 0..MaxLibraryFaults /\ MaxLibraryFaults \in Nat
  BY Held, Apart
<1>2. /\ UNCHANGED <<tables, member, tab, told, sent>> /\ libraryFaults' \in 0..MaxLibraryFaults
      /\ call[c].pc # "free"
  BY <1>1 DEF CallFails
<1>3. "recheck" \in Pcs
  BY DEF Pcs
<1>4. \/ call[c].pc \in {"stage", "put", "insert"} /\ To(c, "recheck")
      \/ Fails(c, "failed")
  BY DEF CallFails
<1>5. CASE call[c].pc \in {"stage", "put", "insert"} /\ To(c, "recheck")
  BY <1>2, <1>3, <1>5, GoOn
<1>6. CASE Fails(c, "failed")
  BY <1>2, <1>6, SettleStep
<1> QED BY <1>4, <1>5, <1>6

\* A new row for an upload.
LEMMA StagedStep ==
    ASSUME LibraryConstants, LibraryInv, NEW c \in Calls, call[c].pc = "stage",
           upload[call[c].key].state = "not_started", saved[call[c].key] \notin Paths,
           upload' = [upload EXCEPT ![call[c].key] = [state |-> "pending", form |-> call[c].body]],
           To(c, "put"), UNCHANGED <<saved, stored, member, tab, told, sent, libraryFaults>>
    PROVE  LibraryInv'
<1>1. PICK r \in Locals : r = call[c] /\ Knows(r) /\ KnowsAlone(r)
  BY Held
<1>2. PICK k \in Keys : k = r.key
  BY <1>1 DEF Knows
<1>3. PICK b \in Forms : b = r.body
  BY <1>1 DEF Knows
<1>4. PICK row : row = [state |-> "pending", form |-> b]
  OBVIOUS
<1>5. /\ row \in [state : States, form : Forms \cup {None}] /\ row.state = "pending" /\ row.form = b
  BY <1>4 DEF States
<1>6. /\ upload' \in [Keys -> [state : States, form : Forms \cup {None}]] /\ upload'[k] = row
      /\ \A o \in Keys : o # k => upload'[o] = upload[o]
  BY <1>1, <1>2, <1>3, <1>4, <1>5 DEF LibraryInv, LibraryTyped
<1>7. saved[k] = None
  <2>1. saved[k] \in Forms \cup Paths \cup {None} /\ RowsAgree(k)
    BY <1>2 DEF LibraryInv, LibraryTyped, Bodies
  <2> QED BY <1>1, <1>2, <2>1 DEF RowsAgree
<1>8. sent[k] > 0 /\ None \notin Bodies
  BY <1>1, <1>2, Apart DEF Knows
<1>9. ASSUME NEW o \in Keys PROVE RowsAgree(o)'
  <2>1. CASE o = k
    BY <1>3, <1>5, <1>6, <1>7, <1>8, <2>1 DEF RowsAgree, Bodies, LibraryInv, LibraryTyped
  <2>2. CASE o # k
    BY <1>6, <2>2 DEF RowsAgree, Object, LibraryInv
  <2> QED BY <2>1, <2>2
<1>10. RowsInv'
  <2>1. VersionsApart' /\ VersionsFollow'
    BY DEF LibraryInv, VersionsApart, VersionsFollow, Files
  <2> QED BY <1>6, <1>9, <2>1 DEF RowsInv, LibraryInv, LibraryTyped, Object
<1>11. Accrues(k)
  BY <1>1, <1>2, <1>5, <1>6 DEF Accrues
<1>12. "put" \in Pcs
  BY DEF Pcs
<1>13. PICK q \in Locals : /\ Turns(c, q) /\ q.pc = "put" /\ q.key = r.key /\ q.body = r.body
                           /\ q.seen = r.seen /\ q.status = r.status
  BY <1>1, <1>12, ToCall
<1>14. Knows(q)'
  BY <1>1, <1>2, <1>5, <1>6, <1>13 DEF Knows
<1>15. KnowsAlone(q)'
  BY <1>2, <1>7, <1>13 DEF KnowsAlone
<1>16. libraryFaults' \in 0..MaxLibraryFaults
  BY Held
<1> QED BY <1>1, <1>2, <1>10, <1>11, <1>13, <1>14, <1>15, <1>16, HandlerStep

\* An upload is staged.
LEMMA StageStep ==
    ASSUME LibraryConstants, LibraryInv, NEW c \in Calls, Stage(c)
    PROVE  LibraryInv'
<1>1. PICK r \in Locals : r = call[c] /\ Knows(r) /\ KnowsAlone(r)
  BY Held
<1>2. /\ UNCHANGED <<saved, stored, member, tab, told, sent, libraryFaults>>
      /\ libraryFaults' \in 0..MaxLibraryFaults /\ call[c].pc = "stage"
  BY Held DEF Stage, Rest
<1>3. sent[r.key] = 1 => saved[r.key] = None
  BY <1>1, <1>2 DEF KnowsAlone
<1>4. "put" \in Pcs
  BY DEF Pcs
<1>5. \/ /\ upload[r.key].state = "not_started" /\ saved[r.key] \notin Paths
         /\ upload' = [upload EXCEPT ![r.key] = [state |-> "pending", form |-> r.body]] /\ To(c, "put")
      \/ Answer(c, "conflict") /\ UNCHANGED upload
      \/ upload[r.key].state # "not_started" /\ To(c, "put") /\ UNCHANGED upload
  BY <1>1 DEF Stage
<1>6. CASE Answer(c, "conflict") /\ UNCHANGED upload
  BY <1>1, <1>2, <1>3, <1>6, SettleStep DEF tables
<1>7. CASE upload[r.key].state # "not_started" /\ To(c, "put") /\ UNCHANGED upload
  BY <1>1, <1>2, <1>4, <1>7, GoOn DEF tables
<1> QED BY <1>1, <1>2, <1>5, <1>6, <1>7, StagedStep

\* The bytes are stored.
LEMMA PutStep ==
    ASSUME LibraryConstants, LibraryInv, NEW c \in Calls, Put(c)
    PROVE  LibraryInv'
<1>1. PICK r \in Locals : r = call[c] /\ Knows(r) /\ KnowsAlone(r)
  BY Held
<1>2. /\ UNCHANGED <<upload, saved, member, tab, told, sent, libraryFaults>> /\ r.pc = "put"
      /\ libraryFaults' \in 0..MaxLibraryFaults
  BY <1>1, Held DEF Put, Rest
<1>3. stored' = stored \cup {Object(r.body)} /\ r.body \in Forms
  BY <1>1, <1>2 DEF Put, Knows
<1>4. ASSUME NEW k \in Keys PROVE RowsAgree(k)'
  BY <1>2, <1>3 DEF RowsAgree, Object, LibraryInv
<1>5. RowsInv'
  <2>1. VersionsApart' /\ VersionsFollow'
    BY <1>2 DEF LibraryInv, VersionsApart, VersionsFollow, Files
  <2>2. stored' \subseteq {Object(f) : f \in Forms}
    BY <1>3 DEF LibraryInv, LibraryTyped
  <2> QED BY <1>2, <1>4, <2>1, <2>2 DEF RowsInv, LibraryInv, LibraryTyped, Object
<1>6. Accrues(r.key)
  BY <1>2, <1>3 DEF Accrues
<1>7. \/ To(c, "insert")
      \/ Fails(c, "denied")
  BY DEF Put
<1>8. CASE To(c, "insert")
  <2>1. "insert" \in Pcs
    BY DEF Pcs
  <2>2. PICK q \in Locals : /\ Turns(c, q) /\ q.pc = "insert" /\ q.key = r.key /\ q.body = r.body
                            /\ q.seen = r.seen /\ q.status = r.status
    BY <1>1, <1>8, <2>1, ToCall
  <2>3. Knows(q)'
    BY <1>1, <1>2, <1>3, <2>2 DEF Knows, Object
  <2>4. KnowsAlone(q)'
    BY <1>1, <1>2, <2>2 DEF KnowsAlone
  <2> QED BY <1>1, <1>2, <1>5, <1>6, <2>2, <2>3, <2>4, HandlerStep
<1>9. CASE Fails(c, "denied")
  <2>1. PICK q \in Locals : /\ Turns(c, q) /\ q.pc = "answer" /\ q.key = r.key /\ q.body = r.body
                            /\ q.seen = r.seen /\ q.status = "denied"
    BY <1>1, <1>9, SettleCall
  <2>2. Knows(q)'
    BY <1>1, <1>2, <2>1 DEF Knows
  <2>3. KnowsAlone(q)'
    BY <2>1 DEF KnowsAlone
  <2> QED BY <1>1, <1>2, <1>5, <1>6, <2>1, <2>2, <2>3, HandlerStep
<1> QED BY <1>7, <1>8, <1>9

\* A save is made: the version is the next of its document, or the folder is nobody's.
LEMMA SavedRows ==
    ASSUME LibraryConstants, LibraryInv, NEW k \in Keys, NEW b \in Bodies, saved[k] = None,
           saved' = [saved EXCEPT ![k] = b], sent[k] > 0, UNCHANGED <<stored, sent>>,
           \/ /\ b \in Forms /\ b.expected = Latest(b.doc) /\ Object(b) \in stored
              /\ upload[k] = [state |-> "pending", form |-> b]
              /\ upload' = [upload EXCEPT ![k].state = "committed"]
           \/ /\ b \in Paths /\ upload[k].state = "not_started" /\ UNCHANGED upload
              /\ \A o \in Keys : saved[o] # b
    PROVE  RowsInv' /\ Accrues(k)
<1>1. None \notin Bodies /\ Forms \cap Paths = {} /\ Bodies = Forms \cup Paths
  BY Apart DEF Bodies
<1>2. /\ saved' \in [Keys -> Bodies \cup {None}] /\ saved'[k] = b
      /\ \A o \in Keys : o # k => saved'[o] = saved[o]
  BY DEF LibraryInv, LibraryTyped
<1>3. /\ upload' \in [Keys -> [state : States, form : Forms \cup {None}]]
      /\ \A o \in Keys : o # k => upload'[o] = upload[o]
      /\ b \in Forms => upload'[k].state = "committed" /\ upload'[k].form = b
      /\ b \in Paths => upload'[k].state = "not_started"
  <2>1. upload \in [Keys -> [state : States, form : Forms \cup {None}]]
    BY DEF LibraryInv, LibraryTyped
  <2>2. CASE b \in Paths
    BY <1>1, <2>1, <2>2
  <2>3. CASE b \in Forms
    <3>1. PICK row : row = [upload[k] EXCEPT !.state = "committed"]
      OBVIOUS
    <3>2. row \in [state : States, form : Forms \cup {None}] /\ row.state = "committed" /\ row.form = b
      BY <1>1, <2>1, <2>3, <3>1 DEF States
    <3>3. upload' = [upload EXCEPT ![k] = row]
      BY <1>1, <2>3, <3>1
    <3> QED BY <1>1, <2>1, <2>3, <3>2, <3>3
  <2> QED BY <1>1, <2>2, <2>3
<1>4. b \in Forms => upload[k].state = "pending"
  BY <1>1
<1>5. ASSUME NEW o \in Keys PROVE RowsAgree(o)'
  <2>1. CASE o = k
    BY <1>1, <1>2, <1>3, <2>1 DEF RowsAgree, Object
  <2>2. CASE o # k
    BY <1>2, <1>3, <2>2 DEF RowsAgree, Object, LibraryInv
  <2> QED BY <2>1, <2>2
<1>6. ASSUME NEW o \in Keys, o # k PROVE ~Alike(b, saved[o]) /\ ~Alike(saved[o], b)
  <2>1. CASE b \in Paths
    BY <1>1, <2>1 DEF Alike
  <2>2. CASE b \in Forms
    <3>1. SUFFICES ASSUME saved[o] \in Forms, saved[o].doc = b.doc, saved[o].expected = b.expected
                   PROVE  FALSE
      BY <1>1, <2>2 DEF Alike
    <3>2. o \in Files
      BY <3>1 DEF Files
    <3>3. /\ Latest(b.doc) \in Nat /\ saved[o].expected \in Nat
          /\ saved[o].expected + 1 <= Latest(b.doc)
      BY <3>1, <3>2, LatestIs DEF LibraryInv
    <3> QED BY <1>1, <2>2, <3>1, <3>3
  <2> QED BY <1>1, <2>1, <2>2
<1>7. VersionsApart'
  <2> SUFFICES ASSUME NEW i \in Keys, NEW o \in Keys, i # o, saved'[i] # None
               PROVE  ~Alike(saved'[i], saved'[o])
    BY DEF VersionsApart, Alike
  <2>1. CASE i = k
    BY <1>2, <1>6, <2>1
  <2>2. CASE o = k
    BY <1>2, <1>6, <2>2
  <2>3. CASE i # k /\ o # k
    BY <1>2, <2>3 DEF LibraryInv, VersionsApart
  <2> QED BY <2>1, <2>2, <2>3
<1>8. VersionsFollow'
  <2> SUFFICES ASSUME NEW i \in Files', saved'[i].expected > 0
               PROVE  \E o \in Files' : /\ saved'[o].doc = saved'[i].doc
                                        /\ saved'[o].expected + 1 = saved'[i].expected
    BY DEF VersionsFollow
  <2>1. ASSUME NEW o \in Files PROVE o \in Files' /\ saved'[o] = saved[o]
    BY <1>1, <1>2 DEF Files
  <2>2. i \in Keys /\ saved'[i] \in Forms
    BY DEF Files
  <2>3. CASE i = k
    <3>1. b \in Forms /\ b.expected = Latest(b.doc) /\ saved'[i] = b
      BY <1>1, <1>2, <2>2, <2>3
    <3>2. PICK o \in Files : saved[o].doc = b.doc /\ saved[o].expected + 1 = Latest(b.doc)
      BY <3>1, LatestIs DEF LibraryInv
    <3> QED BY <2>1, <3>1, <3>2
  <2>4. CASE i # k
    <3>1. i \in Files /\ saved'[i] = saved[i]
      BY <1>2, <2>2, <2>4 DEF Files
    <3>2. PICK o \in Files : saved[o].doc = saved[i].doc /\ saved[o].expected + 1 = saved[i].expected
      BY <3>1 DEF LibraryInv, VersionsFollow
    <3> QED BY <2>1, <3>1, <3>2
  <2> QED BY <2>3, <2>4
<1>9. Accrues(k)
  <2>1. upload'[k].state # "not_started" \/ upload[k].state = "not_started"
    BY <1>1, <1>3
  <2>2. upload[k].state # "cancelled"
    BY <1>4
  <2> QED BY <1>2, <1>3, <2>1, <2>2 DEF Accrues
<1> QED BY <1>2, <1>3, <1>5, <1>7, <1>8, <1>9 DEF RowsInv, LibraryInv, LibraryTyped, Object

\* The batch of a version.
LEMMA InsertStep ==
    ASSUME LibraryConstants, LibraryInv, NEW c \in Calls, Insert(c)
    PROVE  LibraryInv'
<1>1. PICK r \in Locals : r = call[c] /\ Knows(r) /\ KnowsAlone(r)
  BY Held
<1>2. /\ UNCHANGED <<stored, member, tab, told, sent>> /\ r.pc = "insert"
      /\ r.key \in Keys /\ r.body \in Forms /\ Object(r.body) \in stored
      /\ upload[r.key].state # "not_started" /\ sent[r.key] > 0
  BY <1>1 DEF Insert, Knows
<1>3. libraryFaults' \in 0..MaxLibraryFaults
  BY Held, Apart DEF Insert
<1>4. "recheck" \in Pcs
  BY DEF Pcs
<1>5. CASE ~MayInsert(r.key, r.body)
  <2>1. To(c, "recheck") /\ UNCHANGED tables
    BY <1>1, <1>2, <1>5 DEF Insert, tables
  <2> QED BY <1>1, <1>2, <1>3, <1>4, <2>1, GoOn
<1>6. CASE MayInsert(r.key, r.body)
  <2>1. /\ saved[r.key] = None /\ r.body.expected = Latest(r.body.doc)
        /\ upload[r.key] = [state |-> "pending", form |-> r.body]
        /\ saved' = [saved EXCEPT ![r.key] = r.body]
        /\ upload' = [upload EXCEPT ![r.key].state = "committed"]
    BY <1>1, <1>2, <1>6 DEF Insert, MayInsert
  <2>2. RowsInv' /\ Accrues(r.key)
    BY <1>2, <2>1, SavedRows DEF Bodies
  <2>3. /\ saved'[r.key] = r.body /\ r.body \in Bodies /\ None \notin Bodies
    BY <1>2, <2>1, Apart DEF LibraryInv, LibraryTyped, Bodies
  <2>4. r.seen = None
    BY <1>1, <1>2, <2>1 DEF Knows
  <2>5. Answer(c, "saved") \/ To(c, "recheck")
    BY <1>1, <1>6 DEF Insert
  <2>6. CASE Answer(c, "saved")
    <3>1. PICK q \in Locals : /\ Turns(c, q) /\ q.pc = "answer" /\ q.key = r.key /\ q.body = r.body
                              /\ q.seen = r.seen /\ q.status \in {"saved", "denied"}
      BY <1>1, <2>6, AnswerCall
    <3>2. Knows(q)'
      BY <1>2, <2>3, <2>4, <3>1 DEF Knows
    <3>3. KnowsAlone(q)'
      BY <3>1 DEF KnowsAlone
    <3> QED BY <1>1, <1>2, <1>3, <2>2, <3>1, <3>2, <3>3, HandlerStep
  <2>7. CASE To(c, "recheck")
    <3>1. PICK q \in Locals : /\ Turns(c, q) /\ q.pc = "recheck" /\ q.key = r.key /\ q.body = r.body
                              /\ q.seen = r.seen /\ q.status = r.status
      BY <1>1, <1>4, <2>7, ToCall
    <3>2. Knows(q)'
      BY <1>2, <2>4, <3>1 DEF Knows
    <3>3. KnowsAlone(q)'
      BY <2>3, <3>1 DEF KnowsAlone
    <3> QED BY <1>1, <1>2, <1>3, <2>2, <3>1, <3>2, <3>3, HandlerStep
  <2> QED BY <2>5, <2>6, <2>7
<1> QED BY <1>5, <1>6

\* A folder is saved, or was.
LEMMA SaveFolderStep ==
    ASSUME LibraryConstants, LibraryInv, NEW c \in Calls, SaveFolder(c)
    PROVE  LibraryInv'
<1>1. PICK r \in Locals : r = call[c] /\ Knows(r) /\ KnowsAlone(r)
  BY Held
<1>2. /\ UNCHANGED <<upload, stored, member, tab, told, sent, libraryFaults>> /\ r.pc = "save"
      /\ libraryFaults' \in 0..MaxLibraryFaults
      /\ r.key \in Keys /\ r.body \in Paths /\ r.body \in Bodies /\ sent[r.key] > 0
  BY <1>1, Held DEF SaveFolder, Knows, Rest
<1>3. sent[r.key] = 1 => saved[r.key] = None
  BY <1>1, <1>2 DEF KnowsAlone
<1>4. None \notin Bodies
  BY Apart
<1>5. CASE saved' # saved
  <2>1. /\ saved[r.key] = None /\ upload[r.key].state = "not_started"
        /\ \A o \in Keys : saved[o] # r.body
        /\ saved' = [saved EXCEPT ![r.key] = r.body] /\ Answer(c, "saved")
    BY <1>1, <1>5 DEF SaveFolder
  <2>2. RowsInv' /\ Accrues(r.key)
    BY <1>2, <2>1, SavedRows
  <2>3. saved'[r.key] = r.body
    BY <1>2, <2>1 DEF LibraryInv, LibraryTyped
  <2>4. r.seen = None
    BY <1>1, <1>2, <2>1 DEF Knows
  <2>5. PICK q \in Locals : /\ Turns(c, q) /\ q.pc = "answer" /\ q.key = r.key /\ q.body = r.body
                            /\ q.seen = r.seen /\ q.status \in {"saved", "denied"}
    BY <1>1, <2>1, AnswerCall
  <2>6. Knows(q)'
    BY <1>2, <2>3, <2>4, <2>5 DEF Knows
  <2>7. KnowsAlone(q)'
    BY <2>5 DEF KnowsAlone
  <2> QED BY <1>1, <1>2, <2>2, <2>5, <2>6, <2>7, HandlerStep
<1>6. CASE saved' = saved
  <2>1. Answer(c, IF saved[r.key] = r.body THEN "saved" ELSE "conflict")
    <3>1. CASE saved' = [saved EXCEPT ![r.key] = r.body] /\ Answer(c, "saved") /\ saved[r.key] = None
      BY <1>2, <1>4, <1>6, <3>1 DEF LibraryInv, LibraryTyped
    <3>2. CASE Answer(c, IF saved[r.key] = r.body THEN "saved" ELSE "conflict")
      BY <3>2
    <3> QED BY <1>1, <3>1, <3>2 DEF SaveFolder
  <2>2. CASE saved[r.key] = r.body
    <3>1. PICK q \in Locals : /\ Turns(c, q) /\ q.pc = "answer" /\ q.key = r.key /\ q.body = r.body
                              /\ q.seen = r.seen /\ q.status \in {"saved", "denied"}
      BY <1>1, <2>1, <2>2, AnswerCall
    <3>2. Knows(q)
      BY <1>1, <1>2, <2>2, <3>1 DEF Knows
    <3>3. KnowsAlone(q)
      BY <3>1 DEF KnowsAlone
    <3> QED BY <1>1, <1>2, <1>6, <3>1, <3>2, <3>3, QuietStep DEF tables
  <2>3. CASE saved[r.key] # r.body
    <3>1. Answer(c, "conflict")
      BY <2>1, <2>3
    <3> QED BY <1>1, <1>2, <1>3, <1>6, <3>1, SettleStep DEF tables
  <2> QED BY <2>2, <2>3
<1> QED BY <1>5, <1>6

\* A pending upload is cancelled.
LEMMA CancelStep ==
    ASSUME LibraryConstants, LibraryInv, NEW c \in Calls, Cancel(c)
    PROVE  LibraryInv'
<1>1. PICK r \in Locals : r = call[c] /\ Knows(r) /\ KnowsAlone(r)
  BY Held
<1>2. /\ UNCHANGED <<saved, stored, member, tab, told, sent, libraryFaults>> /\ r.pc = "cancel"
      /\ libraryFaults' \in 0..MaxLibraryFaults /\ r.key \in Keys
  BY <1>1, Held DEF Cancel, Knows, Rest
<1>3. CASE Fails(c, "failed") /\ UNCHANGED upload
  BY <1>1, <1>2, <1>3, SettleStep DEF tables
<1>4. CASE /\ upload' = [upload EXCEPT ![r.key].state = IF @ = "pending" THEN "cancelled" ELSE @]
           /\ To(c, "check")
  <2>1. PICK row : row = [upload[r.key] EXCEPT !.state = IF @ = "pending" THEN "cancelled" ELSE @]
    OBVIOUS
  <2>2. upload[r.key] \in [state : States, form : Forms \cup {None}]
    BY <1>2 DEF LibraryInv, LibraryTyped
  <2>3. /\ row \in [state : States, form : Forms \cup {None}] /\ row.form = upload[r.key].form
        /\ row.state = IF upload[r.key].state = "pending" THEN "cancelled" ELSE upload[r.key].state
    BY <2>1, <2>2 DEF States
  <2>4. /\ upload' \in [Keys -> [state : States, form : Forms \cup {None}]] /\ upload'[r.key] = row
        /\ \A o \in Keys : o # r.key => upload'[o] = upload[o]
    BY <1>2, <1>4, <2>1, <2>3 DEF LibraryInv, LibraryTyped
  <2>5. ASSUME NEW o \in Keys PROVE RowsAgree(o)'
    <3>1. CASE o = r.key
      BY <1>2, <2>3, <2>4, <3>1 DEF RowsAgree, Object, LibraryInv
    <3>2. CASE o # r.key
      BY <1>2, <2>4, <3>2 DEF RowsAgree, Object, LibraryInv
    <3> QED BY <3>1, <3>2
  <2>6. VersionsApart' /\ VersionsFollow'
    BY <1>2 DEF LibraryInv, VersionsApart, VersionsFollow, Files
  <2>7. RowsInv'
    BY <1>2, <2>4, <2>5, <2>6 DEF RowsInv, LibraryInv, LibraryTyped, Object
  <2>8. Accrues(r.key)
    BY <1>2, <2>3, <2>4 DEF Accrues
  <2>9. "check" \in Pcs
    BY DEF Pcs
  <2>10. PICK q \in Locals : /\ Turns(c, q) /\ q.pc = "check" /\ q.key = r.key /\ q.body = r.body
                             /\ q.seen = r.seen /\ q.status = r.status
    BY <1>1, <1>4, <2>9, ToCall
  <2>11. Knows(q)'
    BY <1>1, <1>2, <2>10 DEF Knows
  <2>12. KnowsAlone(q)'
    BY <2>10 DEF KnowsAlone
  <2> QED BY <1>1, <1>2, <2>7, <2>8, <2>10, <2>11, <2>12, HandlerStep
<1> QED BY <1>1, <1>3, <1>4 DEF Cancel

\* The first of the two lookups of an operation.
LEMMA LookFirst ==
    ASSUME LibraryConstants, LibraryInv, NEW c \in Calls, call[c].pc = "check",
           UNCHANGED <<tables, member, tab, told, sent, libraryFaults>>,
           \/ call' = [call EXCEPT ![c].seen = saved[call[c].key], ![c].pc = "intent"]
           \/ call' = [call EXCEPT ![c].status = upload[call[c].key].state, ![c].pc = "row"]
    PROVE  LibraryInv'
<1>1. PICK r \in Locals : r = call[c] /\ Knows(r) /\ KnowsAlone(r)
  BY Held
<1>2. /\ r.key \in Keys /\ saved[r.key] \in Bodies \cup {None} /\ upload[r.key].state \in States
      /\ sent[r.key] > 0 /\ libraryFaults' \in 0..MaxLibraryFaults
  BY <1>1, Held DEF Knows, LibraryInv, LibraryTyped
<1>3. CASE call' = [call EXCEPT ![c].seen = saved[call[c].key], ![c].pc = "intent"]
  <2>1. PICK q : q = [r EXCEPT !.seen = saved[r.key], !.pc = "intent"]
    OBVIOUS
  <2>2. q \in Locals /\ q.pc = "intent" /\ q.key = r.key /\ q.body = r.body /\ q.seen = saved[r.key]
    BY <1>2, <2>1 DEF Locals, Pcs
  <2>3. call' = [call EXCEPT ![c] = q]
    BY <1>1, <1>3, <2>1 DEF LibraryInv, LibraryTyped
  <2>4. Turns(c, q)
    BY <2>2, <2>3 DEF LibraryInv, LibraryTyped, Turns
  <2>5. Knows(q) /\ KnowsAlone(q)
    BY <1>2, <2>2 DEF Knows, KnowsAlone
  <2> QED BY <1>1, <1>2, <2>2, <2>4, <2>5, QuietStep
<1>4. CASE call' = [call EXCEPT ![c].status = upload[call[c].key].state, ![c].pc = "row"]
  <2>1. PICK q : q = [r EXCEPT !.status = upload[r.key].state, !.pc = "row"]
    OBVIOUS
  <2>2. /\ q \in Locals /\ q.pc = "row" /\ q.key = r.key /\ q.body = r.body /\ q.seen = r.seen
        /\ q.status = upload[r.key].state
    BY <1>2, <2>1 DEF Locals, Pcs
  <2>3. call' = [call EXCEPT ![c] = q]
    BY <1>1, <1>4, <2>1 DEF LibraryInv, LibraryTyped
  <2>4. Turns(c, q)
    BY <2>2, <2>3 DEF LibraryInv, LibraryTyped, Turns
  <2>5. Knows(q)
    BY <1>1, <1>2, <2>2 DEF Knows
  <2>6. KnowsAlone(q)
    BY <2>2 DEF KnowsAlone
  <2> QED BY <1>1, <1>2, <2>2, <2>4, <2>5, <2>6, QuietStep
<1> QED BY <1>3, <1>4

\* The second, and the answer.
LEMMA LookSecond ==
    ASSUME LibraryConstants, LibraryInv, NEW c \in Calls, call[c].pc # "free",
           NEW row \in Bodies \cup {None}, NEW state \in States, Looked(c, row, state),
           row # None => saved[call[c].key] = row,
           state = "cancelled" => upload[call[c].key].state = "cancelled",
           UNCHANGED <<tables, member, tab, told, sent, libraryFaults>>
    PROVE  LibraryInv'
<1>1. PICK r \in Locals : r = call[c] /\ Knows(r) /\ KnowsAlone(r)
  BY Held
<1>2. PICK z : z = IF ~member THEN "denied" ELSE IF row # None THEN "committed" ELSE state
  OBVIOUS
<1>3. z \in States \cup {"denied"} /\ (z = "cancelled" => state = "cancelled")
  BY <1>2 DEF States
<1>4. PICK q : q = [r EXCEPT !.pc = "answer", !.seen = row, !.status = z]
  OBVIOUS
<1>5. /\ q \in Locals /\ q.pc = "answer" /\ q.key = r.key /\ q.body = r.body /\ q.seen = row
      /\ q.status = z
  BY <1>3, <1>4 DEF Locals, Pcs
<1>6. call' = [call EXCEPT ![c] = q]
  <2>1. call' = [call EXCEPT ![c].pc = "answer", ![c].seen = row, ![c].status = z]
    BY <1>2 DEF Looked
  <2> QED BY <1>1, <1>4, <2>1 DEF LibraryInv, LibraryTyped
<1>7. Turns(c, q)
  BY <1>5, <1>6 DEF LibraryInv, LibraryTyped, Turns
<1>8. z # "saved" /\ z # "conflict"
  BY <1>3 DEF States
<1>9. Knows(q)
  BY <1>1, <1>3, <1>5, <1>8 DEF Knows
<1>10. KnowsAlone(q)
  BY <1>5, <1>8 DEF KnowsAlone
<1>11. libraryFaults' \in 0..MaxLibraryFaults
  BY Held
<1> QED BY <1>1, <1>5, <1>7, <1>9, <1>10, <1>11, QuietStep

\* An operation is looked up, in either order.
LEMMA LookStep ==
    ASSUME LibraryConstants, LibraryInv, NEW c \in Calls, ReadRow(c) \/ ReadIntent(c)
    PROVE  LibraryInv'
<1>1. PICK r \in Locals : r = call[c] /\ Knows(r) /\ KnowsAlone(r)
  BY Held
<1>2. UNCHANGED <<tables, member, tab, told, sent, libraryFaults>> /\ r.pc \in {"check", "row", "intent"}
  BY <1>1 DEF ReadRow, ReadIntent, Rest
<1>3. /\ r.key \in Keys /\ saved[r.key] \in Bodies \cup {None} /\ upload[r.key].state \in States
      /\ r.seen \in Bodies \cup {None}
  BY <1>1, <1>2 DEF Knows, LibraryInv, LibraryTyped, Locals
<1>4. CASE r.pc = "check"
  BY <1>1, <1>2, <1>4, LookFirst DEF ReadRow, ReadIntent
<1>5. CASE r.pc = "row"
  <2>1. Looked(c, saved[r.key], r.status)
    BY <1>1, <1>5 DEF ReadRow, ReadIntent
  <2>2. r.status \in States /\ (r.status = "cancelled" => upload[r.key].state = "cancelled")
    BY <1>1, <1>5 DEF Knows
  <2> QED BY <1>1, <1>2, <1>3, <1>5, <2>1, <2>2, LookSecond
<1>6. CASE r.pc = "intent"
  <2>1. Looked(c, r.seen, upload[r.key].state)
    BY <1>1, <1>6 DEF ReadRow, ReadIntent
  <2>2. r.seen # None => saved[r.key] = r.seen
    BY <1>1, <1>6 DEF Knows
  <2> QED BY <1>1, <1>2, <1>3, <1>6, <2>1, <2>2, LookSecond
<1> QED BY <1>2, <1>4, <1>5, <1>6

-----------------------------------------------------------------------------
(* The tabs.                                                               *)

\* A request is sent under a key.
LEMMA SubmitStep ==
    ASSUME LibraryConstants, LibraryInv, NEW t \in Tabs, NEW c \in Calls,
           NEW op \in {"save", "check", "cancel"}, NEW k \in Keys,
           NEW body \in Bodies \cup {None}, op = "save" => body \in Bodies,
           NEW pending \in Bodies \cup {None}, Submit(t, c, op, k, body, pending)
    PROVE  LibraryInv'
<1>1. /\ call[c].pc = "free" /\ UNCHANGED <<upload, saved, stored, member, told, libraryFaults>>
      /\ call' = [call EXCEPT ![c] = [NoCall EXCEPT !.pc = op, !.key = k, !.body = body]]
      /\ tab' = [tab EXCEPT ![t] = [pending |-> pending, key |-> k, waits |-> c]]
      /\ sent' = [sent EXCEPT ![k] = @ + 1]
  BY DEF Submit, tables
<1>2. PICK q : q = [NoCall EXCEPT !.pc = op, !.key = k, !.body = body]
  OBVIOUS
<1>3. q = [pc |-> op, key |-> k, body |-> body, status |-> "none", seen |-> None]
  BY <1>2 DEF NoCall
<1>4. q \in Locals /\ q.pc = op /\ q.key = k /\ q.body = body /\ q.status = "none" /\ q.seen = None
  BY <1>3 DEF Locals, Pcs
<1>5. Turns(c, q)
  BY <1>1, <1>2, <1>4 DEF LibraryInv, LibraryTyped, Turns
<1>6. /\ sent' \in [Keys -> Nat] /\ sent'[k] = sent[k] + 1
      /\ \A o \in Keys : sent[o] \in Nat /\ (o # k => sent'[o] = sent[o])
  BY <1>1 DEF LibraryInv, LibraryTyped
<1>7. PICK w : w = [pending |-> pending, key |-> k, waits |-> c]
  OBVIOUS
<1>8. w \in Controls /\ w.key = k
  BY <1>7 DEF Controls
<1>9. /\ tab' \in [Tabs -> Controls] /\ tab'[t] = w
      /\ \A u \in Tabs : u # t => tab'[u] = tab[u]
  BY <1>1, <1>7, <1>8 DEF LibraryInv, LibraryTyped
<1>10. LibraryTyped'
  <2>1. \A u \in Tabs : tab'[u].pending # None => tab'[u].key \in Keys
    BY <1>8, <1>9 DEF LibraryInv, LibraryTyped
  <2> QED BY <1>1, <1>5, <1>6, <1>9, <2>1 DEF LibraryInv, LibraryTyped, Turns, Object
<1>11. ASSUME NEW o \in Keys PROVE RowsAgree(o)'
  <2>1. sent'[o] = 0 => sent[o] = 0
    BY <1>6
  <2> QED BY <1>1, <2>1 DEF LibraryInv, RowsAgree, Object
<1>12. VersionsApart' /\ VersionsFollow'
  BY <1>1 DEF LibraryInv, VersionsApart, VersionsFollow, Files
<1>13. ASSUME NEW d \in Calls PROVE Knows(call[d])' /\ KnowsAlone(call[d])'
  <2>1. PICK h : h = call'[d]
    OBVIOUS
  <2>2. CASE d = c
    <3>1. h = q
      BY <1>5, <2>1, <2>2 DEF Turns
    <3>2. Knows(h)'
      BY <1>4, <1>6, <3>1 DEF Knows
    <3>3. sent'[k] = 1 => saved[k] = None
      BY <1>6 DEF LibraryInv, RowsAgree
    <3>4. KnowsAlone(h)'
      BY <1>1, <1>4, <3>1, <3>3 DEF KnowsAlone
    <3> QED BY <2>1, <3>2, <3>4
  <2>3. CASE d # c
    <3>1. h = call[d] /\ h \in Locals /\ Knows(h) /\ KnowsAlone(h)
      BY <1>5, <2>1, <2>3 DEF Turns, LibraryInv, LibraryTyped
    <3>2. h.pc # "free" => /\ h.key \in Keys /\ sent'[h.key] > 0
                           /\ (sent'[h.key] = 1 => sent[h.key] = 1)
      BY <1>6, <3>1 DEF Knows
    <3>3. Knows(h)'
      BY <1>1, <3>1, <3>2 DEF Knows, Object
    <3>4. KnowsAlone(h)'
      BY <1>1, <3>1, <3>2 DEF KnowsAlone
    <3> QED BY <2>1, <3>3, <3>4
  <2> QED BY <2>2, <2>3
<1>14. ASSUME NEW d \in Calls, NEW e \in Calls, d # e, call'[d].pc # "free", call'[e].pc # "free",
              call'[d].key = call'[e].key
       PROVE  sent'[call'[d].key] > 1
  <2>1. ASSUME NEW f \in Calls, f # c, call'[f].pc # "free"
        PROVE  /\ call'[f] = call[f] /\ call[f].key \in Keys /\ sent[call[f].key] > 0
               /\ sent'[call[f].key] >= sent[call[f].key]
    BY <1>5, <1>6, <2>1 DEF Turns, LibraryInv, Knows
  <2>2. CASE d = c \/ e = c
    <3>1. PICK f \in Calls : f # c /\ call'[f].pc # "free" /\ call'[f].key = k /\ call'[d].key = k
      BY <1>4, <1>5, <1>14, <2>2 DEF Turns
    <3>2. sent[k] > 0
      BY <2>1, <3>1
    <3> QED BY <1>6, <3>1, <3>2
  <2>3. CASE d # c /\ e # c
    <3>1. sent[call[d].key] > 1
      BY <1>14, <2>1, <2>3 DEF LibraryInv, SentApart
    <3> QED BY <1>6, <1>14, <2>1, <2>3, <3>1
  <2> QED BY <2>2, <2>3
<1>15. SentApart'
  BY <1>14 DEF SentApart
<1>16. ASSUME NEW n \in told' PROVE Stands(n)'
  BY <1>1 DEF LibraryInv, Stands, Alike
<1> QED BY <1>10, <1>11, <1>12, <1>13, <1>15, <1>16 DEF LibraryInv

\* The ways a tab sends one.
LEMMA SendStep ==
    ASSUME LibraryConstants, LibraryInv, NEW t \in Tabs, NEW c \in Calls,
           \/ Upload(t, c) \/ Resume(t, c) \/ Resend(t, c)
           \/ CheckSaved(t, c) \/ CancelIncomplete(t, c)
    PROVE  LibraryInv'
<1>1. /\ tab[t].pending \in Bodies \cup {None}
      /\ tab[t].pending # None => tab[t].key \in Keys /\ tab[t].pending \in Bodies
  BY DEF LibraryInv, LibraryTyped, Controls
<1>2. CASE Upload(t, c)
  <2>1. PICK k \in Keys, b \in Bodies : Submit(t, c, "save", k, b, b)
    BY <1>2 DEF Upload
  <2> QED BY <2>1, SubmitStep
<1>3. CASE Resume(t, c)
  <2>1. PICK k \in Keys, x \in Contents :
            /\ upload[k].state # "not_started"
            /\ Submit(t, c, "save", k, [upload[k].form EXCEPT !.content = x],
                      [upload[k].form EXCEPT !.content = x])
    BY <1>3 DEF Resume
  <2>2. PICK f \in Forms : f = upload[k].form
    BY <2>1 DEF LibraryInv, RowsAgree
  <2>3. PICK b : b = [f EXCEPT !.content = x]
    OBVIOUS
  <2>4. b \in Bodies
    BY <2>3 DEF Forms, Bodies
  <2>5. Submit(t, c, "save", k, b, b)
    BY <2>1, <2>2, <2>3
  <2> QED BY <2>4, <2>5, SubmitStep
<1>4. CASE Resend(t, c)
  BY <1>1, <1>4, SubmitStep DEF Resend
<1>5. CASE CheckSaved(t, c)
  BY <1>1, <1>5, SubmitStep DEF CheckSaved
<1>6. CASE CancelIncomplete(t, c)
  <2>1. PICK k \in Keys : Submit(t, c, "cancel", k, tab[t].pending, tab[t].pending)
    BY <1>6 DEF CancelIncomplete
  <2> QED BY <1>1, <2>1, SubmitStep
<1> QED BY <1>2, <1>3, <1>4, <1>5, <1>6

\* A step that frees handlers, settles tabs and gives notices that stand.
LEMMA TabStep ==
    ASSUME LibraryConstants, LibraryInv, UNCHANGED <<upload, saved, stored, sent>>,
           member' \in BOOLEAN, libraryFaults' \in 0..MaxLibraryFaults,
           call' \in [Calls -> Locals],
           \A d \in Calls : call'[d] = call[d] \/ call'[d] = NoCall,
           tab' \in [Tabs -> Controls],
           \A t \in Tabs : tab'[t].pending # None => tab'[t].key \in Keys,
           \A n \in told' : n \in told \/ /\ n.what \in {"saved", "confirmed", "cancelled"}
                                          /\ n.key \in Keys /\ Stands(n)
    PROVE  LibraryInv'
<1>1. LibraryTyped'
  BY DEF LibraryInv, LibraryTyped, Object
<1>2. ASSUME NEW k \in Keys PROVE RowsAgree(k)'
  BY DEF LibraryInv, RowsAgree, Object
<1>3. VersionsApart' /\ VersionsFollow'
  BY DEF LibraryInv, VersionsApart, VersionsFollow, Files
<1>4. NoCall.pc = "free"
  BY DEF NoCall
<1>5. ASSUME NEW d \in Calls PROVE Knows(call[d])' /\ KnowsAlone(call[d])'
  <2>1. PICK h : h = call'[d]
    OBVIOUS
  <2>2. CASE h = NoCall
    BY <1>4, <2>1, <2>2 DEF Knows, KnowsAlone
  <2>3. CASE h = call[d]
    BY <2>1, <2>3 DEF LibraryInv, Knows, KnowsAlone, Object
  <2> QED BY <2>1, <2>2, <2>3
<1>6. SentApart'
  BY <1>4 DEF LibraryInv, SentApart
<1>7. ASSUME NEW n \in told' PROVE Stands(n)'
  <2>1. Stands(n)
    BY DEF LibraryInv
  <2> QED BY <2>1 DEF Stands, Alike
<1> QED BY <1>1, <1>2, <1>3, <1>5, <1>6, <1>7 DEF LibraryInv

\* A handler is freed, a tab stops waiting, a tab starts anew.
LEMMA FreedCall ==
    ASSUME LibraryInv, NEW c \in Calls, call' = [call EXCEPT ![c] = NoCall]
    PROVE  call' \in [Calls -> Locals] /\ \A d \in Calls : call'[d] = call[d] \/ call'[d] = NoCall
<1>1. NoCall \in Locals
  BY DEF NoCall, Locals, Pcs
<1> QED BY <1>1 DEF LibraryInv, LibraryTyped

LEMMA SettledTab ==
    ASSUME LibraryInv, NEW t \in Tabs,
           \/ tab' = [tab EXCEPT ![t].waits = None]
           \/ tab' = [tab EXCEPT ![t] = NoTab]
    PROVE  /\ tab' \in [Tabs -> Controls]
           /\ \A u \in Tabs : tab'[u].pending # None => tab'[u].key \in Keys
<1>1. PICK r \in Controls : r = tab[t]
  BY DEF LibraryInv, LibraryTyped
<1>2. PICK w : w = IF tab' = [tab EXCEPT ![t] = NoTab] THEN NoTab ELSE [r EXCEPT !.waits = None]
  OBVIOUS
<1>3. /\ w \in Controls
      /\ w.pending \in {None, r.pending} /\ (w.pending # None => w.key = r.key)
  <2>1. CASE w = NoTab
    BY <2>1 DEF Controls, NoTab
  <2>2. CASE w = [r EXCEPT !.waits = None]
    BY <1>1, <2>2 DEF Controls
  <2> QED BY <1>2, <2>1, <2>2
<1>4. tab' = [tab EXCEPT ![t] = w]
  BY <1>1, <1>2 DEF LibraryInv, LibraryTyped
<1>5. r.pending # None => r.key \in Keys
  BY <1>1 DEF LibraryInv, LibraryTyped
<1> QED BY <1>3, <1>4, <1>5 DEF LibraryInv, LibraryTyped

\* An answer is read.
LEMMA ReceiveStep ==
    ASSUME LibraryConstants, LibraryInv, NEW t \in Tabs, Receive(t)
    PROVE  LibraryInv'
<1>1. PICK c \in Calls : c = tab[t].waits
  BY DEF Receive, Idle, LibraryInv, LibraryTyped, Controls
<1>2. PICK a \in Locals : a = call[c] /\ Knows(a) /\ a.pc = "answer" /\ a.key \in Keys
  <2>1. call[c] \in Locals /\ Knows(call[c]) /\ call[c].pc = "answer"
    BY <1>1 DEF Receive, LibraryInv, LibraryTyped
  <2> QED BY <2>1 DEF Knows
<1>3. PICK body : body = IF a.body # None THEN a.body ELSE upload[a.key].form
  OBVIOUS
<1>4. /\ UNCHANGED <<upload, saved, stored, sent, member, libraryFaults>>
      /\ call' = [call EXCEPT ![c] = NoCall]
  BY <1>1 DEF Receive, tables
<1>5. \/ Keep(t)
      \/ Complete(t, {})
      \/ a.status = "saved" /\ Complete(t, News(a.key, "saved", a.body))
      \/ a.status = "committed" /\ Alike(a.seen, body) /\ Complete(t, News(a.key, "confirmed", body))
      \/ a.status = "cancelled" /\ Complete(t, News(a.key, "cancelled", None))
  BY <1>1, <1>2, <1>3 DEF Receive
<1>6. /\ member' \in BOOLEAN /\ libraryFaults' \in 0..MaxLibraryFaults
  BY <1>4 DEF LibraryInv, LibraryTyped
<1>7. /\ call' \in [Calls -> Locals]
      /\ \A d \in Calls : call'[d] = call[d] \/ call'[d] = NoCall
  BY <1>4, FreedCall
<1>8. /\ tab' \in [Tabs -> Controls]
      /\ \A u \in Tabs : tab'[u].pending # None => tab'[u].key \in Keys
  <2>1. \/ tab' = [tab EXCEPT ![t].waits = None]
        \/ tab' = [tab EXCEPT ![t] = NoTab]
    BY <1>5 DEF Keep, Complete
  <2> QED BY <2>1, SettledTab
<1>9. ASSUME NEW n \in told'
      PROVE  n \in told \/ /\ n.what \in {"saved", "confirmed", "cancelled"}
                           /\ n.key \in Keys /\ Stands(n)
  <2>1. CASE n \in told
    BY <2>1
  <2>2. CASE a.status = "saved" /\ n = [key |-> a.key, what |-> "saved", body |-> a.body]
    BY <1>2, <2>2 DEF Knows, Stands
  <2>3. CASE /\ a.status = "committed" /\ Alike(a.seen, body)
             /\ n = [key |-> a.key, what |-> "confirmed", body |-> body]
    <3>1. a.seen # None
      BY <2>3, Apart DEF Alike, Bodies
    <3>2. saved[a.key] = a.seen
      BY <1>2, <3>1 DEF Knows
    <3> QED BY <1>2, <2>3, <3>2 DEF Stands
  <2>4. CASE a.status = "cancelled" /\ n = [key |-> a.key, what |-> "cancelled", body |-> None]
    BY <1>2, <2>4 DEF Knows, Stands
  <2> QED BY <1>5, <2>1, <2>2, <2>3, <2>4 DEF Keep, Complete, News
<1> QED BY <1>4, <1>6, <1>7, <1>8, <1>9, TabStep

\* Nobody waits, a tab is closed, a handler is lost, the membership ends.
LEMMA LeaveStep ==
    ASSUME LibraryConstants, LibraryInv,
           \/ \E t \in Tabs : GiveUp(t) \/ Reload(t)
           \/ \E c \in Calls : Lost(c)
           \/ Suspend \/ UNCHANGED libraryVars
    PROVE  LibraryInv'
<1>1. /\ UNCHANGED <<upload, saved, stored, sent>> /\ member' \in BOOLEAN
      /\ told' = told
  BY DEF GiveUp, Reload, Lost, Suspend, Keep, Complete, libraryVars, tables, LibraryInv, LibraryTyped
<1>2. libraryFaults' \in 0..MaxLibraryFaults
  <2>1. libraryFaults \in 0..MaxLibraryFaults /\ MaxLibraryFaults \in Nat
    BY Apart DEF LibraryInv, LibraryTyped
  <2> QED BY <2>1 DEF GiveUp, Reload, Lost, Suspend, libraryVars
<1>3. /\ call' \in [Calls -> Locals]
      /\ \A d \in Calls : call'[d] = call[d] \/ call'[d] = NoCall
  <2>1. CASE call' = call
    BY <2>1 DEF LibraryInv, LibraryTyped
  <2>2. CASE \E c \in Calls : call' = [call EXCEPT ![c] = NoCall]
    BY <2>2, FreedCall
  <2> QED BY <2>1, <2>2 DEF GiveUp, Reload, Lost, Suspend, libraryVars
<1>4. /\ tab' \in [Tabs -> Controls]
      /\ \A u \in Tabs : tab'[u].pending # None => tab'[u].key \in Keys
  <2>1. CASE tab' = tab
    BY <2>1 DEF LibraryInv, LibraryTyped
  <2>2. CASE \E t \in Tabs : \/ tab' = [tab EXCEPT ![t].waits = None]
                             \/ tab' = [tab EXCEPT ![t] = NoTab]
    BY <2>2, SettledTab
  <2> QED BY <2>1, <2>2 DEF GiveUp, Reload, Lost, Suspend, Keep, Complete, libraryVars
<1> QED BY <1>1, <1>2, <1>3, <1>4, TabStep

-----------------------------------------------------------------------------
(* The theorems.                                                           *)

LEMMA InitLibrary ==
    ASSUME LibraryConstants, LibraryInit
    PROVE  LibraryInv
<1>1. /\ \A k \in Keys : upload[k] = NoRow /\ saved[k] = None /\ sent[k] = 0
      /\ \A c \in Calls : call[c] = NoCall
      /\ \A t \in Tabs : tab[t] = NoTab
      /\ told = {}
  BY DEF LibraryInit
<1>2. NoRow \in [state : States, form : Forms \cup {None}] /\ NoRow.state = "not_started"
  BY DEF NoRow, States
<1>3. NoCall \in Locals /\ NoCall.pc = "free"
  BY DEF NoCall, Locals, Pcs
<1>4. NoTab \in Controls /\ NoTab.pending = None
  BY DEF NoTab, Controls
<1>5. None \notin Bodies /\ MaxLibraryFaults \in Nat
  BY Apart
<1>6. LibraryTyped
  BY <1>1, <1>2, <1>3, <1>4, <1>5 DEF LibraryInit, LibraryTyped, States
<1>7. \A k \in Keys : RowsAgree(k)
  BY <1>1, <1>2, <1>5 DEF RowsAgree, Bodies
<1>8. VersionsApart /\ VersionsFollow
  BY <1>1, <1>5 DEF VersionsApart, VersionsFollow, Files, Bodies
<1>9. \A c \in Calls : Knows(call[c]) /\ KnowsAlone(call[c])
  BY <1>1, <1>3 DEF Knows, KnowsAlone
<1>10. SentApart
  BY <1>1, <1>3 DEF SentApart
<1> QED BY <1>1, <1>6, <1>7, <1>8, <1>9, <1>10 DEF LibraryInv

LEMMA NextLibrary ==
    ASSUME LibraryConstants, LibraryInv, [LibraryNext]_libraryVars
    PROVE  LibraryInv'
<1>1. ASSUME NEW t \in Tabs, NEW c \in Calls,
             \/ Upload(t, c) \/ Resume(t, c) \/ Resend(t, c)
             \/ CheckSaved(t, c) \/ CancelIncomplete(t, c)
      PROVE  LibraryInv'
  BY <1>1, SendStep
<1>2. ASSUME NEW c \in Calls,
             \/ Original(c) \/ ReadLatest(c) \/ Stage(c) \/ Put(c) \/ Insert(c) \/ Recheck(c)
             \/ Reread(c) \/ SaveFolder(c) \/ Cancel(c) \/ ReadRow(c) \/ ReadIntent(c)
             \/ CallFails(c)
      PROVE  LibraryInv'
  BY <1>2, OriginalStep, LatestStep, StageStep, PutStep, InsertStep, RereadStep, SaveFolderStep,
     CancelStep, LookStep, CallFailsStep
<1>3. ASSUME NEW t \in Tabs, Receive(t) PROVE LibraryInv'
  BY <1>3, ReceiveStep
<1>4. ASSUME \/ \E t \in Tabs : GiveUp(t) \/ Reload(t)
             \/ \E c \in Calls : Lost(c)
             \/ Suspend \/ UNCHANGED libraryVars
      PROVE  LibraryInv'
  BY <1>4, LeaveStep
<1> QED BY <1>1, <1>2, <1>3, <1>4 DEF LibraryNext

\* Every state of the library agrees with itself: rows, handlers and what the tabs were told.
THEOREM Library ==
    ASSUME LibraryConstants
    PROVE  LibrarySpec => []LibraryInv
<1>1. LibraryInit => LibraryInv
  BY InitLibrary
<1>2. LibraryInv /\ [LibraryNext]_libraryVars => LibraryInv'
  BY NextLibrary
<1> QED BY <1>1, <1>2, PTL DEF LibrarySpec

\* The variables keep their kinds in every state the handlers and tabs reach.
THEOREM LibraryIsTyped ==
    ASSUME LibraryConstants
    PROVE  LibrarySpec => []LibraryTypeOK
<1>1. LibraryInv => LibraryTypeOK
  BY DEF LibraryInv, LibraryTyped, LibraryTypeOK, Controls, States
<1> QED BY <1>1, Library, PTL

\* What upload(), checkSaved() and cancelIncomplete() tell the user is so and stays so, and a
\* refused save that was sent once was not made.
THEOREM Notices ==
    ASSUME LibraryConstants
    PROVE  LibrarySpec => []NoticesTrue
<1>1. ASSUME LibraryInv, NEW n \in told
      PROVE  \/ n.what = "saved" /\ saved[n.key] = n.body
             \/ n.what = "confirmed" /\ Alike(saved[n.key], n.body)
             \/ n.what = "cancelled" /\ saved[n.key] = None
  <2>1. Stands(n) /\ n.key \in Keys
    BY <1>1 DEF LibraryInv, LibraryTyped
  <2>2. RowsAgree(n.key) /\ saved[n.key] \in Forms \cup Paths \cup {None}
    BY <1>1, <2>1 DEF LibraryInv, LibraryTyped, Bodies
  <2> QED BY <2>1, <2>2 DEF Stands, RowsAgree
<1>2. ASSUME LibraryInv, NEW c \in Calls, call[c].pc = "answer", call[c].status = "conflict",
             sent[call[c].key] = 1
      PROVE  saved[call[c].key] = None
  BY <1>2 DEF LibraryInv, KnowsAlone
<1>3. LibraryInv => NoticesTrue
  BY <1>1, <1>2 DEF NoticesTrue
<1> QED BY <1>3, Library, PTL

\* The versions of each document follow one another, each with its original and its upload;
\* no two requests made the same version or folder.
THEOREM Versions ==
    ASSUME LibraryConstants
    PROVE  LibrarySpec => []VersionsBacked
<1>1. ASSUME LibraryInv, NEW k \in Files
      PROVE  /\ Object(saved[k]) \in stored
             /\ upload[k] = [state |-> "committed", form |-> saved[k]]
  <2>1. k \in Keys /\ saved[k] \in Forms /\ RowsAgree(k)
    BY <1>1 DEF Files, LibraryInv
  <2>2. PICK u \in [state : States, form : Forms \cup {None}] : u = upload[k]
    BY <1>1, <2>1 DEF LibraryInv, LibraryTyped
  <2>3. u.state = "committed" /\ u.form = saved[k] /\ Object(saved[k]) \in stored
    BY <2>1, <2>2 DEF RowsAgree
  <2>4. u = [state |-> u.state, form |-> u.form]
    OBVIOUS
  <2> QED BY <2>2, <2>3, <2>4
<1>2. ASSUME LibraryInv, NEW k \in Keys, upload[k].state = "committed"
      PROVE  saved[k] = upload[k].form
  BY <1>2 DEF LibraryInv, RowsAgree
<1>3. LibraryInv => VersionsBacked
  BY <1>1, <1>2 DEF VersionsBacked, LibraryInv, VersionsApart, VersionsFollow
<1> QED BY <1>3, Library, PTL

-----------------------------------------------------------------------------
(* What was saved, cancelled or stored stands.                             *)

\* What a step may do to the rows: reserve an upload, cancel a pending one, or save the next
\* version of a document or a folder nobody has.
Reserves(k, b) ==
    /\ upload[k].state = "not_started"
    /\ upload' = [upload EXCEPT ![k] = [state |-> "pending", form |-> b]]
    /\ UNCHANGED saved
Cancels(k) ==
    /\ upload[k].state = "pending" /\ upload' = [upload EXCEPT ![k].state = "cancelled"]
    /\ UNCHANGED saved
Saves(k, b) ==
    /\ saved[k] = None /\ saved' = [saved EXCEPT ![k] = b]
    /\ upload[k].state # "cancelled"
    /\ \/ b \in Paths /\ UNCHANGED upload
       \/ /\ b \in Forms /\ b.expected = Latest(b.doc)
          /\ upload[k] = [state |-> "pending", form |-> b]
          /\ upload' = [upload EXCEPT ![k].state = "committed"]

\* Every step of every handler, tab and fault is one of these, and keeps the originals.
LEMMA RowsEffect ==
    ASSUME LibraryConstants, LibraryInv, [LibraryNext]_libraryVars
    PROVE  /\ \/ UNCHANGED <<upload, saved>>
              \/ \E k \in Keys : Cancels(k) \/ \E b \in Bodies : Reserves(k, b) \/ Saves(k, b)
           /\ stored \subseteq stored'
<1>1. ASSUME UNCHANGED tables
      PROVE  UNCHANGED <<upload, saved>> /\ stored \subseteq stored'
  BY <1>1 DEF tables
<1>2. ASSUME NEW t \in Tabs, NEW c \in Calls,
             \/ Upload(t, c) \/ Resume(t, c) \/ Resend(t, c)
             \/ CheckSaved(t, c) \/ CancelIncomplete(t, c)
      PROVE  UNCHANGED <<upload, saved>> /\ stored \subseteq stored'
  <2>1. ASSUME NEW op, NEW k, NEW b, NEW p, Submit(t, c, op, k, b, p) PROVE UNCHANGED tables
    BY <2>1 DEF Submit
  <2>2. UNCHANGED tables
    BY <1>2, <2>1 DEF Upload, Resume, Resend, CheckSaved, CancelIncomplete
  <2> QED BY <1>1, <2>2
<1>3. CASE \E c \in Calls : \/ Original(c) \/ ReadLatest(c) \/ Recheck(c) \/ Reread(c)
                            \/ ReadRow(c) \/ ReadIntent(c) \/ CallFails(c) \/ Lost(c)
  BY <1>1, <1>3 DEF Original, ReadLatest, Recheck, Reread, ReadRow, ReadIntent, CallFails, Lost
<1>4. CASE \/ \E t \in Tabs : Receive(t) \/ GiveUp(t) \/ Reload(t)
           \/ Suspend \/ UNCHANGED libraryVars
  BY <1>1, <1>4 DEF Receive, GiveUp, Reload, Suspend, libraryVars
<1>5. CASE \E c \in Calls : Put(c)
  BY <1>5 DEF Put
<1>6. ASSUME NEW c \in Calls, Stage(c)
      PROVE  /\ UNCHANGED <<upload, saved>> \/ \E k \in Keys, b \in Bodies : Reserves(k, b)
             /\ stored \subseteq stored'
  <2>1. PICK r \in Locals : r = call[c] /\ Knows(r)
    BY Held
  <2>2. r.key \in Keys /\ r.body \in Bodies /\ UNCHANGED <<saved, stored>>
    BY <1>6, <2>1 DEF Stage, Knows, Bodies
  <2> QED BY <1>6, <2>1, <2>2 DEF Stage, Reserves
<1>7. ASSUME NEW c \in Calls, Insert(c)
      PROVE  /\ UNCHANGED <<upload, saved>> \/ \E k \in Keys, b \in Bodies : Saves(k, b)
             /\ stored \subseteq stored'
  <2>1. PICK r \in Locals : r = call[c] /\ Knows(r)
    BY Held
  <2>2. /\ r.key \in Keys /\ r.body \in Forms /\ r.body \in Bodies /\ UNCHANGED stored
        /\ upload[r.key].state # "not_started"
    BY <1>7, <2>1 DEF Insert, Knows, Bodies
  <2>3. CASE ~MayInsert(r.key, r.body)
    BY <1>7, <2>1, <2>2, <2>3 DEF Insert
  <2>4. CASE MayInsert(r.key, r.body)
    <3>1. /\ saved[r.key] = None /\ r.body.expected = Latest(r.body.doc)
          /\ upload[r.key] = [state |-> "pending", form |-> r.body]
          /\ saved' = [saved EXCEPT ![r.key] = r.body]
          /\ upload' = [upload EXCEPT ![r.key].state = "committed"]
      BY <1>7, <2>1, <2>2, <2>4 DEF Insert, MayInsert
    <3>2. upload[r.key].state = "pending"
      BY <3>1
    <3>3. Saves(r.key, r.body)
      BY <2>2, <3>1, <3>2 DEF Saves
    <3> QED BY <2>2, <3>3
  <2> QED BY <2>3, <2>4
<1>8. ASSUME NEW c \in Calls, SaveFolder(c)
      PROVE  /\ UNCHANGED <<upload, saved>> \/ \E k \in Keys, b \in Bodies : Saves(k, b)
             /\ stored \subseteq stored'
  <2>1. PICK r \in Locals : r = call[c] /\ Knows(r)
    BY Held
  <2>2. r.key \in Keys /\ r.body \in Paths /\ r.body \in Bodies /\ UNCHANGED <<upload, stored>>
    BY <1>8, <2>1 DEF SaveFolder, Knows, Bodies
  <2> QED BY <1>8, <2>1, <2>2 DEF SaveFolder, Saves
<1>9. ASSUME NEW c \in Calls, Cancel(c)
      PROVE  /\ UNCHANGED <<upload, saved>> \/ \E k \in Keys : Cancels(k)
             /\ stored \subseteq stored'
  <2>1. PICK r \in Locals : r = call[c] /\ Knows(r)
    BY Held
  <2>2. r.key \in Keys /\ UNCHANGED <<saved, stored>>
    BY <1>9, <2>1 DEF Cancel, Knows
  <2>3. UNCHANGED upload
        \/ upload' = [upload EXCEPT ![r.key].state = IF @ = "pending" THEN "cancelled" ELSE @]
    BY <1>9, <2>1 DEF Cancel
  <2>4. upload \in [Keys -> [state : States, form : Forms \cup {None}]]
    BY DEF LibraryInv, LibraryTyped
  <2>5. CASE upload[r.key].state = "pending"
    BY <2>2, <2>3, <2>5 DEF Cancels
  <2>6. CASE upload[r.key].state # "pending"
    <3>1. PICK row \in [state : States, form : Forms \cup {None}] : row = upload[r.key]
      BY <2>2, <2>4
    <3>2. [row EXCEPT !.state = row.state] = row
      OBVIOUS
    <3>3. UNCHANGED upload
      BY <2>2, <2>3, <2>4, <2>6, <3>1, <3>2
    <3> QED BY <2>2, <3>3
  <2> QED BY <2>2, <2>5, <2>6
<1> QED BY <1>2, <1>3, <1>4, <1>5, <1>6, <1>7, <1>8, <1>9 DEF LibraryNext

\* A saved version or folder is never rewritten; an upload keeps the form it was reserved with,
\* and once committed or cancelled is so for good: what was cancelled is not saved later, by
\* whatever request is still on its way.  An original that was stored stays.
SavesStand ==
    [][/\ \A k \in Keys :
             /\ saved[k] # None => saved'[k] = saved[k]
             /\ upload[k].state # "not_started" =>
                   /\ upload'[k].form = upload[k].form
                   /\ upload'[k].state # "not_started"
                   /\ upload[k].state # "pending" => upload'[k].state = upload[k].state
             /\ upload[k].state = "cancelled" => saved'[k] = saved[k]
       /\ stored \subseteq stored']_libraryVars

THEOREM SavesAreKept ==
    ASSUME LibraryConstants
    PROVE  LibrarySpec => SavesStand
<1> DEFINE Kept(k) ==
       /\ saved[k] # None => saved'[k] = saved[k]
       /\ upload[k].state # "not_started" =>
             /\ upload'[k].form = upload[k].form
             /\ upload'[k].state # "not_started"
             /\ upload[k].state # "pending" => upload'[k].state = upload[k].state
       /\ upload[k].state = "cancelled" => saved'[k] = saved[k]
<1>1. ASSUME LibraryInv, [LibraryNext]_libraryVars, NEW k \in Keys PROVE Kept(k)
  <2>1. /\ upload \in [Keys -> [state : States, form : Forms \cup {None}]]
        /\ saved \in [Keys -> Bodies \cup {None}]
    BY <1>1 DEF LibraryInv, LibraryTyped
  <2>2. PICK u \in [state : States, form : Forms \cup {None}] : u = upload[k]
    BY <2>1
  <2>3. CASE UNCHANGED <<upload, saved>>
    BY <2>2, <2>3 DEF States
  <2>4. ASSUME NEW o \in Keys, NEW b \in Bodies, Reserves(o, b) PROVE Kept(k)
    <3>1. o = k \/ upload'[k] = upload[k]
      BY <2>1, <2>4 DEF Reserves
    <3> QED BY <2>2, <2>4, <3>1 DEF Reserves, States
  <2>5. ASSUME NEW o \in Keys, NEW s \in {"committed", "cancelled"},
               upload' = [upload EXCEPT ![o].state = s], upload[o].state = "pending"
        PROVE  /\ upload'[k].form = upload[k].form
               /\ \/ upload'[k].state = upload[k].state
                  \/ upload[k].state = "pending" /\ upload'[k].state = s
    <3>1. CASE o = k
      <4>1. PICK row : row = [u EXCEPT !.state = s]
        OBVIOUS
      <4>2. row.form = u.form /\ row.state = s
        BY <4>1
      <4>3. upload'[k] = row
        BY <2>1, <2>2, <2>5, <3>1, <4>1
      <4> QED BY <2>2, <2>5, <3>1, <4>2, <4>3
    <3>2. CASE o # k
      BY <2>1, <2>5, <3>2
    <3> QED BY <3>1, <3>2
  <2>6. ASSUME NEW o \in Keys, Cancels(o) PROVE Kept(k)
    BY <2>2, <2>5, <2>6 DEF Cancels, States
  <2>7. ASSUME NEW o \in Keys, NEW b \in Bodies, Saves(o, b) PROVE Kept(k)
    <3>1. (saved[k] # None => saved'[k] = saved[k])
          /\ (upload[k].state = "cancelled" => saved'[k] = saved[k])
      BY <2>1, <2>7 DEF Saves
    <3>2. CASE UNCHANGED upload
      BY <2>2, <3>1, <3>2 DEF States
    <3>3. CASE upload[o] = [state |-> "pending", form |-> b]
               /\ upload' = [upload EXCEPT ![o].state = "committed"]
      BY <2>2, <2>5, <3>1, <3>3 DEF States
    <3> QED BY <2>7, <3>2, <3>3 DEF Saves
  <2> QED BY <1>1, <2>3, <2>4, <2>6, <2>7, RowsEffect
<1> DEFINE Stand == (\A k \in Keys : Kept(k)) /\ stored \subseteq stored'
<1>2. ASSUME LibraryInv, [LibraryNext]_libraryVars PROVE Stand
  BY <1>1, <1>2, RowsEffect
<1> QED BY <1>2, Library, PTL DEF LibrarySpec, SavesStand

-----------------------------------------------------------------------------
(* Each document is a compare-and-set ledger.                              *)

\* The saves of a document, and the latest version, in a table of saves.
SavesOf(table, d) == {k \in {f \in Keys : table[f] \in Forms} : table[k].doc = d}
LatestIn(table, d) == Max({0} \cup {table[k].expected + 1 : k \in SavesOf(table, d)})

\* A number that no version is above, and one reaches, is the latest.
LEMMA LatestFound ==
    ASSUME LibraryConstants, NEW table, NEW d, NEW n \in Nat,
           \A k \in SavesOf(table, d) : table[k].expected \in Nat /\ table[k].expected + 1 <= n,
           n = 0 \/ \E k \in SavesOf(table, d) : table[k].expected + 1 = n
    PROVE  LatestIn(table, d) = n
<1> DEFINE S == {0} \cup {table[k].expected + 1 : k \in SavesOf(table, d)}
<1>1. n \in S /\ \A x \in S : x \in Nat /\ x <= n
  OBVIOUS
<1> HIDE DEF S
<1>2. Max(S) \in S /\ \A x \in S : Max(S) >= x
  <2>1. \E z \in S : \A x \in S : z >= x
    BY <1>1
  <2> QED BY <2>1 DEF Max
<1>3. Max(S) = n
  <2>1. PICK m : m = Max(S)
    OBVIOUS
  <2>2. m \in Nat /\ m <= n /\ m >= n
    BY <1>1, <1>2, <2>1
  <2> QED BY <2>1, <2>2
<1> QED BY <1>3 DEF LatestIn, S

\* A save, as a write of the ledger of its document.
SaveEntry(k) == [key |-> k, expected |-> saved[k].expected, form |-> saved[k]]

Ledger(d) == INSTANCE MatterLedger WITH
    Origin <- 0,
    Entries <- [key : Keys, expected : 0 .. Cardinality(Keys), form : Forms],
    revision <- Latest(d),
    log <- {SaveEntry(k) : k \in {f \in Files : saved[f].doc = d}}

\* The versions of a document are its writes: each follows the version its author had read, and a
\* key saves once, whatever retries, cancels, recoveries and refused batches surround it.
THEOREM DocumentsAreLedgers ==
    ASSUME LibraryConstants, NEW d \in Keys
    PROVE  LibrarySpec => Ledger(d)!Spec
<1> DEFINE log == {SaveEntry(k) : k \in {f \in Files : saved[f].doc = d}}
<1>0. /\ Latest(d) = LatestIn(saved, d) /\ Latest(d)' = LatestIn(saved', d)
      /\ {f \in Files : saved[f].doc = d} = SavesOf(saved, d)
      /\ {f \in Files : saved[f].doc = d}' = SavesOf(saved', d)
  BY DEF Latest, LatestIn, SavesOf, Files
<1>1. LibraryInit => Ledger(d)!Init
  <2> SUFFICES ASSUME LibraryInit PROVE Ledger(d)!Init
    OBVIOUS
  <2>1. \A k \in Keys : saved[k] \notin Forms
    BY Apart DEF LibraryInit, Bodies
  <2>2. SavesOf(saved, d) = {}
    BY <2>1 DEF SavesOf
  <2>3. Latest(d) = 0
    BY <1>0, <2>2, LatestFound
  <2> QED BY <1>0, <2>2, <2>3 DEF Ledger!Init
<1>2. ASSUME LibraryInv, [LibraryNext]_libraryVars
      PROVE  [Ledger(d)!Next]_(Ledger(d)!ledgerVars)
  <2>1. ASSUME SavesOf(saved', d) = SavesOf(saved, d),
               \A k \in SavesOf(saved, d) : saved'[k] = saved[k]
        PROVE  UNCHANGED Ledger(d)!ledgerVars
    <3>1. {saved'[k].expected + 1 : k \in SavesOf(saved', d)}
            = {saved[k].expected + 1 : k \in SavesOf(saved, d)}
      BY <2>1
    <3>2. Latest(d)' = Latest(d)
      BY <1>0, <3>1 DEF LatestIn
    <3>3. log' = log
      BY <1>0, <2>1 DEF SaveEntry
    <3> QED BY <3>2, <3>3 DEF Ledger!ledgerVars
  <2>2. CASE UNCHANGED saved
    BY <2>1, <2>2
  <2>3. ASSUME NEW k \in Keys, NEW b \in Bodies, Saves(k, b)
        PROVE  [Ledger(d)!Next]_(Ledger(d)!ledgerVars)
    <3>1. /\ saved \in [Keys -> Bodies \cup {None}] /\ saved[k] = None
          /\ saved' = [saved EXCEPT ![k] = b] /\ saved'[k] = b
          /\ \A o \in Keys \ {k} : saved'[o] = saved[o]
          /\ None \notin Forms /\ Forms \cap Paths = {}
      BY <1>2, <2>3, Apart DEF LibraryInv, LibraryTyped, Saves, Bodies
    <3>2. k \notin SavesOf(saved, d)
      BY <3>1 DEF SavesOf
    <3>3. \A o \in SavesOf(saved, d) : saved'[o] = saved[o]
      BY <3>1, <3>2 DEF SavesOf
    <3>4. CASE ~(b \in Forms /\ b.doc = d)
      <4>1. SavesOf(saved', d) = SavesOf(saved, d)
        BY <3>1, <3>4 DEF SavesOf
      <4> QED BY <2>1, <3>3, <4>1
    <3>5. CASE b \in Forms /\ b.doc = d
      <4>1. SavesOf(saved', d) = SavesOf(saved, d) \cup {k}
        BY <3>1, <3>5 DEF SavesOf
      <4>2. b.expected = Latest(d) /\ Latest(d) \in Nat
        BY <1>2, <2>3, <3>1, <3>5, LatestIs DEF Saves, LibraryInv
      <4>3. \A o \in SavesOf(saved, d) :
               saved[o].expected \in Nat /\ saved[o].expected + 1 <= Latest(d)
        BY <1>0, <1>2, LatestIs DEF LibraryInv
      <4>4. Latest(d)' = Latest(d) + 1
        <5>1. \A o \in SavesOf(saved', d) :
                 saved'[o].expected \in Nat /\ saved'[o].expected + 1 <= Latest(d) + 1
          BY <3>1, <3>3, <4>1, <4>2, <4>3
        <5>2. k \in SavesOf(saved', d) /\ saved'[k].expected + 1 = Latest(d) + 1
          BY <3>1, <4>1, <4>2
        <5>3. Latest(d) + 1 \in Nat
          BY <4>2
        <5>4. LatestIn(saved', d) = Latest(d) + 1
          BY <5>1, <5>2, <5>3, LatestFound
        <5> QED BY <1>0, <5>4
      <4> DEFINE e == [key |-> k, expected |-> b.expected, form |-> b]
      <4>5. e \in [key : Keys, expected : 0 .. Cardinality(Keys), form : Forms]
        BY <3>5 DEF Forms
      <4>6. SaveEntry(k)' = e /\ \A o \in SavesOf(saved, d) : SaveEntry(o)' = SaveEntry(o)
        BY <3>1, <3>3 DEF SaveEntry
      <4>7. log' = log \cup {e}
        BY <1>0, <4>1, <4>6
      <4>8. \A f \in log : f.key # e.key
        BY <1>0, <3>2 DEF SaveEntry
      <4>9. Ledger(d)!Append(e)
        BY <4>2, <4>4, <4>7, <4>8 DEF Ledger!Append
      <4> QED BY <4>5, <4>9 DEF Ledger!Next
    <3> QED BY <3>4, <3>5
  <2> QED BY <1>2, <2>2, <2>3, RowsEffect DEF Cancels, Reserves
<1> QED BY <1>1, <1>2, Library, PTL DEF LibrarySpec, Ledger!Spec
=============================================================================
