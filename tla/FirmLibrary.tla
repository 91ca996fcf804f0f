----------------------------- MODULE FirmLibrary -----------------------------
(***************************************************************************)
(* The firm's document library: saves of files and folders under an        *)
(* operation key, their recovery after a lost answer, and their cancelling.*)
(* Handlers of app/api/library/firm/route.ts and                           *)
(* app/library/firm-storage-recovery.ts, the triggers of drizzle/0028 and  *)
(* 0029, and the browser's app/library/library-controller.ts.              *)
(*                                                                         *)
(* One actor of one organization, in several tabs: only that actor's tabs  *)
(* share operation keys.  A save is a folder path or a form: the document, *)
(* the version it follows and the bytes.  A new document is named after    *)
(* the key that makes it.  Titles and file names belong to the document.   *)
(***************************************************************************)
EXTENDS Naturals, FiniteSetsExt

CONSTANTS
    Calls,              \* handlers at work at a time
    Tabs,
    Keys,               \* operation keys, numbered in the order they are drawn
    Contents,           \* bytes of one file name and size
    Paths,              \* folder names
    MaxSends,           \* how many requests are sent under one key
    MaxLibraryFaults,
    None

LibraryConstants ==
    /\ IsFiniteSet(Keys) /\ None \notin Keys \cup Calls
    /\ LET forms == [doc : Keys, expected : 0..Cardinality(Keys), content : Contents]
       IN  forms \cap Paths = {} /\ None \notin forms \cup Paths
    /\ MaxSends \in Nat /\ MaxLibraryFaults \in Nat

VARIABLES
    upload,        \* firm_upload_intents, by operation key
    saved,         \* firm_document_versions and firm_library_folder_paths, by operation key
    stored,        \* the originals in R2
    member,        \* whether the actor may write in the organization
    call,          \* what each handler holds
    tab,           \* the controller of each tab
    told,          \* what the tabs were told for good
    sent,          \* how many requests were sent under each key
    libraryFaults

tables == <<upload, saved, stored>>
libraryVars == <<tables, member, call, tab, told, sent, libraryFaults>>

Forms  == [doc : Keys, expected : 0..Cardinality(Keys), content : Contents]
Bodies == Forms \cup Paths
NoRow  == [state |-> "not_started", form |-> None]
NoCall == [pc |-> "free", key |-> None, body |-> None, status |-> "none", seen |-> None]
NoTab  == [pending |-> None, key |-> None, waits |-> None]

Files      == {k \in Keys : saved[k] \in Forms}
Latest(d)  == Max({0} \cup {saved[k].expected + 1 : k \in {f \in Files : saved[f].doc = d}})
Object(f)  == <<f.doc, f.expected + 1, f.content>>
Alike(a, b) == \/ a \in Forms /\ b \in Forms /\ a.doc = b.doc /\ a.expected = b.expected
               \/ a \in Paths /\ a = b

LibraryInit ==
    /\ upload = [k \in Keys |-> NoRow]
    /\ saved = [k \in Keys |-> None]
    /\ stored = {}
    /\ member = TRUE
    /\ call = [c \in Calls |-> NoCall]
    /\ tab = [t \in Tabs |-> NoTab]
    /\ told = {}
    /\ sent = [k \in Keys |-> 0]
    /\ libraryFaults = 0

Idle(t) == tab[t].waits = None

\* request(): the tab sends one operation to a free handler and waits for its answer.
Submit(t, c, op, k, body, pending) ==
    /\ Idle(t) /\ call[c].pc = "free" /\ sent[k] < MaxSends
    /\ call' = [call EXCEPT ![c] = [NoCall EXCEPT !.pc = op, !.key = k, !.body = body]]
    /\ tab' = [tab EXCEPT ![t] = [pending |-> pending, key |-> k, waits |-> c]]
    /\ sent' = [sent EXCEPT ![k] = @ + 1]
    /\ UNCHANGED <<tables, member, told, libraryFaults>>

\* upload() with a draft: a fresh key, for a document, its next version or a folder.
Upload(t, c) ==
    \E k \in Keys, b \in Bodies :
        /\ tab[t].pending = None /\ sent[k] = 0 /\ \A o \in Keys : o < k => sent[o] > 0
        /\ b \in Forms => IF b.doc = k THEN b.expected = 0
                                       ELSE b.expected \in 1..Latest(b.doc)
        /\ Submit(t, c, "save", k, b, b)

\* resume() and upload(): the key of an unfinished upload, for the file the user picks now.
Resume(t, c) ==
    \E k \in Keys, x \in Contents :
        /\ tab[t].pending = None /\ upload[k].state # "not_started"
        /\ LET b == [upload[k].form EXCEPT !.content = x]
           IN  Submit(t, c, "save", k, b, b)

\* upload() again with the pending body, checkSaved() and cancelIncomplete().
Resend(t, c) ==
    /\ tab[t].pending # None
    /\ Submit(t, c, "save", tab[t].key, tab[t].pending, tab[t].pending)
CheckSaved(t, c) ==
    /\ tab[t].pending # None
    /\ Submit(t, c, "check", tab[t].key, tab[t].pending, tab[t].pending)
CancelIncomplete(t, c) ==
    \E k \in Keys :
        /\ IF tab[t].pending # None THEN k = tab[t].key ELSE upload[k].state # "not_started"
        /\ Submit(t, c, "cancel", k, tab[t].pending, tab[t].pending)

-----------------------------------------------------------------------------
\* The handlers.

To(c, pc)         == call' = [call EXCEPT ![c].pc = pc]
Answer(c, status) == call' = [call EXCEPT ![c].pc = "answer",
                                          ![c].status = IF member THEN status ELSE "denied"]
Fails(c, status)  == call' = [call EXCEPT ![c].pc = "answer", ![c].status = status]
Rest              == UNCHANGED <<member, tab, told, sent, libraryFaults>>

\* POST: the version this key saved, if any, answers for it.
Original(c) ==
    /\ call[c].pc = "save" /\ call[c].body \in Forms
    /\ LET row == saved[call[c].key]
       IN  IF row = None THEN To(c, "latest")
           ELSE Answer(c, IF row = call[c].body THEN "saved" ELSE "conflict")
    /\ UNCHANGED tables /\ Rest
ReadLatest(c) ==
    /\ call[c].pc = "latest"
    /\ IF Latest(call[c].body.doc) # call[c].body.expected THEN Answer(c, "conflict")
       ELSE IF member THEN To(c, "stage") ELSE Fails(c, "denied")
    /\ UNCHANGED tables /\ Rest

\* Mistaken: a row of an earlier try is taken for an original that is stored.
StageTrustingRow(c) ==
    LET k == call[c].key
        b == call[c].body
        free == member /\ saved[k] \notin Paths /\ Latest(b.doc) = b.expected
    IN  /\ call[c].pc = "stage"
        /\ IF upload[k].state = "not_started"
           THEN IF free
                THEN /\ upload' = [upload EXCEPT ![k] = [state |-> "pending", form |-> b]]
                     /\ To(c, "put")
                ELSE Answer(c, "conflict") /\ UNCHANGED upload
           ELSE /\ IF upload[k].state = "cancelled" \/ upload[k].form # b
                   THEN Answer(c, "conflict") ELSE To(c, "insert")
                /\ UNCHANGED upload
        /\ UNCHANGED <<saved, stored>> /\ Rest

\* stageFirmUpload, with firm_intent_stage: the row of an earlier try, or a new one.
Stage(c) ==
    LET k == call[c].key
        b == call[c].body
        free == member /\ saved[k] \notin Paths /\ Latest(b.doc) = b.expected
    IN  /\ call[c].pc = "stage"
        /\ IF upload[k].state = "not_started"
           THEN IF free
                THEN /\ upload' = [upload EXCEPT ![k] = [state |-> "pending", form |-> b]]
                     /\ To(c, "put")
                ELSE Answer(c, "conflict") /\ UNCHANGED upload
           ELSE /\ IF upload[k].state = "cancelled" \/ upload[k].form # b
                   THEN Answer(c, "conflict") ELSE To(c, "put")
                /\ UNCHANGED upload
        /\ UNCHANGED <<saved, stored>> /\ Rest

\* putFirmOriginal: the bytes, or the same bytes that are there already.
Put(c) ==
    /\ call[c].pc = "put"
    /\ stored' = stored \cup {Object(call[c].body)}
    /\ IF member THEN To(c, "insert") ELSE Fails(c, "denied")
    /\ UNCHANGED <<upload, saved>> /\ Rest

\* Mistaken: the guard does not read the upload's state.
InsertsCancelled(k, b) == member /\ saved[k] = None /\ b.expected = Latest(b.doc)

\* firm_document_authority, firm_version_pending_guard and the unique indexes.
MayInsert(k, b) ==
    /\ member /\ saved[k] = None
    /\ b.expected = Latest(b.doc)
    /\ upload[k].state # "not_started" => upload[k] = [state |-> "pending", form |-> b]

\* The batch: the version and, by firm_version_receipt, its upload; the answer may be lost.
Insert(c) ==
    /\ call[c].pc = "insert"
    /\ IF MayInsert(call[c].key, call[c].body)
       THEN /\ saved' = [saved EXCEPT ![call[c].key] = call[c].body]
            /\ upload' = [upload EXCEPT ![call[c].key].state = "committed"]
            /\ \/ Answer(c, "saved") /\ UNCHANGED libraryFaults
               \/ /\ libraryFaults < MaxLibraryFaults /\ libraryFaults' = libraryFaults + 1
                  /\ To(c, "recheck")
       ELSE To(c, "recheck") /\ UNCHANGED <<saved, upload, libraryFaults>>
    /\ UNCHANGED <<stored, member, tab, told, sent>>

\* The catch of POST: what this key saved after all, else why it did not.
Recheck(c) ==
    /\ call[c].pc = "recheck"
    /\ LET row == saved[call[c].key]
       IN  IF row = None THEN To(c, "reread")
           ELSE Answer(c, IF row = call[c].body THEN "saved" ELSE "conflict")
    /\ UNCHANGED tables /\ Rest
Reread(c) ==
    /\ call[c].pc = "reread"
    /\ Fails(c, IF Latest(call[c].body.doc) # call[c].body.expected THEN "conflict" ELSE "failed")
    /\ UNCHANGED tables /\ Rest

\* saveFirmFolder: insert, or find that this very save was made before.
SaveFolder(c) ==
    LET k == call[c].key
        b == call[c].body
    IN  /\ call[c].pc = "save" /\ b \in Paths
        /\ IF /\ member /\ saved[k] = None /\ upload[k].state = "not_started"
              /\ \A o \in Keys : saved[o] # b
           THEN saved' = [saved EXCEPT ![k] = b] /\ Answer(c, "saved")
           ELSE /\ Answer(c, IF saved[k] = b THEN "saved" ELSE "conflict")
                /\ UNCHANGED saved
        /\ UNCHANGED <<upload, stored>> /\ Rest

\* cancelFirmUpload: a pending upload is cancelled, then the operation is looked up.
Cancel(c) ==
    LET k == call[c].key
    IN  /\ call[c].pc = "cancel"
        /\ IF upload[k].state = "pending" /\ ~member
           THEN Fails(c, "failed") /\ UNCHANGED upload
           ELSE /\ upload' = [upload EXCEPT ![k].state = IF @ = "pending" THEN "cancelled" ELSE @]
                /\ To(c, "check")
        /\ UNCHANGED <<saved, stored>> /\ Rest

\* firmOperation: the rows and the upload are read side by side, in either order.
Looked(c, row, state) ==
    call' = [call EXCEPT ![c].pc = "answer", ![c].seen = row,
                         ![c].status = IF ~member THEN "denied"
                                       ELSE IF row # None THEN "committed" ELSE state]
ReadRow(c) ==
    LET row == saved[call[c].key]
    IN  /\ \/ /\ call[c].pc = "check"
              /\ call' = [call EXCEPT ![c].seen = row, ![c].pc = "intent"]
           \/ call[c].pc = "row" /\ Looked(c, row, call[c].status)
        /\ UNCHANGED tables /\ Rest
ReadIntent(c) ==
    LET state == upload[call[c].key].state
    IN  /\ \/ /\ call[c].pc = "check"
              /\ call' = [call EXCEPT ![c].status = state, ![c].pc = "row"]
           \/ call[c].pc = "intent" /\ Looked(c, call[c].seen, state)
        /\ UNCHANGED tables /\ Rest

\* A storage call throws: inside the try of POST it is looked up, elsewhere it is the answer.
CallFails(c) ==
    /\ call[c].pc \notin {"free", "answer"} /\ libraryFaults < MaxLibraryFaults
    /\ IF call[c].pc \in {"stage", "put", "insert"} THEN To(c, "recheck") ELSE Fails(c, "failed")
    /\ libraryFaults' = libraryFaults + 1
    /\ UNCHANGED <<tables, member, tab, told, sent>>

\* The membership ends: from now on every authority check and every trigger refuses.
Suspend ==
    /\ member /\ member' = FALSE
    /\ libraryFaults < MaxLibraryFaults /\ libraryFaults' = libraryFaults + 1
    /\ UNCHANGED <<tables, call, tab, told, sent>>

-----------------------------------------------------------------------------
\* The answers.

\* A tab forgets what it has pending, and may have learnt what became of the key for good.
Complete(t, news) ==
    /\ tab' = [tab EXCEPT ![t] = NoTab]
    /\ told' = told \cup news
Keep(t) == tab' = [tab EXCEPT ![t].waits = None] /\ UNCHANGED told
News(k, what, body) == {[key |-> k, what |-> what, body |-> body]}

\* upload(), checkSaved() and cancelIncomplete() read the answer they waited for.
Receive(t) ==
    LET c == tab[t].waits
        a == call[c]
        body == IF a.body # None THEN a.body ELSE upload[a.key].form
    IN  /\ ~Idle(t) /\ a.pc = "answer"
        /\ CASE a.status = "saved"     -> Complete(t, News(a.key, "saved", a.body))
             [] a.status = "committed" -> IF Alike(a.seen, body)
                                          THEN Complete(t, News(a.key, "confirmed", body))
                                          ELSE Keep(t)
             [] a.status = "cancelled" -> Complete(t, News(a.key, "cancelled", None))
             [] a.status \in {"conflict", "denied"} -> Complete(t, {})
             [] OTHER                  -> Keep(t)
        /\ call' = [call EXCEPT ![c] = NoCall]
        /\ UNCHANGED <<tables, member, sent, libraryFaults>>

\* The tab stops waiting (60 seconds, or the connection is lost); or it is closed.
GiveUp(t) ==
    /\ ~Idle(t)
    /\ Keep(t)
    /\ UNCHANGED <<tables, member, call, sent, libraryFaults>>
Reload(t) ==
    /\ tab[t] # NoTab
    /\ Complete(t, {})
    /\ UNCHANGED <<tables, member, call, sent, libraryFaults>>
\* Nobody waits for this handler any more: its answer is lost, or it dies on the way.
Lost(c) ==
    /\ call[c].pc # "free" /\ \A t \in Tabs : tab[t].waits # c
    /\ call[c].pc = "answer" \/ libraryFaults < MaxLibraryFaults
    /\ call' = [call EXCEPT ![c] = NoCall]
    /\ libraryFaults' = libraryFaults + IF call[c].pc = "answer" THEN 0 ELSE 1
    /\ UNCHANGED <<tables, member, tab, told, sent>>

LibraryNext ==
    \/ \E t \in Tabs, c \in Calls :
        \/ Upload(t, c) \/ Resume(t, c) \/ Resend(t, c)
        \/ CheckSaved(t, c) \/ CancelIncomplete(t, c)
    \/ \E c \in Calls :
        \/ Original(c) \/ ReadLatest(c) \/ Stage(c) \/ Put(c) \/ Insert(c) \/ Recheck(c) \/ Reread(c)
        \/ SaveFolder(c) \/ Cancel(c) \/ ReadRow(c) \/ ReadIntent(c)
        \/ CallFails(c) \/ Lost(c)
    \/ \E t \in Tabs : Receive(t) \/ GiveUp(t) \/ Reload(t)
    \/ Suspend

LibrarySpec == LibraryInit /\ [][LibraryNext]_libraryVars

-----------------------------------------------------------------------------

LibraryTypeOK ==
    /\ upload \in [Keys -> [state : {"not_started", "pending", "committed", "cancelled"},
                            form : Forms \cup {None}]]
    /\ saved \in [Keys -> Bodies \cup {None}]
    /\ stored \subseteq {Object(f) : f \in Forms}
    /\ \A t \in Tabs : tab[t].pending \in Bodies \cup {None} /\ tab[t].waits \in Calls \cup {None}
    /\ \A n \in told : n.what \in {"saved", "confirmed", "cancelled"}
    /\ libraryFaults \in 0..MaxLibraryFaults

\* What a tab is told stays true, whatever requests under the same key are still on their way:
\* a save it was told of is there ("Document saved", with its very bytes; "Save confirmed",
\* for a file of the same document, version, name and size), after "No version was published"
\* none ever is, and a save that was sent once and refused was not made.
NoticesTrue ==
    /\ \A n \in told :
        \/ n.what = "saved" /\ saved[n.key] = n.body
        \/ n.what = "confirmed" /\ Alike(saved[n.key], n.body)
        \/ n.what = "cancelled" /\ saved[n.key] = None
    /\ \A c \in Calls :
        call[c].pc = "answer" /\ call[c].status = "conflict" /\ sent[call[c].key] = 1
            => saved[call[c].key] = None

\* Of all saves, retries and cancels: the versions of a document are 1, 2, ... without a gap
\* or a double, each has its original in storage and, as its upload, the very save that was
\* reserved; a folder has one owner; and an upload is committed only by its version.
VersionsBacked ==
    /\ \A k \in Files : /\ Object(saved[k]) \in stored
                        /\ upload[k] = [state |-> "committed", form |-> saved[k]]
                        /\ saved[k].expected > 0 =>
                              \E o \in Files : /\ saved[o].doc = saved[k].doc
                                               /\ saved[o].expected + 1 = saved[k].expected
    /\ \A k, o \in Keys : k # o /\ saved[k] # None => ~Alike(saved[k], saved[o])
    /\ \A k \in Keys : upload[k].state = "committed" => saved[k] = upload[k].form
=============================================================================
