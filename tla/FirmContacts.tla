---------------------------- MODULE FirmContacts ----------------------------
(***************************************************************************)
(* The firm's contacts: commands under an operation key, their receipts,   *)
(* and their recovery after a lost answer.  The handlers of                *)
(* app/api/contacts/route.ts with the indexes of drizzle/0030, and the     *)
(* browser's app/contacts/contact-controller.ts.                           *)
(*                                                                         *)
(* All keys belong to one member, who works in several tabs.  A profile is *)
(* a kind, a name and, for a person, perhaps a company; two profiles match *)
(* by kind and name.  A new contact is named after the key that makes it.  *)
(***************************************************************************)
EXTENDS Naturals, Sequences, FiniteSets

CONSTANTS
    Posts,              \* handlers at work at a time
    Desks,              \* tabs
    OpKeys,             \* operation keys, numbered in the order they are drawn
    Names,
    MaxImport,          \* IMPORT_LIMIT
    MaxPosts,           \* how often a command is sent under one key
    MaxContactFaults,
    None

Ids      == OpKeys \X (1..MaxImport)
Profiles == [kind : {"person", "company"}, name : Names, company : {None}]
              \cup [kind : {"person"}, name : Names, company : Ids]

\* id and revision: the contact as it was seen.  batch: the key of the import to undo.
Actions  == {"create", "edit", "import", "undo", "archive", "restore", "link", "unlink"}
Commands == [action : Actions, id : Ids \cup {None}, revision : Nat, profiles : Seq(Profiles),
             reviewed : SUBSET Ids, batch : OpKeys \cup {None}]

ContactsConstants ==
    /\ IsFiniteSet(OpKeys) /\ MaxImport \in Nat /\ MaxContactFaults \in Nat
    /\ None \notin Commands \cup Posts \cup Ids

VARIABLES
    contacts,        \* firm_contacts
    caseLinks,       \* firm_contact_cases, of the one case
    receipts,        \* firm_contact_operations, by operation key
    access,          \* whether the member may write in the case
    current,         \* whether the membership is
    post,            \* what each handler holds
    desk,            \* what each tab has pending
    confirmed,       \* the commands that tabs were told to be saved
    posted,          \* how often its command was sent under each key
    contactFaults

contactVars == <<contacts, caseLinks, receipts, access, current, post, desk, confirmed,
                 posted, contactFaults>>

Absent   == [status |-> "absent", revision |-> 0, profile |-> None]
Matches(p, q) == p.kind = q.kind /\ p.name = q.name
Present  == {i \in Ids : contacts[i].status # "absent"}
Batches  == {k \in OpKeys : receipts[k] # None /\ receipts[k].action = "import"}

Command(action, id, revision, profiles, reviewed, batch) ==
    [action |-> action, id |-> id, revision |-> revision, profiles |-> profiles,
     reviewed |-> reviewed, batch |-> batch]

\* The profiles a command under a key writes, and the contacts it changes.
Written(k, cmd) ==
    [i \in IF cmd.action = "edit" THEN {cmd.id}
           ELSE {<<k, n>> : n \in DOMAIN cmd.profiles}
        |-> IF cmd.action = "edit" THEN cmd.profiles[1] ELSE cmd.profiles[i[2]]]
Changed(k, cmd) ==
    CASE cmd.action \in {"create", "edit", "import"} -> DOMAIN Written(k, cmd)
      [] cmd.action = "undo" -> DOMAIN Written(cmd.batch, receipts[cmd.batch])
      [] OTHER -> {cmd.id}

\* draftCommand() and the buttons: what a tab asks, of contacts as it saw them at some time.  A
\* draft is of a revision the contact had, of a company that was there, and reviewed some of the
\* matches; parseCommand refuses an import with a match in itself.
Seen     == UNION {{i} \X (1..contacts[i].revision) : i \in Present}
Writable == {p \in Profiles : p.company # None =>
                p.company \in Present /\ contacts[p.company].profile.kind = "company"}
Reviews(p) == SUBSET {i \in Present : Matches(contacts[i].profile, p)}
Imports  == {s \in UNION {[1..n -> {p \in Profiles : p.company = None}] : n \in 1..MaxImport} :
                \A m, n \in DOMAIN s : m # n => ~Matches(s[m], s[n])}
Drafts ==
    (UNION {{Command("create", None, 0, <<p>>, r, None) : r \in Reviews(p)}
              \cup {Command("edit", v[1], v[2], <<p>>, r, None) : v \in Seen, r \in Reviews(p)} :
            p \in Writable})
      \cup {Command("import", None, 0, s, {}, None) : s \in Imports}
      \cup {Command("undo", None, 0, <<>>, {}, b) : b \in Batches}
      \cup {Command(a, v[1], v[2], <<>>, {}, None) :
              a \in {"archive", "restore", "link", "unlink"}, v \in Seen}

-----------------------------------------------------------------------------

NoPost == [pc |-> "free", key |-> None, command |-> None, status |-> "none"]
NoDesk == [pending |-> None, key |-> None, waits |-> None]

ContactsInit ==
    /\ contacts = [i \in Ids |-> Absent]
    /\ caseLinks = {}
    /\ receipts = [k \in OpKeys |-> None]
    /\ access = TRUE /\ current = TRUE
    /\ post = [h \in Posts |-> NoPost]
    /\ desk = [d \in Desks |-> NoDesk]
    /\ confirmed = {}
    /\ posted = [k \in OpKeys |-> 0]
    /\ contactFaults = 0

\* save(): the command is sent; a pending one is looked up first, and sent if it was not found.
Send(d, h, pc, k, cmd) ==
    /\ post[h].pc = "free"
    /\ post' = [post EXCEPT ![h] = [NoPost EXCEPT !.pc = pc, !.key = k, !.command = cmd]]
    /\ desk' = [desk EXCEPT ![d] = [pending |-> cmd, key |-> k, waits |-> h]]
    /\ UNCHANGED <<contacts, caseLinks, receipts, access, current, confirmed, contactFaults>>

Save(d, h) ==
    /\ desk[d] = NoDesk /\ current
    /\ \E k \in OpKeys :
        /\ posted[k] = 0 /\ \A o \in OpKeys : o < k => posted[o] > 0
        /\ posted' = [posted EXCEPT ![k] = 1]
        /\ \E cmd \in Drafts : Send(d, h, "prior", k, cmd)
SaveAgain(d, h) ==
    /\ desk[d].waits = None /\ desk[d].pending # None
    /\ Send(d, h, "operation", desk[d].key, desk[d].pending)
    /\ UNCHANGED posted

To(h, pc) == post' = [post EXCEPT ![h].pc = pc]
Problem(h, status) == post' = [post EXCEPT ![h].pc = "answer", ![h].status = status]
\* firmReply: the membership is looked up again before the answer.
Reply(h, status) == Problem(h, IF current THEN status ELSE "denied")
Tables == UNCHANGED <<contacts, caseLinks, receipts>>
Others == UNCHANGED <<access, current, desk, confirmed, posted>>

Receipt(h) == receipts[post[h].key] = post[h].command

\* GET ?operation=: the receipt of this key, if there is one.
Operation(h) ==
    /\ post[h].pc = "operation"
    /\ Reply(h, IF receipts[post[h].key] = None THEN "absent" ELSE "saved")
    /\ Tables /\ Others /\ UNCHANGED contactFaults

\* POST: the case, the earlier receipt, the batch to undo.
Prior(h) ==
    LET cmd == post[h].command
        prior == receipts[post[h].key]
    IN  /\ post[h].pc = "prior"
        /\ IF cmd.action \in {"link", "unlink"} /\ ~access THEN Problem(h, "caseAccess")
           ELSE IF prior # None
                THEN IF Receipt(h) THEN Reply(h, "saved") ELSE Problem(h, "changed")
           ELSE IF cmd.action = "undo" /\ cmd.batch \notin Batches THEN Problem(h, "changed")
           ELSE To(h, "batch")
        /\ Tables /\ Others /\ UNCHANGED contactFaults

\* Mistaken: the reviewed contacts are those of the tab, whoever matches now.
WritesReviewed(i, p, reviewed) ==
    /\ \A o \in Present \ {i} : Matches(contacts[o].profile, p) => reviewed # {}
    /\ p.company # None => p.company \in Present /\ contacts[p.company].profile.kind = "company"

\* addProfile: nobody matches unreviewed, the company is active or was there before.
MayWrite(i, p, reviewed) ==
    /\ \A o \in Present \ {i} : Matches(contacts[o].profile, p) => o \in reviewed
    /\ p.company # None =>
        /\ p.company \in Present /\ contacts[p.company].profile.kind = "company"
        /\ \/ contacts[p.company].status = "active"
           \/ i \in Present /\ contacts[i].profile.company = p.company

Revises(cmd, status) ==
    contacts[cmd.id].status = status /\ contacts[cmd.id].revision = cmd.revision

\* Mistaken: an edited contact is undone too.
UndoesEdited(ids) ==
    /\ \A i \in ids : contacts[i].status = "active"
    /\ \A o \in Present \ ids : contacts[o].profile.company \notin ids

\* undo: the imported contacts as they were imported, and no other contact's company.
MayUndo(ids) ==
    /\ \A i \in ids : contacts[i].status = "active" /\ contacts[i].revision = 1
    /\ \A o \in Present \ ids : contacts[o].profile.company \notin ids

\* The guards of the batch, and the unique index of the receipts.
Guards(k, cmd) ==
    /\ receipts[k] = None
    /\ CASE cmd.action \in {"create", "edit", "import"} ->
                /\ \A i \in DOMAIN Written(k, cmd) : MayWrite(i, Written(k, cmd)[i], cmd.reviewed)
                /\ cmd.action = "edit" => /\ Revises(cmd, "active")
                                          /\ contacts[cmd.id].profile.kind = cmd.profiles[1].kind
         [] cmd.action = "undo"    -> /\ MayUndo(Changed(k, cmd))
                                      /\ \A o \in OpKeys : receipts[o] # None =>
                                            receipts[o].batch # cmd.batch
         [] cmd.action = "restore" -> Revises(cmd, "archived")
         [] cmd.action = "archive" -> Revises(cmd, "active")
         [] cmd.action = "link"    -> Revises(cmd, "active") /\ access /\ cmd.id \notin caseLinks
         [] cmd.action = "unlink"  -> Revises(cmd, "active") /\ access /\ cmd.id \in caseLinks

\* What the batch leaves of a contact it changes.
After(k, cmd, i) ==
    LET c == contacts[i]
    IN  CASE cmd.action \in {"create", "edit", "import"} ->
                 [status |-> "active", revision |-> c.revision + 1, profile |-> Written(k, cmd)[i]]
          [] cmd.action = "undo"    -> [c EXCEPT !.status = "archived", !.revision = 2]
          [] cmd.action = "archive" -> [c EXCEPT !.status = "archived", !.revision = @ + 1]
          [] OTHER                  -> [c EXCEPT !.status = "active", !.revision = @ + 1]

\* db.batch: all of it or nothing; its answer may be lost.
Batch(h) ==
    LET k   == post[h].key
        cmd == post[h].command
    IN  /\ post[h].pc = "batch"
        /\ IF Guards(k, cmd)
           THEN /\ contacts' = [i \in Ids |-> IF i \in Changed(k, cmd) THEN After(k, cmd, i)
                                              ELSE contacts[i]]
                /\ caseLinks' = CASE cmd.action = "link"   -> caseLinks \cup {cmd.id}
                                  [] cmd.action = "unlink" -> caseLinks \ {cmd.id}
                                  [] OTHER                 -> caseLinks
                /\ receipts' = [receipts EXCEPT ![k] = cmd]
                /\ \/ Reply(h, "saved") /\ UNCHANGED contactFaults
                   \/ /\ contactFaults < MaxContactFaults /\ contactFaults' = contactFaults + 1
                      /\ To(h, "recheck")
           ELSE To(h, "recheck") /\ Tables /\ UNCHANGED contactFaults
        /\ Others
Recheck(h) ==
    /\ post[h].pc = "recheck"
    /\ Reply(h, IF Receipt(h) THEN "saved" ELSE "changed")
    /\ Tables /\ Others /\ UNCHANGED contactFaults

\* A call to the database throws; around the batch that is caught.
PostFails(h) ==
    /\ post[h].pc \in {"operation", "prior", "batch", "recheck"}
    /\ contactFaults < MaxContactFaults /\ contactFaults' = contactFaults + 1
    /\ IF post[h].pc = "batch" THEN To(h, "recheck") ELSE Problem(h, "failed")
    /\ Tables /\ Others

\* Somebody takes the member out of the case, or out of the organization.
Exclude ==
    /\ contactFaults < MaxContactFaults /\ contactFaults' = contactFaults + 1
    /\ \/ access /\ access' = FALSE /\ UNCHANGED current
       \/ current /\ current' = FALSE /\ UNCHANGED access
    /\ Tables /\ UNCHANGED <<post, desk, confirmed, posted>>

-----------------------------------------------------------------------------

\* save() goes on: an absent operation is posted, a refusal ends it, an error leaves it pending.
Receive(d) ==
    LET h == desk[d].waits
    IN  /\ h # None /\ post[h].pc = "answer"
        /\ IF post[h].status = "absent"
           THEN /\ posted[desk[d].key] < MaxPosts
                /\ post' = [post EXCEPT ![h].pc = "prior"]
                /\ posted' = [posted EXCEPT ![desk[d].key] = @ + 1]
                /\ UNCHANGED <<desk, confirmed>>
           ELSE /\ desk' = [desk EXCEPT ![d] = IF post[h].status = "failed"
                                               THEN [@ EXCEPT !.waits = None] ELSE NoDesk]
                /\ confirmed' = confirmed \cup
                      IF post[h].status = "saved" THEN {<<desk[d].key, desk[d].pending>>} ELSE {}
                /\ post' = [post EXCEPT ![h] = NoPost]
                /\ UNCHANGED posted
        /\ Tables /\ UNCHANGED <<access, current, contactFaults>>

\* The tab stops waiting: a lookup or an answer is then of no use to anyone.
Leave(d) ==
    LET h == desk[d].waits
    IN  /\ post' = [g \in Posts |-> IF g = h /\ post[g].pc \in {"operation", "answer"}
                                    THEN NoPost ELSE post[g]]
        /\ Tables /\ UNCHANGED <<access, current, confirmed, posted, contactFaults>>
\* readWithTimeout gives up, or the tab's authority is checked again: the command stays pending.
TimesOut(d) ==
    /\ desk[d].waits # None
    /\ desk' = [desk EXCEPT ![d].waits = None]
    /\ Leave(d)
\* The tab is closed, or shows another organization.
Close(d) ==
    /\ desk[d] # NoDesk
    /\ desk' = [desk EXCEPT ![d] = NoDesk]
    /\ Leave(d)
\* Nobody waits for this handler any more, and it ends.
Unheard(h) ==
    /\ post[h].pc = "answer" /\ \A d \in Desks : desk[d].waits # h
    /\ post' = [post EXCEPT ![h] = NoPost]
    /\ Tables /\ Others /\ UNCHANGED contactFaults

ContactsNext ==
    \/ \E d \in Desks, h \in Posts : Save(d, h) \/ SaveAgain(d, h)
    \/ \E h \in Posts :
        \/ Operation(h) \/ Prior(h) \/ Batch(h) \/ Recheck(h) \/ PostFails(h) \/ Unheard(h)
    \/ \E d \in Desks : Receive(d) \/ TimesOut(d) \/ Close(d)
    \/ Exclude

ContactsSpec == ContactsInit /\ [][ContactsNext]_contactVars

-----------------------------------------------------------------------------

ContactsTypeOK ==
    /\ \A i \in Present : /\ contacts[i].status \in {"active", "archived"}
                          /\ contacts[i].revision \in Nat \ {0} /\ contacts[i].profile \in Profiles
    /\ caseLinks \subseteq Present
    /\ receipts \in [OpKeys -> Commands \cup {None}]
    /\ \A d \in Desks : desk[d].waits \in Posts \cup {None}
    /\ contactFaults \in 0..MaxContactFaults

Done == {k \in OpKeys : receipts[k] # None}

\* Whatever is retried, timed out or sent from two tabs: a command a tab was told to be saved is
\* saved as it was sent, one that was sent once and refused as changed is not, and every contact
\* has as many revisions as receipts that name it, so none was applied twice or in part.
ReceiptsTellContacts ==
    /\ \A c \in confirmed : receipts[c[1]] = c[2]
    /\ \A h \in Posts : post[h].pc = "answer" /\ post[h].status = "changed"
                          /\ posted[post[h].key] = 1 => receipts[post[h].key] = None
    /\ \A i \in Ids :
        contacts[i].revision = Cardinality({k \in Done : i \in Changed(k, receipts[k])})

\* The command that wrote a contact's profile: of all that did, the one of the latest revision.
Writers(i) == {k \in Done : /\ receipts[k].action \in {"create", "edit", "import"}
                            /\ i \in Changed(k, receipts[k])}
Reviewed(i) ==
    receipts[CHOOSE k \in Writers(i) :
        \A o \in Writers(i) : receipts[o].revision <= receipts[k].revision].reviewed

\* Contacts of two tabs never match unseen: of two that match, whoever wrote the later profile
\* had reviewed the other.  And an undone import is nobody's company, until it is restored.
MatchesReviewed ==
    /\ \A i, o \in Present : i # o /\ Matches(contacts[i].profile, contacts[o].profile) =>
            i \in Reviewed(o) \/ o \in Reviewed(i)
    /\ \A k \in Done : receipts[k].action = "undo" =>
        \A i \in Changed(k, receipts[k]) : contacts[i].revision = 2 =>
            \A o \in Present : contacts[o].profile.company # i
=============================================================================
