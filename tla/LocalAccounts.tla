--------------------------- MODULE LocalAccounts ---------------------------
(***************************************************************************)
(* One local account: its password, its sessions, and the ways to replace  *)
(* the password.                                                           *)
(*                                                                         *)
(* A password is replaced by a trusted identity, by the recovery code that *)
(* was shown once, or by the link of a reset mail.  Each reads the account *)
(* and its proof, derives the new password for a while, and then commits   *)
(* one D1 batch that consumes the proof, replaces the password, revokes    *)
(* the sessions and the other proofs, and stores a new recovery code.  A   *)
(* sign-in reads and verifies before it inserts its session, and a reset   *)
(* link is rotated, mailed, and taken back when the mail is reported       *)
(* failed, also when it arrived.                                           *)
(***************************************************************************)
EXTENDS Integers, FiniteSets

CONSTANTS
    Workers,       \* requests in flight
    MaxChanges,    \* bound: passwords the account gets after its first
    MaxLinks       \* bound: reset links issued

VARIABLES
    password,    \* how many times the password was replaced; -1 before the enrolment
    changedAt,   \* local_accounts.passwordChangedAt, to the millisecond
    codes,       \* the unused rows of account_recovery_codes, by the password they came with
    tokens,      \* the unused rows of password_reset_tokens
    issued,      \* the number of links so far
    mailed,      \* the links whose mail the provider accepted
    promised,    \* the links answered as delivered, with the password they were to replace
    expired,     \* the links older than fifteen minutes
    sessions,    \* the passwords under which unrevoked sessions were opened
    auth         \* what each request in flight holds in memory

accountVars ==
    <<password, changedAt, codes, tokens, issued, mailed, promised, expired, sessions, auth>>

AccountConstants == MaxChanges \in Nat /\ MaxLinks \in Nat

Passwords == 0 .. MaxChanges
Links == 1 .. MaxLinks

\* The kinds of proof that replace a password.
Proofs == {"identity", "code", "link"}

Rest == [pc |-> "idle", proof |-> 0, seen |-> 0, stamp |-> 0]

-----------------------------------------------------------------------------

In(w, pc) == auth[w].pc = pc
Become(w, pc, proof) ==
    auth' = [auth EXCEPT ![w] = [pc |-> pc, proof |-> proof, seen |-> password,
                                 stamp |-> changedAt]]
Leave(w) == auth' = [auth EXCEPT ![w] = Rest]

Enrolled == password >= 0

-----------------------------------------------------------------------------
(* Enrolling, signing in and out.                                          *)

\* The trusted identity enrols the account once, with a code and a session.
Register ==
    /\ ~Enrolled
    /\ password' = 0
    /\ codes' = {0} /\ sessions' = {0}
    /\ UNCHANGED <<changedAt, tokens, issued, mailed, promised, expired, auth>>

\* The password that was typed is verified against the one read.
Login(w) ==
    /\ In(w, "idle") /\ Enrolled
    /\ Become(w, "login", 0)
    /\ UNCHANGED <<password, changedAt, codes, tokens, issued, mailed, promised, expired, sessions>>

\* Mistaken: the session is inserted under the account as it was read.
OpenUnchecked(w) ==
    /\ In(w, "login")
    /\ sessions' = sessions \cup {auth[w].seen}
    /\ Leave(w)
    /\ UNCHANGED <<password, changedAt, codes, tokens, issued, mailed, promised, expired>>

\* The session is inserted where the account still has the hash and time that were verified.
Open(w) ==
    /\ In(w, "login")
    /\ sessions' = IF auth[w].seen = password /\ auth[w].stamp = changedAt
                   THEN sessions \cup {password} ELSE sessions
    /\ Leave(w)
    /\ UNCHANGED <<password, changedAt, codes, tokens, issued, mailed, promised, expired>>

\* One session is revoked; others of the same password may go on.
Logout ==
    /\ \E s \in sessions : sessions' = sessions \ {s}
    /\ UNCHANGED <<password, changedAt, codes, tokens, issued, mailed, promised, expired, auth>>

-----------------------------------------------------------------------------
(* Replacing the password.                                                 *)

\* Some unused code of the account is the proof of the identity path.
Reset(w) ==
    /\ In(w, "idle") /\ Enrolled
    /\ \E c \in codes : Become(w, "identity", c)
    /\ UNCHANGED <<password, changedAt, codes, tokens, issued, mailed, promised, expired, sessions>>

\* The code that was sent must be the unused one.
Recover(w) ==
    /\ In(w, "idle") /\ Enrolled
    /\ \E c \in codes : Become(w, "code", c)
    /\ UNCHANGED <<password, changedAt, codes, tokens, issued, mailed, promised, expired, sessions>>

\* A mailed link that is neither used nor expired.
EmailReset(w) ==
    /\ In(w, "idle") /\ Enrolled
    /\ \E t \in (tokens \cap mailed) \ expired : Become(w, "link", t)
    /\ UNCHANGED <<password, changedAt, codes, tokens, issued, mailed, promised, expired, sessions>>

\* The unused codes a batch leaves: the link's uses up all of them, the others the one they read.
Left(w) == IF auth[w].pc = "link" THEN {} ELSE codes \ {auth[w].proof}

\* What the compare-and-set on the proof and on the account leave of the batch: every insert
\* hangs on an account whose passwordChangedAt is now and a proof that this request consumed,
\* and the new code needs an account that has no other unused one.
Proven(w, now) ==
    /\ IF auth[w].pc = "link" THEN auth[w].proof \in tokens ELSE auth[w].proof \in codes
    /\ changedAt \in {auth[w].stamp, now}
    /\ Left(w) = {}

\* Mistaken: the reset by link consumes the recovery codes and shows no new one.
ReplaceBare(w, now) ==
    /\ auth[w].pc \in Proofs
    /\ password < MaxChanges
    /\ IF Proven(w, now)
       THEN /\ password' = IF changedAt = auth[w].stamp THEN password + 1 ELSE password
            /\ changedAt' = now
            /\ codes' = IF auth[w].pc = "link" THEN {} ELSE {password'}
            /\ tokens' = {}
            /\ sessions' = IF auth[w].pc = "link" THEN {} ELSE {password'}
       ELSE UNCHANGED <<password, changedAt, codes, tokens, sessions>>
    /\ Leave(w)
    /\ UNCHANGED <<issued, mailed, promised, expired>>

\* One batch: the proof is consumed, the password replaced, the sessions and all other proofs
\* revoked, and a new code stored; all paths but the link's open a session.  Otherwise all of
\* it is rolled back, and the answer is that the proof is no longer good.
Replace(w, now) ==
    /\ auth[w].pc \in Proofs
    /\ password < MaxChanges
    /\ IF Proven(w, now)
       THEN /\ password' = IF changedAt = auth[w].stamp THEN password + 1 ELSE password
            /\ changedAt' = now
            /\ codes' = {password'}
            /\ tokens' = {}
            /\ sessions' = IF auth[w].pc = "link" THEN {} ELSE {password'}
       ELSE UNCHANGED <<password, changedAt, codes, tokens, sessions>>
    /\ Leave(w)
    /\ UNCHANGED <<issued, mailed, promised, expired>>

-----------------------------------------------------------------------------
(* Reset links.                                                            *)

\* A batch uses up the links there are and inserts a new one, which is mailed.
Issue(w) ==
    /\ In(w, "idle") /\ Enrolled
    /\ issued < MaxLinks
    /\ issued' = issued + 1
    /\ tokens' = {issued'}
    /\ Become(w, "mail", issued')
    /\ UNCHANGED <<password, changedAt, codes, mailed, promised, expired, sessions>>

\* The provider accepts the mail, whatever the request hears of it; the link can be used from
\* then on.  A mail accepted after the request gave up opens no more than one accepted before.
Accept(w) ==
    /\ In(w, "mail") /\ auth[w].proof \notin mailed
    /\ mailed' = mailed \cup {auth[w].proof}
    /\ UNCHANGED <<password, changedAt, codes, tokens, issued, promised, expired, sessions, auth>>

\* Its reply arrives within eight seconds: the answer is that the link was delivered.
Deliver(w) ==
    /\ In(w, "mail") /\ auth[w].proof \in mailed
    /\ promised' = promised \cup {[link |-> auth[w].proof, password |-> auth[w].seen]}
    /\ Leave(w)
    /\ UNCHANGED <<password, changedAt, codes, tokens, issued, mailed, expired, sessions>>

\* Mistaken: whatever link the account has is taken back.
TakeBackAll(w) ==
    /\ In(w, "mail")
    /\ tokens' = {}
    /\ Leave(w)
    /\ UNCHANGED <<password, changedAt, codes, issued, mailed, promised, expired, sessions>>

\* The provider refused, or its reply was lost or late: the link of this request is used up, and
\* no other, whether or not its mail was accepted.
TakeBack(w) ==
    /\ In(w, "mail")
    /\ tokens' = tokens \ {auth[w].proof}
    /\ Leave(w)
    /\ UNCHANGED <<password, changedAt, codes, issued, mailed, promised, expired, sessions>>

Expire(t) ==
    /\ t <= issued /\ t \notin expired
    /\ expired' = expired \cup {t}
    /\ UNCHANGED <<password, changedAt, codes, tokens, issued, mailed, promised, sessions, auth>>

\* The request stops for good.
Drop(w) ==
    /\ ~In(w, "idle")
    /\ Leave(w)
    /\ UNCHANGED <<password, changedAt, codes, tokens, issued, mailed, promised, expired, sessions>>

-----------------------------------------------------------------------------

AccountInit ==
    /\ password = -1 /\ changedAt = 0
    /\ codes = {} /\ tokens = {} /\ issued = 0 /\ mailed = {}
    /\ promised = {} /\ expired = {}
    /\ sessions = {}
    /\ auth = [w \in Workers |-> Rest]

AccountNext ==
    \/ Register \/ Logout
    \/ \E w \in Workers :
          \/ Login(w) \/ Open(w) \/ Reset(w) \/ Recover(w) \/ EmailReset(w)
          \/ \E now \in {changedAt, changedAt + 1} : Replace(w, now)
          \/ Issue(w) \/ Accept(w) \/ Deliver(w) \/ TakeBack(w) \/ Drop(w)
    \/ \E t \in Links : Expire(t)

AccountSpec == AccountInit /\ [][AccountNext]_accountVars

-----------------------------------------------------------------------------

AccountTypeOK ==
    /\ password \in Passwords \cup {-1}
    /\ changedAt \in 0 .. MaxChanges
    /\ codes \subseteq Passwords /\ sessions \subseteq Passwords
    /\ tokens \subseteq Links /\ issued \in 0 .. MaxLinks
    /\ mailed \subseteq 1 .. issued /\ expired \subseteq 1 .. issued
    /\ promised \subseteq [link : Links, password : Passwords]
    /\ auth \in [Workers -> [pc : Proofs \cup {"idle", "login", "mail"},
                             proof : 0 .. MaxChanges + MaxLinks, seen : Passwords,
                             stamp : 0 .. MaxChanges]]

\* Whichever proofs race for the account, it keeps exactly one way back without mail: the code
\* that was shown with its password; and at most one link can replace the password.
OneWayBack ==
    /\ Enrolled => codes = {password}
    /\ Cardinality(tokens) <= 1

\* No session outlives the password it was opened with, also one whose sign-in was still
\* verifying the old password when it was replaced.
SessionsOfThisPassword == sessions \subseteq {password}

\* A link that was answered as delivered is good until it is followed by another or the password
\* is replaced: the request for an earlier link, whose mail is reported failed late, does not
\* take it back.  A link that was delivered without such an answer is taken back (TakeBack after
\* Accept), and a delivered one is used up by the next request, whose own mail may fail.
PromisedLinkLives ==
    \A p \in promised : p.link = issued /\ p.password = password => p.link \in tokens
=============================================================================
