------------------------ MODULE LocalAccounts_proofs ------------------------
(***************************************************************************)
(* The account's safety for every number of requests, passwords and links. *)
(***************************************************************************)
EXTENDS LocalAccounts, FiniteSetTheorems, TLAPS

\* Before the enrolment there is nothing to prove with, and the time stamp of the password is no
\* later than the number of replacements.
EnrolmentFirst ==
    /\ ~Enrolled => /\ codes = {} /\ tokens = {} /\ sessions = {}
                    /\ changedAt = 0
                    /\ \A w \in Workers : In(w, "idle")
    /\ Enrolled => changedAt <= password

\* The link of the last rotation is the only one that may be unused.
LastLinkOnly == tokens \subseteq {issued}

\* What a request holds is not ahead of the account, a proof that is still unused was read under
\* the password it is to replace, and nobody was promised the link that a request is mailing.
RequestOK(w) ==
    LET a == auth[w]
    IN  /\ a.pc \in {"identity", "code"} =>
              a.proof <= password /\ (a.proof \in codes => a.stamp = changedAt)
        /\ a.pc = "link" => a.proof <= issued /\ (a.proof \in tokens => a.stamp = changedAt)
        /\ a.pc = "mail" =>
              /\ a.proof \in 1 .. issued /\ a.seen <= password
              /\ a.proof = issued /\ a.seen = password => a.proof \in tokens
              /\ \A p \in promised : p.link # a.proof

\* No two requests mail one link.
MailingIsUnshared ==
    \A v, w \in Workers : In(v, "mail") /\ In(w, "mail") /\ auth[v].proof = auth[w].proof => v = w

\* Nothing was promised of what is still to come.
PromisesPast == \A p \in promised : p.link <= issued /\ p.password <= password

AccountInv ==
    /\ AccountTypeOK /\ EnrolmentFirst
    /\ (Enrolled => codes = {password}) /\ SessionsOfThisPassword /\ LastLinkOnly
    /\ (\A w \in Workers : RequestOK(w)) /\ MailingIsUnshared
    /\ PromisesPast /\ PromisedLinkLives

-----------------------------------------------------------------------------

\* An account that is not enrolled has nothing to prove with.
LEMMA InitInv == ASSUME AccountConstants PROVE AccountInit => AccountInv
BY DEF AccountConstants, AccountInit, AccountInv, AccountTypeOK, EnrolmentFirst, LastLinkOnly,
       RequestOK, MailingIsUnshared, PromisesPast, PromisedLinkLives, SessionsOfThisPassword,
       Enrolled, In, Rest, Passwords, Links, Proofs

\* What the requests hold.
Memory == [pc : Proofs \cup {"idle", "login", "mail"}, proof : 0 .. MaxChanges + MaxLinks,
           seen : Passwords, stamp : 0 .. MaxChanges]

\* A request that comes to rest.
LEMMA Leaves ==
    ASSUME AccountConstants, AccountInv, NEW w \in Workers, Leave(w)
    PROVE  /\ auth' \in [Workers -> Memory] /\ auth'[w].pc = "idle"
           /\ \A v \in Workers \ {w} : auth'[v] = auth[v]
BY DEF AccountConstants, AccountInv, AccountTypeOK, Leave, Rest, Memory, Passwords, Proofs

\* A request that takes up a proof or a password.
LEMMA Becomes ==
    ASSUME AccountConstants, AccountInv, Enrolled, NEW w \in Workers,
           NEW pc \in Proofs \cup {"login", "mail"}, NEW proof \in Passwords \cup Links,
           Become(w, pc, proof)
    PROVE  /\ auth' \in [Workers -> Memory]
           /\ auth'[w] = [pc |-> pc, proof |-> proof, seen |-> password, stamp |-> changedAt]
           /\ \A v \in Workers \ {w} : auth'[v] = auth[v]
<1>1. [pc |-> pc, proof |-> proof, seen |-> password, stamp |-> changedAt] \in Memory
  BY DEF AccountConstants, AccountInv, AccountTypeOK, Memory, Passwords, Links, Enrolled
<1>2. auth \in [Workers -> Memory]
  BY DEF AccountInv, AccountTypeOK, Memory
<1>3. QED BY <1>1, <1>2 DEF Become

\* A step of one request that changes nothing that the others hold a proof of.
LEMMA QuietStep ==
    ASSUME AccountConstants, AccountInv, Enrolled, NEW w \in Workers,
           auth' \in [Workers -> Memory], \A v \in Workers \ {w} : auth'[v] = auth[v],
           RequestOK(w)', In(w, "mail")' => auth'[w] = auth[w],
           UNCHANGED <<password, changedAt, codes, tokens, issued, promised>>,
           mailed' \subseteq 1 .. issued, expired' \subseteq 1 .. issued,
           sessions' \subseteq sessions \cup {password}
    PROVE  AccountInv'
<1> USE DEF AccountConstants, AccountInv, Enrolled
<1>1. AccountTypeOK'
  BY DEF AccountTypeOK, Memory
<1>2. EnrolmentFirst' /\ (Enrolled => codes = {password})' /\ LastLinkOnly'
      /\ SessionsOfThisPassword'
  BY DEF EnrolmentFirst, LastLinkOnly, SessionsOfThisPassword
<1>3. ASSUME NEW v \in Workers PROVE RequestOK(v)'
  <2>1. CASE v = w
    BY <2>1
  <2>2. CASE v # w
    BY <2>2 DEF RequestOK
  <2> QED BY <2>1, <2>2
<1>4. MailingIsUnshared'
  BY DEF MailingIsUnshared, In
<1>5. PromisesPast' /\ PromisedLinkLives'
  BY DEF PromisesPast, PromisedLinkLives
<1> QED BY <1>1, <1>2, <1>3, <1>4, <1>5

\* A request that takes up a password or an unused proof of the account.
LEMMA TakeUpStep ==
    ASSUME AccountConstants, AccountInv, Enrolled, NEW w \in Workers,
           NEW pc \in Proofs \cup {"login"}, NEW proof, Become(w, pc, proof),
           \/ pc \in {"identity", "code"} /\ proof \in codes
           \/ pc = "link" /\ proof \in tokens
           \/ pc = "login" /\ proof = 0,
           UNCHANGED <<password, changedAt, codes, tokens, issued, mailed, promised, expired,
                       sessions>>
    PROVE  AccountInv'
<1>1. proof \in Passwords \cup Links
  BY DEF AccountInv, AccountTypeOK, AccountConstants, Passwords
<1>2. /\ auth' \in [Workers -> Memory]
      /\ auth'[w] = [pc |-> pc, proof |-> proof, seen |-> password, stamp |-> changedAt]
      /\ \A v \in Workers \ {w} : auth'[v] = auth[v]
  BY <1>1, Becomes
<1>3. ~In(w, "mail")'
  BY <1>2 DEF In, Proofs
<1>4. RequestOK(w)'
  <2>1. password \in Nat /\ issued \in Nat /\ codes = {password}
        /\ \A t \in tokens : t = issued
    BY DEF AccountInv, AccountTypeOK, AccountConstants, Passwords, Enrolled, LastLinkOnly
  <2>2. pc \in {"identity", "code"} => proof <= password
    BY <2>1 DEF Proofs
  <2>3. pc = "link" => proof <= issued
    BY <2>1 DEF Proofs
  <2> QED BY <1>2, <2>2, <2>3 DEF RequestOK, Proofs
<1>5. QED BY <1>2, <1>3, <1>4, QuietStep DEF AccountInv, AccountTypeOK

\* A request that comes to rest and leaves everything but a session or a mail as it was.
LEMMA RestStep ==
    ASSUME AccountConstants, AccountInv, Enrolled, NEW w \in Workers, Leave(w),
           UNCHANGED <<password, changedAt, codes, tokens, issued, mailed, promised, expired>>,
           sessions' \subseteq sessions \cup {password}
    PROVE  AccountInv'
<1>1. /\ auth' \in [Workers -> Memory] /\ auth'[w].pc = "idle"
      /\ \A v \in Workers \ {w} : auth'[v] = auth[v]
  BY Leaves
<1>2. RequestOK(w)' /\ ~In(w, "mail")'
  BY <1>1 DEF RequestOK, In
<1>3. QED BY <1>1, <1>2, QuietStep DEF AccountInv, AccountTypeOK

\* The batch of a proof: it changes the password whenever it takes effect.
LEMMA ReplaceStep ==
    ASSUME AccountConstants, AccountInv, NEW w \in Workers,
           NEW now \in {changedAt, changedAt + 1}, Replace(w, now)
    PROVE  AccountInv'
<1>0. auth[w].pc \in Proofs /\ Enrolled /\ Leave(w) /\ password < MaxChanges
      /\ UNCHANGED <<issued, mailed, promised, expired>>
  BY DEF Replace, AccountInv, EnrolmentFirst, In, Proofs
<1>1. CASE ~Proven(w, now)
  BY <1>0, <1>1, RestStep DEF Replace
<1>2. CASE Proven(w, now)
  <2>1. changedAt = auth[w].stamp
    BY <1>0, <1>2 DEF Proven, AccountInv, RequestOK, Proofs
  <2>2. /\ password' = password + 1 /\ codes' = {password + 1} /\ tokens' = {}
        /\ changedAt' = now /\ sessions' \subseteq {password + 1}
    BY <1>2, <2>1 DEF Replace
  <2>3. /\ password \in Nat /\ issued \in Nat /\ changedAt \in 0 .. MaxChanges
        /\ changedAt <= password /\ password + 1 \in Passwords /\ MaxChanges \in Nat
    BY <1>0 DEF AccountInv, AccountTypeOK, AccountConstants, Passwords, Enrolled, EnrolmentFirst
  <2>4. /\ auth' \in [Workers -> Memory] /\ auth'[w].pc = "idle"
        /\ \A v \in Workers \ {w} : auth'[v] = auth[v]
    BY <1>0, Leaves
  <2>5. AccountTypeOK'
    BY <1>0, <2>2, <2>3, <2>4 DEF AccountInv, AccountTypeOK, Memory
  <2>6. EnrolmentFirst' /\ (Enrolled => codes = {password})' /\ LastLinkOnly'
        /\ SessionsOfThisPassword'
    BY <2>2, <2>3 DEF EnrolmentFirst, Enrolled, LastLinkOnly, SessionsOfThisPassword
  <2>7. ASSUME NEW v \in Workers PROVE RequestOK(v)'
    <3>1. CASE v = w
      BY <2>4, <3>1 DEF RequestOK
    <3>2. CASE v # w
      <4>1. auth'[v] = auth[v] /\ RequestOK(v) /\ auth[v] \in Memory
        BY <2>4, <3>2 DEF AccountInv, AccountTypeOK, Memory
      <4>2. auth[v].proof \in Int /\ auth[v].seen \in Int
        BY <4>1 DEF Memory, Passwords, AccountConstants
      <4> QED BY <1>0, <2>2, <2>3, <4>1, <4>2 DEF RequestOK
    <3> QED BY <3>1, <3>2
  <2>8. MailingIsUnshared'
    BY <2>4 DEF MailingIsUnshared, In, AccountInv
  <2>9. PromisesPast' /\ PromisedLinkLives'
    <3>1. \A p \in promised : p.password \in Int /\ p.link <= issued /\ p.password <= password
      BY DEF AccountInv, AccountTypeOK, PromisesPast, Passwords, AccountConstants
    <3> QED BY <1>0, <2>2, <2>3, <3>1 DEF PromisesPast, PromisedLinkLives
  <2> QED BY <2>5, <2>6, <2>7, <2>8, <2>9 DEF AccountInv
<1>3. QED BY <1>1, <1>2

\* A new link is ahead of all that were mailed, held or promised before it.
LEMMA IssueStep ==
    ASSUME AccountConstants, AccountInv, NEW w \in Workers, Issue(w)
    PROVE  AccountInv'
<1>0. /\ Enrolled /\ issued' = issued + 1 /\ tokens' = {issued + 1} /\ issued + 1 \in Links
      /\ issued \in Nat /\ password \in Nat /\ Become(w, "mail", issued + 1) /\ In(w, "idle")
      /\ UNCHANGED <<password, changedAt, codes, mailed, promised, expired, sessions>>
  BY DEF Issue, AccountInv, AccountTypeOK, AccountConstants, Links, Passwords, Enrolled
<1>1. /\ auth' \in [Workers -> Memory]
      /\ auth'[w] = [pc |-> "mail", proof |-> issued + 1, seen |-> password, stamp |-> changedAt]
      /\ \A v \in Workers \ {w} : auth'[v] = auth[v]
  BY <1>0, Becomes
<1>2. AccountTypeOK'
  BY <1>0, <1>1 DEF AccountInv, AccountTypeOK, Memory, Links, AccountConstants
<1>3. EnrolmentFirst' /\ (Enrolled => codes = {password})' /\ LastLinkOnly'
      /\ SessionsOfThisPassword'
  BY <1>0 DEF AccountInv, EnrolmentFirst, Enrolled, LastLinkOnly, SessionsOfThisPassword
<1>4. \A p \in promised : p.link \in Int /\ p.link <= issued /\ p.password <= password
  BY DEF AccountInv, AccountTypeOK, PromisesPast, Links
<1>5. ASSUME NEW v \in Workers \ {w}
      PROVE  /\ auth'[v] = auth[v] /\ RequestOK(v) /\ auth[v].proof \in Int
             /\ In(v, "mail") => auth[v].proof <= issued
  BY <1>1 DEF AccountInv, AccountTypeOK, AccountConstants, RequestOK, In
<1>6. ASSUME NEW v \in Workers PROVE RequestOK(v)'
  <2>1. CASE v = w
    BY <1>0, <1>1, <1>4, <2>1 DEF RequestOK
  <2>2. CASE v # w
    BY <1>0, <1>5, <2>2 DEF RequestOK
  <2> QED BY <2>1, <2>2
<1>7. MailingIsUnshared'
  <2>1. auth'[w].proof = issued + 1
    BY <1>1
  <2> QED BY <1>0, <1>5, <2>1 DEF MailingIsUnshared, In, AccountInv
<1>8. PromisesPast' /\ PromisedLinkLives'
  BY <1>0, <1>4 DEF PromisesPast, PromisedLinkLives
<1>9. QED BY <1>2, <1>3, <1>6, <1>7, <1>8 DEF AccountInv

\* What is promised is the link that this request alone was mailing.
LEMMA DeliverStep ==
    ASSUME AccountConstants, AccountInv, NEW w \in Workers, Deliver(w)
    PROVE  AccountInv'
<1> DEFINE new == [link |-> auth[w].proof, password |-> auth[w].seen]
<1>0. /\ In(w, "mail") /\ Enrolled /\ Leave(w) /\ promised' = promised \cup {new}
      /\ UNCHANGED <<password, changedAt, codes, tokens, issued, mailed, expired, sessions>>
  BY DEF Deliver, AccountInv, EnrolmentFirst, In
<1>1. /\ auth' \in [Workers -> Memory] /\ auth'[w].pc = "idle"
      /\ \A v \in Workers \ {w} : auth'[v] = auth[v]
  BY <1>0, Leaves
<1>2. /\ auth[w].proof \in 1 .. issued /\ auth[w].seen <= password /\ auth[w].seen \in Passwords
      /\ auth[w].proof = issued /\ auth[w].seen = password => auth[w].proof \in tokens
  BY <1>0 DEF AccountInv, AccountTypeOK, RequestOK, In
<1>3. AccountTypeOK'
  <2>1. new \in [link : Links, password : Passwords]
    BY <1>2 DEF AccountInv, AccountTypeOK, Links, AccountConstants
  <2> HIDE DEF new
  <2> QED BY <1>0, <1>1, <2>1 DEF AccountInv, AccountTypeOK, Memory
<1>4. EnrolmentFirst' /\ (Enrolled => codes = {password})' /\ LastLinkOnly'
      /\ SessionsOfThisPassword'
  BY <1>0 DEF AccountInv, EnrolmentFirst, Enrolled, LastLinkOnly, SessionsOfThisPassword
<1>5. ASSUME NEW v \in Workers PROVE RequestOK(v)'
  <2>1. CASE v = w
    BY <1>1, <2>1 DEF RequestOK
  <2>2. CASE v # w
    <3>1. auth'[v] = auth[v] /\ RequestOK(v)
      BY <1>1, <2>2 DEF AccountInv
    <3>2. auth[v].pc = "mail" => auth[v].proof # auth[w].proof
      BY <1>0, <2>2 DEF AccountInv, MailingIsUnshared, In
    <3> QED BY <1>0, <3>1, <3>2 DEF RequestOK
  <2> QED BY <2>1, <2>2
<1>6. MailingIsUnshared'
  BY <1>1 DEF AccountInv, MailingIsUnshared, In
<1>7. PromisesPast' /\ PromisedLinkLives'
  <2>1. /\ new.link <= issued /\ new.password <= password
        /\ new.link = issued /\ new.password = password => new.link \in tokens
    BY <1>2 DEF AccountInv, AccountTypeOK, AccountConstants
  <2> HIDE DEF new
  <2> QED BY <1>0, <2>1 DEF AccountInv, PromisesPast, PromisedLinkLives
<1>8. QED BY <1>3, <1>4, <1>5, <1>6, <1>7 DEF AccountInv

\* What is taken back is a link that nobody was promised.
LEMMA TakeBackStep ==
    ASSUME AccountConstants, AccountInv, NEW w \in Workers, TakeBack(w)
    PROVE  AccountInv'
<1>0. /\ In(w, "mail") /\ Enrolled /\ Leave(w) /\ tokens' = tokens \ {auth[w].proof}
      /\ UNCHANGED <<password, changedAt, codes, issued, mailed, promised, expired, sessions>>
  BY DEF TakeBack, AccountInv, EnrolmentFirst, In
<1>1. /\ auth' \in [Workers -> Memory] /\ auth'[w].pc = "idle"
      /\ \A v \in Workers \ {w} : auth'[v] = auth[v]
  BY <1>0, Leaves
<1>2. AccountTypeOK'
  BY <1>0, <1>1 DEF AccountInv, AccountTypeOK, Memory
<1>3. EnrolmentFirst' /\ (Enrolled => codes = {password})' /\ LastLinkOnly'
      /\ SessionsOfThisPassword'
  BY <1>0 DEF AccountInv, EnrolmentFirst, Enrolled, LastLinkOnly, SessionsOfThisPassword
<1>4. ASSUME NEW v \in Workers PROVE RequestOK(v)'
  <2>1. CASE v = w
    BY <1>1, <2>1 DEF RequestOK
  <2>2. CASE v # w
    <3>1. auth'[v] = auth[v] /\ RequestOK(v)
      BY <1>1, <2>2 DEF AccountInv
    <3>2. auth[v].pc = "mail" => auth[v].proof # auth[w].proof
      BY <1>0, <2>2 DEF AccountInv, MailingIsUnshared, In
    <3> QED BY <1>0, <3>1, <3>2 DEF RequestOK
  <2> QED BY <2>1, <2>2
<1>5. MailingIsUnshared'
  BY <1>1 DEF AccountInv, MailingIsUnshared, In
<1>6. PromisesPast' /\ PromisedLinkLives'
  <2>1. \A p \in promised : p.link # auth[w].proof
    BY <1>0 DEF AccountInv, RequestOK, In
  <2> QED BY <1>0, <2>1 DEF AccountInv, PromisesPast, PromisedLinkLives
<1>7. QED BY <1>2, <1>3, <1>4, <1>5, <1>6 DEF AccountInv

\* Steps in which no request moves and no proof changes.
LEMMA StillStep ==
    ASSUME AccountConstants, AccountInv,
           UNCHANGED <<password, changedAt, codes, tokens, issued, promised, auth>>,
           mailed' \subseteq 1 .. issued, expired' \subseteq 1 .. issued,
           sessions' \subseteq sessions
    PROVE  AccountInv'
<1> USE DEF AccountInv
<1>1. AccountTypeOK' BY DEF AccountTypeOK
<1>2. EnrolmentFirst' BY DEF EnrolmentFirst, Enrolled, In
<1>3. (Enrolled => codes = {password})' /\ LastLinkOnly' /\ SessionsOfThisPassword'
  BY DEF Enrolled, LastLinkOnly, SessionsOfThisPassword
<1>4. ASSUME NEW v \in Workers PROVE RequestOK(v)' BY DEF RequestOK
<1>5. MailingIsUnshared' BY DEF MailingIsUnshared, In
<1>6. PromisesPast' /\ PromisedLinkLives' BY DEF PromisesPast, PromisedLinkLives
<1>7. QED BY <1>1, <1>2, <1>3, <1>4, <1>5, <1>6

\* Every step keeps the account in order.
LEMMA StepInv ==
    ASSUME AccountConstants, AccountInv, [AccountNext]_accountVars
    PROVE  AccountInv'
<1>1. ASSUME Register PROVE AccountInv'
  <2>1. /\ password = -1 /\ password' = 0 /\ codes' = {0} /\ sessions' = {0} /\ changedAt = 0
        /\ \A v \in Workers : In(v, "idle")
        /\ UNCHANGED <<changedAt, tokens, issued, mailed, promised, expired, auth>>
    BY <1>1 DEF Register, AccountInv, AccountTypeOK, EnrolmentFirst, Enrolled, Passwords,
                AccountConstants
  <2>2. AccountTypeOK' /\ EnrolmentFirst' /\ (Enrolled => codes = {password})'
        /\ SessionsOfThisPassword' /\ LastLinkOnly'
    BY <2>1 DEF AccountInv, AccountTypeOK, EnrolmentFirst, Enrolled, SessionsOfThisPassword,
                LastLinkOnly, Passwords, AccountConstants
  <2>3. (\A v \in Workers : RequestOK(v)') /\ MailingIsUnshared'
    BY <2>1 DEF RequestOK, MailingIsUnshared, In
  <2>4. PromisesPast' /\ PromisedLinkLives'
    <3>1. promised = {}
      BY <2>1 DEF AccountInv, AccountTypeOK, PromisesPast, Passwords, AccountConstants
    <3> QED BY <2>1, <3>1 DEF PromisesPast, PromisedLinkLives
  <2>5. QED BY <2>2, <2>3, <2>4 DEF AccountInv
<1>2. ASSUME Logout \/ (\E t \in Links : Expire(t)) \/ UNCHANGED accountVars PROVE AccountInv'
  <2>1. /\ UNCHANGED <<password, changedAt, codes, tokens, issued, promised, auth, mailed>>
        /\ sessions' \subseteq sessions
    BY <1>2 DEF Logout, Expire, accountVars
  <2>2. mailed \subseteq 1 .. issued /\ expired \subseteq 1 .. issued
    BY DEF AccountInv, AccountTypeOK
  <2>3. expired' \subseteq 1 .. issued
    <3>1. CASE expired' = expired
      BY <2>2, <3>1
    <3>2. ASSUME NEW t \in Links, Expire(t) PROVE expired' \subseteq 1 .. issued
      <4>1. t \in 1 .. issued /\ expired' = expired \cup {t}
        BY <3>2 DEF Expire, Links, AccountInv, AccountTypeOK, AccountConstants
      <4> QED BY <2>2, <4>1
    <3> QED BY <1>2, <3>1, <3>2 DEF Logout, accountVars
  <2>4. QED BY <2>1, <2>2, <2>3, StillStep
<1>3. ASSUME NEW w \in Workers, Login(w) PROVE AccountInv'
  BY <1>3, TakeUpStep DEF Login
<1>4. ASSUME NEW w \in Workers, Open(w) \/ Drop(w) PROVE AccountInv'
  <2>1. Enrolled
    BY <1>4 DEF Open, Drop, In, AccountInv, EnrolmentFirst
  <2>2. QED BY <1>4, <2>1, RestStep DEF Open, Drop
<1>5. ASSUME NEW w \in Workers, Reset(w) \/ Recover(w) \/ EmailReset(w) PROVE AccountInv'
  BY <1>5, TakeUpStep DEF Reset, Recover, EmailReset, Proofs
<1>6. ASSUME NEW w \in Workers, NEW now \in {changedAt, changedAt + 1}, Replace(w, now)
      PROVE AccountInv'
  BY <1>6, ReplaceStep
<1>7. ASSUME NEW w \in Workers, Issue(w) \/ Deliver(w) \/ TakeBack(w) PROVE AccountInv'
  BY <1>7, IssueStep, DeliverStep, TakeBackStep
<1>8. ASSUME NEW w \in Workers, Accept(w) PROVE AccountInv'
  BY <1>8, StillStep
     DEF Accept, In, AccountInv, AccountTypeOK, RequestOK
<1>9. QED
  BY <1>1, <1>2, <1>3, <1>4, <1>5, <1>6, <1>7, <1>8 DEF AccountNext

\* The account is in order in every reachable state.
LEMMA Inductive == ASSUME AccountConstants PROVE AccountSpec => []AccountInv
BY InitInv, StepInv, PTL DEF AccountSpec

-----------------------------------------------------------------------------

\* The account's tables and the requests' memory keep their types.
THEOREM AccountTyped == ASSUME AccountConstants PROVE AccountSpec => []AccountTypeOK
<1>1. AccountInv => AccountTypeOK BY DEF AccountInv
<1>2. QED BY <1>1, Inductive, PTL

\* Whichever proofs race, an enrolled account has exactly the code of its password, and at most
\* one reset link (email-reset/route.ts, reset/route.ts, recover/route.ts, password-reset-service.ts).
THEOREM OneCodeOneLink == ASSUME AccountConstants PROVE AccountSpec => []OneWayBack
<1>1. AccountInv => OneWayBack
  <2> SUFFICES ASSUME AccountInv PROVE OneWayBack
    OBVIOUS
  <2>1. IsFiniteSet(tokens) /\ Cardinality(tokens) <= Cardinality({issued})
    BY FS_Singleton, FS_Subset DEF AccountInv, LastLinkOnly
  <2>2. QED BY <2>1, FS_Singleton, FS_CardinalityType DEF AccountInv, OneWayBack
<1>2. QED BY <1>1, Inductive, PTL

\* No session is left of a replaced password (login/route.ts:60 inserts where the account is still
\* as it was verified).
THEOREM SessionsReplaced == ASSUME AccountConstants PROVE AccountSpec => []SessionsOfThisPassword
<1>1. AccountInv => SessionsOfThisPassword BY DEF AccountInv
<1>2. QED BY <1>1, Inductive, PTL

\* A link that was answered as delivered is good until it is followed by another or the password is
\* replaced: a mail that is reported failed takes back only the link it carried
\* (password-reset-service.ts:40).
THEOREM PromisesKept == ASSUME AccountConstants PROVE AccountSpec => []PromisedLinkLives
<1>1. AccountInv => PromisedLinkLives BY DEF AccountInv
<1>2. QED BY <1>1, Inductive, PTL
=============================================================================
