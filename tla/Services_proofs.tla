--------------------------- MODULE Services_proofs ---------------------------
(***************************************************************************)
(* Each service keeps, beside the others, what its own module proves;      *)
(* reviewed evidence and the firm's contacts, what is proved of them here. *)
(*                                                                         *)
(* A module that is instanced twice has two copies of every definition, so *)
(* a lemma first says that the copies agree: a step of the service in      *)
(* Services is a step of the service in the module of its proofs.          *)
(***************************************************************************)
EXTENDS Services, FiniteSetTheorems, SequenceTheorems, TLAPS

PlayP    == INSTANCE PlaySessions_proofs
AccountP == INSTANCE LocalAccounts_proofs
FirmP    == INSTANCE FirmLibrary_proofs WITH Calls <- Workers, Keys <- LibraryKeys

-----------------------------------------------------------------------------
(* A behaviour of the services is one of each of them.                     *)

\* The sessions of play, beside the other services.
LEMMA PlayInServices == ServicesSpec => PlayP!PlaySpec
<1>1. ServicesInit => PlayP!PlayInit
  BY DEF ServicesInit, Play!PlayInit, PlayP!PlayInit, Play!NoSession, PlayP!NoSession, Play!Resting,
         PlayP!Resting
<1>2. [ServicesNext]_servicesVars => [PlayP!PlayNext]_PlayP!playVars
  <2>1. Play!PlayNext => PlayP!PlayNext
    BY DEF Play!Commands, PlayP!Commands, Play!Sessions, PlayP!Sessions, Play!StartRequests,
           PlayP!StartRequests, Play!EventRequests, PlayP!EventRequests, Play!Resting,
           PlayP!Resting, Play!In, PlayP!In, Play!Asked, PlayP!Asked, Play!Row, PlayP!Row,
           Play!Hold, PlayP!Hold, Play!Move, PlayP!Move, Play!Refuse, PlayP!Refuse,
           Play!Accept, PlayP!Accept, Play!Risk, PlayP!Risk, Play!Own, PlayP!Own, Play!Logged,
           PlayP!Logged, Play!EventOf, PlayP!EventOf, Play!After, PlayP!After, Play!SendStart,
           PlayP!SendStart, Play!Start, PlayP!Start, Play!Started, PlayP!Started, Play!Send,
           PlayP!Send, Play!Check, PlayP!Check, Play!Blocked, PlayP!Blocked, Play!NewEvent,
           PlayP!NewEvent, Play!Batch, PlayP!Batch, Play!Settle, PlayP!Settle,
           Play!BatchFails, PlayP!BatchFails, Play!Drop, PlayP!Drop, Play!PlayNext,
           PlayP!PlayNext, Play!NoSession, PlayP!NoSession
  <2>2. CASE Play!PlayNext
    BY <2>1, <2>2
  <2>3. CASE UNCHANGED playVars
    BY <2>3 DEF playVars, PlayP!playVars
  <2> QED
    BY <2>2, <2>3
    DEF ServicesNext, servicesVars, InProposals, InPlay, InAccount, InEvidence, InLibrary,
           InContacts
<1> QED BY <1>1, <1>2, PTL DEF ServicesSpec, PlayP!PlaySpec

\* The account, beside the other services.
LEMMA AccountInServices == ServicesSpec => AccountP!AccountSpec
<1>1. ServicesInit => AccountP!AccountInit
  BY DEF ServicesInit, Account!AccountInit, AccountP!AccountInit, Account!Rest, AccountP!Rest
<1>2. [ServicesNext]_servicesVars => [AccountP!AccountNext]_AccountP!accountVars
  <2>1. Account!AccountNext => AccountP!AccountNext
    BY DEF Account!Links, AccountP!Links, Account!Proofs, AccountP!Proofs, Account!Rest,
           AccountP!Rest, Account!In, AccountP!In, Account!Become, AccountP!Become,
           Account!Leave, AccountP!Leave, Account!Enrolled, AccountP!Enrolled,
           Account!Register, AccountP!Register, Account!Login, AccountP!Login, Account!Open,
           AccountP!Open, Account!Logout, AccountP!Logout, Account!Reset, AccountP!Reset,
           Account!Recover, AccountP!Recover, Account!EmailReset, AccountP!EmailReset,
           Account!Left, AccountP!Left, Account!Proven, AccountP!Proven, Account!Replace,
           AccountP!Replace, Account!Issue, AccountP!Issue, Account!Accept, AccountP!Accept,
           Account!Deliver, AccountP!Deliver, Account!TakeBack, AccountP!TakeBack,
           Account!Expire, AccountP!Expire, Account!Drop, AccountP!Drop, Account!AccountNext,
           AccountP!AccountNext
  <2>2. CASE Account!AccountNext
    BY <2>1, <2>2
  <2>3. CASE UNCHANGED accountVars
    BY <2>3 DEF accountVars, AccountP!accountVars
  <2> QED
    BY <2>2, <2>3
    DEF ServicesNext, servicesVars, InProposals, InPlay, InAccount, InEvidence, InLibrary,
           InContacts
<1> QED BY <1>1, <1>2, PTL DEF ServicesSpec, AccountP!AccountSpec

\* The library of the firm, beside the other services.
LEMMA LibraryInServices == ServicesSpec => FirmP!LibrarySpec
<1>1. ServicesInit => FirmP!LibraryInit
  BY DEF ServicesInit, Firm!LibraryInit, FirmP!LibraryInit, Firm!NoRow, FirmP!NoRow, Firm!NoCall,
         FirmP!NoCall, Firm!NoTab, FirmP!NoTab
<1>2. [ServicesNext]_servicesVars => [FirmP!LibraryNext]_FirmP!libraryVars
  <2>1. Firm!LibraryNext => FirmP!LibraryNext
    BY DEF Firm!tables, FirmP!tables, Firm!Forms, FirmP!Forms, Firm!Bodies, FirmP!Bodies,
           Firm!NoRow, FirmP!NoRow, Firm!NoCall, FirmP!NoCall, Firm!NoTab, FirmP!NoTab,
           Firm!Files, FirmP!Files, Firm!Latest, FirmP!Latest, Firm!Object, FirmP!Object,
           Firm!Alike, FirmP!Alike, Firm!Idle, FirmP!Idle, Firm!Submit, FirmP!Submit,
           Firm!Upload, FirmP!Upload, Firm!Resume, FirmP!Resume, Firm!Resend, FirmP!Resend,
           Firm!CheckSaved, FirmP!CheckSaved, Firm!CancelIncomplete, FirmP!CancelIncomplete,
           Firm!To, FirmP!To, Firm!Answer, FirmP!Answer, Firm!Fails, FirmP!Fails, Firm!Rest,
           FirmP!Rest, Firm!Original, FirmP!Original, Firm!ReadLatest, FirmP!ReadLatest,
           Firm!Stage, FirmP!Stage, Firm!Put, FirmP!Put, Firm!MayInsert, FirmP!MayInsert,
           Firm!Insert, FirmP!Insert, Firm!Recheck, FirmP!Recheck, Firm!Reread, FirmP!Reread,
           Firm!SaveFolder, FirmP!SaveFolder, Firm!Cancel, FirmP!Cancel, Firm!Looked,
           FirmP!Looked, Firm!ReadRow, FirmP!ReadRow, Firm!ReadIntent, FirmP!ReadIntent,
           Firm!CallFails, FirmP!CallFails, Firm!Suspend, FirmP!Suspend, Firm!Complete,
           FirmP!Complete, Firm!Keep, FirmP!Keep, Firm!News, FirmP!News, Firm!Receive,
           FirmP!Receive, Firm!GiveUp, FirmP!GiveUp, Firm!Reload, FirmP!Reload, Firm!Lost,
           FirmP!Lost, Firm!LibraryNext, FirmP!LibraryNext, Firm!Max, FirmP!Max,
           Firm!Cardinality, FirmP!Cardinality
  <2>2. CASE Firm!LibraryNext
    BY <2>1, <2>2
  <2>3. CASE UNCHANGED libraryVars
    BY <2>3 DEF libraryVars, FirmP!libraryVars, FirmP!tables
  <2> QED
    BY <2>2, <2>3
    DEF ServicesNext, servicesVars, InProposals, InPlay, InAccount, InEvidence, InLibrary,
           InContacts
<1> QED BY <1>1, <1>2, PTL DEF ServicesSpec, FirmP!LibrarySpec

\* The bounds of the services are numbers.
LEMMA BoundsAgree == PlayP!PlayConstants /\ AccountP!AccountConstants /\ FirmP!LibraryConstants
BY ServicesConstants
DEF ServicesConstants, Play!PlayConstants, PlayP!PlayConstants, Account!AccountConstants,
    AccountP!AccountConstants, Firm!LibraryConstants, FirmP!LibraryConstants, Firm!Cardinality,
    FirmP!Cardinality, Firm!IsFiniteSet, FirmP!IsFiniteSet

-----------------------------------------------------------------------------
(* What the services promise, beside one another.                          *)

\* Replaying the log of a session gives its row, whoever sends what twice (play sessions' events
\* route).
THEOREM SessionsReplay == ServicesSpec => []StateIsLog
<1>1. PlayP!StateIsLog => StateIsLog
  BY DEF StateIsLog, Play!StateIsLog, PlayP!StateIsLog, Play!Cardinality, PlayP!Cardinality
<1>2. ServicesSpec => []PlayP!StateIsLog
  BY PlayInServices, PlayP!RowsReplay, BoundsAgree
<1> QED BY <1>1, <1>2, PTL

\* What a player was told is done is in the log as it was sent.
THEOREM AnswersStand == ServicesSpec => []AckedIsDone
<1>1. PlayP!AckedIsDone => AckedIsDone
  BY DEF AckedIsDone, Play!AckedIsDone, PlayP!AckedIsDone, Play!EventOf, PlayP!EventOf
<1>2. ServicesSpec => []PlayP!AckedIsDone
  BY PlayInServices, PlayP!AnswersKept, BoundsAgree
<1> QED BY <1>1, <1>2, PTL

\* An enrolled account has one recovery code, its password's, and at most one reset link.
THEOREM WaysBack == ServicesSpec => []OneWayBack
<1>1. AccountP!OneWayBack => OneWayBack
  BY DEF OneWayBack, Account!OneWayBack, AccountP!OneWayBack, Account!Enrolled, AccountP!Enrolled,
         Account!Cardinality, AccountP!Cardinality
<1>2. ServicesSpec => []AccountP!OneWayBack
  BY AccountInServices, AccountP!OneCodeOneLink, BoundsAgree
<1> QED BY <1>1, <1>2, PTL

\* No session outlives the password it was opened with.
THEOREM NoStaleSession == ServicesSpec => []SessionsOfThisPassword
<1>1. AccountP!SessionsOfThisPassword => SessionsOfThisPassword
  BY DEF SessionsOfThisPassword, Account!SessionsOfThisPassword, AccountP!SessionsOfThisPassword
<1>2. ServicesSpec => []AccountP!SessionsOfThisPassword
  BY AccountInServices, AccountP!SessionsReplaced, BoundsAgree
<1> QED BY <1>1, <1>2, PTL

\* A reset link that was answered as delivered is good until the next one or a new password, also
\* while the mail of an earlier link is reported failed.
THEOREM LinksLive == ServicesSpec => []PromisedLinkLives
<1>1. AccountP!PromisedLinkLives => PromisedLinkLives
  BY DEF PromisedLinkLives, Account!PromisedLinkLives, AccountP!PromisedLinkLives
<1>2. ServicesSpec => []AccountP!PromisedLinkLives
  BY AccountInServices, AccountP!PromisesKept, BoundsAgree
<1> QED BY <1>1, <1>2, PTL

\* What a tab of the library was told stays true, and a refused save that was sent once was not
\* made.
THEOREM NoticesStand == ServicesSpec => []NoticesTrue
<1>1. FirmP!NoticesTrue => NoticesTrue
  BY DEF NoticesTrue, Firm!NoticesTrue, FirmP!NoticesTrue, Firm!Alike, FirmP!Alike, Firm!Forms,
         FirmP!Forms, Firm!Cardinality, FirmP!Cardinality
<1>2. ServicesSpec => []FirmP!NoticesTrue
  BY LibraryInServices, FirmP!Notices, BoundsAgree
<1> QED BY <1>1, <1>2, PTL

\* The versions of a document follow one another, each backed by its original and its upload.
THEOREM VersionsFollowOn == ServicesSpec => []VersionsBacked
<1>1. FirmP!VersionsBacked => VersionsBacked
  BY DEF VersionsBacked, Firm!VersionsBacked, FirmP!VersionsBacked, Firm!Alike, FirmP!Alike,
         Firm!Forms, FirmP!Forms, Firm!Files, FirmP!Files, Firm!Object, FirmP!Object,
         Firm!Cardinality, FirmP!Cardinality
<1>2. ServicesSpec => []FirmP!VersionsBacked
  BY LibraryInServices, FirmP!Versions, BoundsAgree
<1> QED BY <1>1, <1>2, PTL

-----------------------------------------------------------------------------
(* Reviewed evidence, of which the copy in Services is the only one.       *)

\* What a route let through, judged by the rows as they are: the triggers admit it, or refuse
\* it for a citation the route did not ask about; a package's parent is the current one.
Fits(c) ==
    /\ Evidence!Admitted(c) \/ Evidence!RefusedUnasked(c)
    /\ c.op = "package" =>
          /\ c.package \in Packages
          /\ ~Evidence!Linked(c.package) /\ Parent[c.package] # None =>
                Parent[c.package] \in Evidence!CurrentPackages

\* A command read a revision of the past, or it still fits.
Waits(c) == c.seen \in Nat /\ c.seen <= moved /\ (c.seen = moved => Fits(c))

EvidenceInv ==
    /\ moved \in Nat
    /\ packages \in [Packages -> Evidence!References]
    /\ asks = [w \in Workers |-> asks[w]]
    /\ \A w \in Workers : asks[w] # Evidence!Idle => Waits(asks[w])
    /\ Evidence!PackageLine

\* The rows a command is judged by.
rows == <<moved, newest, anchors, assertions, links, candidates, retired, packages>>

\* What a request holds when its route lets it through.
Held(op, seen, fields) ==
    [f \in DOMAIN Evidence!Idle |->
        IF f = "op" THEN op ELSE IF f = "seen" THEN seen
        ELSE IF f \in DOMAIN fields THEN fields[f] ELSE Evidence!Idle[f]]

LEMMA HeldFields ==
    ASSUME NEW op, NEW seen, NEW fields, NEW c, c = Held(op, seen, fields)
    PROVE  /\ c.op = op /\ c.seen = seen
           /\ c.cites = IF "cites" \in DOMAIN fields THEN fields.cites ELSE {}
           /\ c.on = IF "on" \in DOMAIN fields THEN fields.on ELSE 0
           /\ c.package = IF "package" \in DOMAIN fields THEN fields.package ELSE None
           /\ c.with = IF "with" \in DOMAIN fields THEN fields.with ELSE None
           /\ "accept" \in DOMAIN fields => c.accept = fields.accept
<1>1. DOMAIN Evidence!Idle = {"op", "seen", "cites", "on", "kind", "package", "with", "accept"}
  BY DEF Evidence!Idle
<1>2. /\ Evidence!Idle.cites = {} /\ Evidence!Idle.on = 0 /\ Evidence!Idle.package = None
      /\ Evidence!Idle.with = None
  BY DEF Evidence!Idle
<1> QED BY <1>1, <1>2 DEF Held

\* As long as the rows stay, what waits goes on waiting.
LEMMA WaitsStill == ASSUME UNCHANGED rows, NEW d, Waits(d) PROVE Waits(d)'
<1>1. Fits(d)' <=> Fits(d)
  BY DEF rows, Fits, Evidence!Linked, Evidence!CurrentPackages, Evidence!Accepted,
       Evidence!hasRetiredCitation, Evidence!Sound, Evidence!IsCurrent,
       Evidence!Admitted, Evidence!SourceGuard, Evidence!CitesAnew, Evidence!AnchorGuard,
       Evidence!AssertionGuard, Evidence!LinkGuard, Evidence!ProposalGuard,
       Evidence!RetirementGuard, Evidence!PackageGuard, Evidence!RefusedUnasked
<1> QED BY <1>1 DEF Waits, rows

\* A command that fits when it is held waits.
LEMMA HeldWaits ==
    ASSUME EvidenceInv, NEW w \in Workers, NEW c, asks' = [asks EXCEPT ![w] = c],
           UNCHANGED rows, c.seen = moved, Fits(c)
    PROVE  EvidenceInv'
<1>2. (moved \in Nat /\ packages \in [Packages -> Evidence!References] /\ Evidence!PackageLine)'
  BY DEF EvidenceInv, rows, Evidence!PackageLine, Evidence!CurrentPackages, Evidence!Linked,
         Evidence!References
<1>3. asks' = [v \in Workers |-> asks'[v]] /\ asks'[w] = c
      /\ \A v \in Workers : v # w => asks'[v] = asks[v]
  BY DEF EvidenceInv
<1>4. ASSUME NEW v \in Workers, asks'[v] # Evidence!Idle PROVE Waits(asks[v])'
  <2> PICK d : d = asks'[v]
    OBVIOUS
  <2>1. Waits(d)
    BY <1>3, <1>4 DEF EvidenceInv, Waits
  <2> QED BY <2>1, WaitsStill
<1> QED BY <1>2, <1>3, <1>4 DEF EvidenceInv

\* A checksum that does not exist.
LEMMA HeldCreateAnchor ==
    ASSUME EvidenceInv, NEW w \in Workers, Evidence!CreateAnchor(w) PROVE EvidenceInv'
<1> PICK a \in Evidence!Anchors :
       /\ anchors[a] = "absent"
       /\ asks' = [asks EXCEPT ![w] =
               Held("anchor", moved,
                    [cites |-> {a}])]
       /\ UNCHANGED rows
  BY DEF Evidence!CreateAnchor, Evidence!Hold, Evidence!evidence, rows, Held
<1> PICK c :
       c = Held("anchor", moved,
                [cites |-> {a}])
  OBVIOUS
<1> /\ c.op = "anchor" /\ c.seen = moved
    /\ c.cites = {a}
  BY HeldFields
<1> Fits(c)
  BY DEF Fits, Evidence!Admitted, Evidence!SourceGuard, Evidence!CitesAnew, Evidence!AnchorGuard,
       Evidence!AssertionGuard, Evidence!LinkGuard, Evidence!ProposalGuard,
       Evidence!RetirementGuard, Evidence!PackageGuard, Evidence!RefusedUnasked,
       Evidence!Sound, Evidence!Accepted, Evidence!hasRetiredCitation, Evidence!IsCurrent,
       Evidence!Linked, Evidence!CurrentPackages
<1> QED BY HeldWaits

\* An anchor that is pending.
LEMMA HeldReviewAnchor ==
    ASSUME EvidenceInv, NEW w \in Workers, Evidence!ReviewAnchor(w) PROVE EvidenceInv'
<1> PICK a \in Evidence!Anchors, answer \in BOOLEAN :
       /\ anchors[a] = "pending"
       /\ asks' = [asks EXCEPT ![w] =
               Held("reviewAnchor", moved,
                    [cites |-> {a}, accept |-> answer])]
       /\ UNCHANGED rows
  BY DEF Evidence!ReviewAnchor, Evidence!Hold, Evidence!evidence, rows, Held
<1> PICK c :
       c = Held("reviewAnchor", moved,
                [cites |-> {a}, accept |-> answer])
  OBVIOUS
<1> /\ c.op = "reviewAnchor" /\ c.seen = moved
    /\ c.cites = {a}
  BY HeldFields
<1> Fits(c)
  BY DEF Fits, Evidence!Admitted, Evidence!SourceGuard, Evidence!CitesAnew, Evidence!AnchorGuard,
       Evidence!AssertionGuard, Evidence!LinkGuard, Evidence!ProposalGuard,
       Evidence!RetirementGuard, Evidence!PackageGuard, Evidence!RefusedUnasked,
       Evidence!Sound, Evidence!Accepted, Evidence!hasRetiredCitation, Evidence!IsCurrent,
       Evidence!Linked, Evidence!CurrentPackages
<1> QED BY HeldWaits

\* Sound citations.
LEMMA HeldCreateAssertion ==
    ASSUME EvidenceInv, NEW w \in Workers, Evidence!CreateAssertion(w) PROVE EvidenceInv'
<1> PICK S \in SUBSET Evidence!Anchors :
       /\ Evidence!Sound(S)
       /\ asks' = [asks EXCEPT ![w] =
               Held("assertion", moved,
                    [cites |-> S])]
       /\ UNCHANGED rows
  BY DEF Evidence!CreateAssertion, Evidence!Hold, Evidence!evidence, rows, Held
<1> PICK c :
       c = Held("assertion", moved,
                [cites |-> S])
  OBVIOUS
<1> /\ c.op = "assertion" /\ c.seen = moved
    /\ c.cites = S
  BY HeldFields
<1> Fits(c)
  BY DEF Fits, Evidence!Admitted, Evidence!SourceGuard, Evidence!CitesAnew, Evidence!AnchorGuard,
       Evidence!AssertionGuard, Evidence!LinkGuard, Evidence!ProposalGuard,
       Evidence!RetirementGuard, Evidence!PackageGuard, Evidence!RefusedUnasked,
       Evidence!Sound, Evidence!Accepted, Evidence!hasRetiredCitation, Evidence!IsCurrent,
       Evidence!Linked, Evidence!CurrentPackages
<1> QED BY HeldWaits

\* An assertion in need of review, sound if it is accepted.
LEMMA HeldReviewAssertion ==
    ASSUME EvidenceInv, NEW w \in Workers, Evidence!ReviewAssertion(w) PROVE EvidenceInv'
<1> PICK n \in DOMAIN assertions, answer \in BOOLEAN :
       /\ assertions[n].status = "needs_review"
       /\ answer => Evidence!Sound(assertions[n].sources)
       /\ asks' = [asks EXCEPT ![w] =
               Held("reviewAssertion", moved,
                    [on |-> n, accept |-> answer])]
       /\ UNCHANGED rows
  BY DEF Evidence!ReviewAssertion, Evidence!Hold, Evidence!evidence, rows, Held
<1> PICK c :
       c = Held("reviewAssertion", moved,
                [on |-> n, accept |-> answer])
  OBVIOUS
<1> /\ c.op = "reviewAssertion" /\ c.seen = moved
    /\ c.on = n /\ c.accept = answer
  BY HeldFields
<1> Fits(c)
  BY DEF Fits, Evidence!Admitted, Evidence!SourceGuard, Evidence!CitesAnew, Evidence!AnchorGuard,
       Evidence!AssertionGuard, Evidence!LinkGuard, Evidence!ProposalGuard,
       Evidence!RetirementGuard, Evidence!PackageGuard, Evidence!RefusedUnasked,
       Evidence!Sound, Evidence!Accepted, Evidence!hasRetiredCitation, Evidence!IsCurrent,
       Evidence!Linked, Evidence!CurrentPackages
<1> QED BY HeldWaits

\* An accepted assertion.
LEMMA HeldSupersedeAssertion ==
    ASSUME EvidenceInv, NEW w \in Workers, Evidence!SupersedeAssertion(w) PROVE EvidenceInv'
<1> PICK n \in DOMAIN assertions :
       /\ assertions[n].status = "accepted"
       /\ asks' = [asks EXCEPT ![w] =
               Held("supersede", moved,
                    [on |-> n])]
       /\ UNCHANGED rows
  BY DEF Evidence!SupersedeAssertion, Evidence!Hold, Evidence!evidence, rows, Held
<1> PICK c :
       c = Held("supersede", moved,
                [on |-> n])
  OBVIOUS
<1> /\ c.op = "supersede" /\ c.seen = moved
    /\ c.on = n
  BY HeldFields
<1> Fits(c)
  BY DEF Fits, Evidence!Admitted, Evidence!SourceGuard, Evidence!CitesAnew, Evidence!AnchorGuard,
       Evidence!AssertionGuard, Evidence!LinkGuard, Evidence!ProposalGuard,
       Evidence!RetirementGuard, Evidence!PackageGuard, Evidence!RefusedUnasked,
       Evidence!Sound, Evidence!Accepted, Evidence!hasRetiredCitation, Evidence!IsCurrent,
       Evidence!Linked, Evidence!CurrentPackages
<1> QED BY HeldWaits

\* An accepted anchor, retired or not, for an accepted assertion.
LEMMA HeldLinkEvidence ==
    ASSUME EvidenceInv, NEW w \in Workers, Evidence!LinkEvidence(w) PROVE EvidenceInv'
<1> PICK a \in Evidence!Anchors, n \in {0} \cup DOMAIN assertions,
           p \in Evidence!CurrentPackages \cup {None} :
       /\ anchors[a] = "accepted"
       /\ n # 0 => assertions[n].status = "accepted"
       /\ asks' = [asks EXCEPT ![w] =
               Held("link", moved,
                    [cites |-> {a}, on |-> n, package |-> p])]
       /\ UNCHANGED rows
  BY DEF Evidence!LinkEvidence, Evidence!Hold, Evidence!evidence, rows, Held
<1> PICK c :
       c = Held("link", moved,
                [cites |-> {a}, on |-> n, package |-> p])
  OBVIOUS
<1> /\ c.op = "link" /\ c.seen = moved
    /\ c.cites = {a} /\ c.on = n
  BY HeldFields
<1> Fits(c)
  BY DEF Fits, Evidence!Admitted, Evidence!SourceGuard, Evidence!CitesAnew, Evidence!AnchorGuard,
       Evidence!AssertionGuard, Evidence!LinkGuard, Evidence!ProposalGuard,
       Evidence!RetirementGuard, Evidence!PackageGuard, Evidence!RefusedUnasked,
       Evidence!Sound, Evidence!Accepted, Evidence!hasRetiredCitation, Evidence!IsCurrent,
       Evidence!Linked, Evidence!CurrentPackages
<1> QED BY HeldWaits

\* Anchors, retired or not.
LEMMA HeldCreateProposal ==
    ASSUME EvidenceInv, NEW w \in Workers, Evidence!CreateProposal(w) PROVE EvidenceInv'
<1> PICK S \in SUBSET Evidence!Anchors, k \in {"assertion", "link", "graph"},
           p \in Packages \cup {None} :
       /\ S # {}
       /\ asks' = [asks EXCEPT ![w] =
               Held("propose", moved,
                    [cites |-> S, kind |-> k, package |-> p])]
       /\ UNCHANGED rows
  BY DEF Evidence!CreateProposal, Evidence!Hold, Evidence!evidence, rows, Held
<1> PICK c :
       c = Held("propose", moved,
                [cites |-> S, kind |-> k, package |-> p])
  OBVIOUS
<1> /\ c.op = "propose" /\ c.seen = moved
    /\ c.cites = S
  BY HeldFields
<1> Fits(c)
  BY DEF Fits, Evidence!Admitted, Evidence!SourceGuard, Evidence!CitesAnew, Evidence!AnchorGuard,
       Evidence!AssertionGuard, Evidence!LinkGuard, Evidence!ProposalGuard,
       Evidence!RetirementGuard, Evidence!PackageGuard, Evidence!RefusedUnasked,
       Evidence!Sound, Evidence!Accepted, Evidence!hasRetiredCitation, Evidence!IsCurrent,
       Evidence!Linked, Evidence!CurrentPackages
<1> QED BY HeldWaits

\* A pending proposal, and anchors, retired or not.
LEMMA HeldUpdateSources ==
    ASSUME EvidenceInv, NEW w \in Workers, Evidence!UpdateSources(w) PROVE EvidenceInv'
<1> PICK n \in DOMAIN candidates, S \in SUBSET Evidence!Anchors :
       /\ candidates[n].state = "pending"
       /\ asks' = [asks EXCEPT ![w] =
               Held("sources", moved,
                    [on |-> n, cites |-> S])]
       /\ UNCHANGED rows
  BY DEF Evidence!UpdateSources, Evidence!Hold, Evidence!evidence, rows, Held
<1> PICK c :
       c = Held("sources", moved,
                [on |-> n, cites |-> S])
  OBVIOUS
<1> /\ c.op = "sources" /\ c.seen = moved
    /\ c.cites = S /\ c.on = n
  BY HeldFields
<1> Fits(c)
  BY DEF Fits, Evidence!Admitted, Evidence!SourceGuard, Evidence!CitesAnew, Evidence!AnchorGuard,
       Evidence!AssertionGuard, Evidence!LinkGuard, Evidence!ProposalGuard,
       Evidence!RetirementGuard, Evidence!PackageGuard, Evidence!RefusedUnasked,
       Evidence!Sound, Evidence!Accepted, Evidence!hasRetiredCitation, Evidence!IsCurrent,
       Evidence!Linked, Evidence!CurrentPackages
<1> QED BY HeldWaits

\* A pending proposal with sound citations.
LEMMA HeldReviewProposal ==
    ASSUME EvidenceInv, NEW w \in Workers, Evidence!ReviewProposal(w) PROVE EvidenceInv'
<1> PICK n \in DOMAIN candidates, answer \in BOOLEAN :
       /\ candidates[n].state = "pending" /\ Evidence!Sound(candidates[n].cites)
       /\ asks' = [asks EXCEPT ![w] =
               Held("reviewProposal", moved,
                    [on |-> n, cites |-> candidates[n].cites, kind |-> candidates[n].kind,
                     package |-> candidates[n].package, accept |-> answer])]
       /\ UNCHANGED rows
  BY DEF Evidence!ReviewProposal, Evidence!Hold, Evidence!evidence, rows, Held, Evidence!Reviewable
<1> PICK c :
       c = Held("reviewProposal", moved,
                [on |-> n, cites |-> candidates[n].cites, kind |-> candidates[n].kind,
                 package |-> candidates[n].package, accept |-> answer])
  OBVIOUS
<1> /\ c.op = "reviewProposal" /\ c.seen = moved
    /\ c.on = n /\ c.accept = answer /\ c.cites = candidates[n].cites
  BY HeldFields
<1> Fits(c)
  BY DEF Fits, Evidence!Admitted, Evidence!SourceGuard, Evidence!CitesAnew, Evidence!AnchorGuard,
       Evidence!AssertionGuard, Evidence!LinkGuard, Evidence!ProposalGuard,
       Evidence!RetirementGuard, Evidence!PackageGuard, Evidence!RefusedUnasked,
       Evidence!Sound, Evidence!Accepted, Evidence!hasRetiredCitation, Evidence!IsCurrent,
       Evidence!Linked, Evidence!CurrentPackages
<1> QED BY HeldWaits

\* An accepted citation of an older version, and a current one in its place.
LEMMA HeldRetireAnchor ==
    ASSUME EvidenceInv, NEW w \in Workers, Evidence!RetireAnchor(w) PROVE EvidenceInv'
<1> PICK a \in Evidence!Anchors, b \in Evidence!Anchors \cup {None} :
       /\ anchors[a] = "accepted" /\ ~Evidence!IsCurrent(a)
       /\ b # None => /\ b # a /\ anchors[b] = "accepted" /\ Evidence!IsCurrent(b)
                      /\ b \notin DOMAIN retired
       /\ asks' = [asks EXCEPT ![w] =
               Held("retire", moved,
                    [cites |-> {a}, with |-> b])]
       /\ UNCHANGED rows
  BY DEF Evidence!RetireAnchor, Evidence!Hold, Evidence!evidence, rows, Held
<1> PICK c :
       c = Held("retire", moved,
                [cites |-> {a}, with |-> b])
  OBVIOUS
<1> /\ c.op = "retire" /\ c.seen = moved
    /\ c.cites = {a} /\ c.with = b
  BY HeldFields
<1> Fits(c)
  BY DEF Fits, Evidence!Admitted, Evidence!SourceGuard, Evidence!CitesAnew, Evidence!AnchorGuard,
       Evidence!AssertionGuard, Evidence!LinkGuard, Evidence!ProposalGuard,
       Evidence!RetirementGuard, Evidence!PackageGuard, Evidence!RefusedUnasked,
       Evidence!Sound, Evidence!Accepted, Evidence!hasRetiredCitation, Evidence!IsCurrent,
       Evidence!Linked, Evidence!CurrentPackages
<1> QED BY HeldWaits

\* A governed parent that is current, and a graph proposal that is sound.
LEMMA HeldLinkPackage ==
    ASSUME EvidenceInv, NEW w \in Workers, Evidence!LinkPackage(w) PROVE EvidenceInv'
<1> PICK p \in Packages, n \in {0} \cup DOMAIN candidates :
       /\ n # 0 => candidates[n].state = "pending" /\ Evidence!Sound(candidates[n].cites)
       /\ ~Evidence!Linked(p) /\ Parent[p] # None => Parent[p] \in Evidence!CurrentPackages
       /\ asks' = [asks EXCEPT ![w] =
               Held("package", moved,
                    [package |-> p, on |-> n,
                     cites |-> IF n = 0 THEN {} ELSE candidates[n].cites])]
       /\ UNCHANGED rows
  BY DEF Evidence!LinkPackage, Evidence!Hold, Evidence!evidence, rows, Held, Evidence!Applicable
<1> PICK c :
       c = Held("package", moved,
                [package |-> p, on |-> n,
                 cites |-> IF n = 0 THEN {} ELSE candidates[n].cites])
  OBVIOUS
<1> /\ c.op = "package" /\ c.seen = moved
    /\ c.package = p /\ c.on = n
    /\ n # 0 => c.cites = candidates[n].cites
  BY HeldFields
<1>1. Evidence!PackageGuard(c)
  BY DEF Evidence!PackageGuard, Evidence!Linked, Evidence!CurrentPackages
<1>2. Evidence!ProposalGuard(c)
  BY DEF Evidence!ProposalGuard, Evidence!Sound
<1>3. Evidence!SourceGuard(c) /\ Evidence!AnchorGuard(c) /\ Evidence!AssertionGuard(c)
      /\ Evidence!LinkGuard(c) /\ Evidence!RetirementGuard(c)
  BY DEF Evidence!SourceGuard, Evidence!CitesAnew, Evidence!AnchorGuard, Evidence!AssertionGuard,
         Evidence!LinkGuard, Evidence!RetirementGuard
<1>4. Fits(c)
  BY <1>1, <1>2, <1>3 DEF Fits, Evidence!Admitted
<1> QED BY <1>4, HeldWaits

\* The Matter has moved on: what waits was read before.
LEMMA MovedOn ==
    ASSUME EvidenceInv, moved' = moved + 1, packages' \in [Packages -> Evidence!References],
           asks' = [v \in Workers |-> asks'[v]], Evidence!PackageLine',
           \A v \in Workers : asks'[v] # Evidence!Idle => asks'[v] = asks[v]
    PROVE  EvidenceInv'
<1>1. ASSUME NEW v \in Workers, asks'[v] # Evidence!Idle PROVE Waits(asks[v])'
  <2>1. asks'[v].seen \in Nat /\ asks'[v].seen <= moved
    BY <1>1 DEF EvidenceInv, Waits
  <2> QED BY <2>1 DEF EvidenceInv, Waits
<1> QED BY <1>1 DEF EvidenceInv

\* A package that fits takes the place of its parent.
LEMMA PackagesFollow ==
    ASSUME EvidenceInv, NEW c, Fits(c), c.op = "package", Evidence!PackageRows(c)
    PROVE  packages' \in [Packages -> Evidence!References] /\ Evidence!PackageLine'
<1> PICK q : q = c.package
  OBVIOUS
<1>1. q \in Packages
  BY DEF Fits
<1>2. Parent \in [Packages -> Packages \cup {None}]
  BY ServicesConstants DEF ServicesConstants, Evidence!EvidenceConstants
<1>3. CASE Evidence!Linked(q)
  <2>1. packages' = packages
    BY <1>3 DEF Evidence!PackageRows
  <2> QED BY <2>1 DEF EvidenceInv, Evidence!PackageLine, Evidence!CurrentPackages, Evidence!Linked
<1>4. CASE ~Evidence!Linked(q)
  <2>1. packages' = [p \in Packages |->
                        IF p = q THEN [state |-> "current", by |-> None]
                        ELSE IF p \in Evidence!CurrentPackages
                        THEN [state |-> "stale", by |-> q] ELSE packages[p]]
    BY <1>4 DEF Evidence!PackageRows
  <2>2. packages' \in [Packages -> Evidence!References]
    BY <1>1, <2>1 DEF EvidenceInv, Evidence!References
  <2>3. (\A p, r \in Evidence!CurrentPackages : p = r)'
    BY <2>1 DEF Evidence!CurrentPackages
  <2>4. ASSUME NEW p \in Packages, Evidence!Linked(p)', Parent[p] # None
        PROVE  packages'[Parent[p]] = [state |-> "stale", by |-> p]
    <3>1. Parent[p] \in Packages
      BY <1>2, <2>4
    <3>2. CASE p = q
      <4>1. Parent[q] \in Evidence!CurrentPackages /\ Parent[q] # q
        BY <1>4, <2>4, <3>2 DEF Fits, Evidence!CurrentPackages, Evidence!Linked
      <4> QED BY <2>1, <3>1, <3>2, <4>1
    <3>3. CASE p # q
      <4>1. Evidence!Linked(p)
        BY <2>1, <2>4, <3>3 DEF Evidence!Linked, Evidence!CurrentPackages
      <4>2. packages[Parent[p]] = [state |-> "stale", by |-> p]
        BY <2>4, <4>1 DEF EvidenceInv, Evidence!PackageLine
      <4>3. Parent[p] # q /\ Parent[p] \notin Evidence!CurrentPackages
        BY <1>4, <4>2 DEF Evidence!Linked, Evidence!CurrentPackages
      <4> QED BY <2>1, <3>1, <4>2, <4>3
    <3> QED BY <3>2, <3>3
  <2> QED BY <2>2, <2>3, <2>4 DEF Evidence!PackageLine
<1> QED BY <1>3, <1>4

\* A batch lands only where nothing moved since its route looked.
LEMMA Landed == ASSUME EvidenceInv, NEW w \in Workers, Evidence!Commit(w) PROVE EvidenceInv'
<1> PICK c : c = asks[w]
  OBVIOUS
<1>1. /\ c # Evidence!Idle /\ c.seen = moved /\ Evidence!Rows(c)
      /\ moved' = moved + 1 /\ asks' = [asks EXCEPT ![w] = Evidence!Idle]
  BY DEF Evidence!Commit, Evidence!Lands
<1>2. Fits(c)
  BY <1>1 DEF EvidenceInv, Waits
<1>3. packages' \in [Packages -> Evidence!References] /\ Evidence!PackageLine'
  <2>1. CASE c.op = "package"
    BY <1>1, <1>2, <2>1, PackagesFollow
       DEF Evidence!Rows
  <2>2. CASE c.op # "package"
    <3>1. packages' = packages
      BY <1>1, <2>2 DEF Evidence!Rows, Evidence!AnchorRows, Evidence!AssertionRows,
                Evidence!LinkRows, Evidence!ProposalRows, Evidence!ReviewRows,
                Evidence!RetirementRows
    <3> QED BY <3>1 DEF EvidenceInv, Evidence!PackageLine, Evidence!CurrentPackages,
                    Evidence!Linked
  <2> QED BY <2>1, <2>2
<1>4. /\ asks' = [v \in Workers |-> asks'[v]]
      /\ \A v \in Workers : asks'[v] # Evidence!Idle => asks'[v] = asks[v]
  BY <1>1 DEF EvidenceInv
<1> QED BY <1>1, <1>3, <1>4, MovedOn

\* A request that is refused leaves the rows alone.
LEMMA Refused == ASSUME EvidenceInv, NEW w \in Workers, Evidence!Refuse(w) PROVE EvidenceInv'
<1>1. UNCHANGED rows /\ asks' = [asks EXCEPT ![w] = Evidence!Idle]
  BY DEF Evidence!Refuse, Evidence!evidence, rows
<1>2. (moved \in Nat /\ packages \in [Packages -> Evidence!References] /\ Evidence!PackageLine)'
  BY <1>1 DEF EvidenceInv, rows, Evidence!PackageLine, Evidence!CurrentPackages, Evidence!Linked,
              Evidence!References
<1>3. asks' = [v \in Workers |-> asks'[v]]
      /\ \A v \in Workers : asks'[v] # Evidence!Idle => asks'[v] = asks[v]
  BY <1>1 DEF EvidenceInv
<1>4. ASSUME NEW v \in Workers, asks'[v] # Evidence!Idle PROVE Waits(asks[v])'
  <2> PICK d : d = asks'[v]
    OBVIOUS
  <2>1. Waits(d)
    BY <1>3, <1>4 DEF EvidenceInv
  <2> QED BY <1>1, <2>1, WaitsStill
<1> QED BY <1>2, <1>3, <1>4 DEF EvidenceInv

\* So does everything that leaves the rows and the requests alone.
LEMMA EvidenceRests == ASSUME EvidenceInv, UNCHANGED evidenceVars PROVE EvidenceInv'
<1>1. UNCHANGED rows /\ asks' = asks
  BY DEF evidenceVars, rows
<1>2. (moved \in Nat /\ packages \in [Packages -> Evidence!References] /\ Evidence!PackageLine)'
  BY <1>1 DEF EvidenceInv, rows, Evidence!PackageLine, Evidence!CurrentPackages, Evidence!Linked,
              Evidence!References
<1>3. ASSUME NEW v \in Workers, asks'[v] # Evidence!Idle PROVE Waits(asks[v])'
  <2> PICK d : d = asks'[v]
    OBVIOUS
  <2>1. Waits(d)
    BY <1>1, <1>3 DEF EvidenceInv
  <2> QED BY <1>1, <2>1, WaitsStill
<1> QED BY <1>1, <1>2, <1>3 DEF EvidenceInv

\* A new version of a document moves the Matter on.
LEMMA Superseded == ASSUME EvidenceInv, Evidence!NewVersion PROVE EvidenceInv'
<1>1. moved' = moved + 1 /\ packages' = packages /\ asks' = asks
  BY DEF Evidence!NewVersion
<1>2. packages' \in [Packages -> Evidence!References] /\ Evidence!PackageLine'
  BY <1>1 DEF EvidenceInv, Evidence!PackageLine, Evidence!CurrentPackages, Evidence!Linked
<1> QED BY <1>1, <1>2, MovedOn DEF EvidenceInv

LEMMA EvidenceKept == ServicesSpec => []EvidenceInv
<1>1. ServicesInit => EvidenceInv
  BY DEF ServicesInit, Evidence!EvidenceInit, EvidenceInv, Evidence!References,
         Evidence!PackageLine, Evidence!CurrentPackages, Evidence!Linked
<1>2. EvidenceInv /\ [ServicesNext]_servicesVars => EvidenceInv'
  <2> SUFFICES ASSUME EvidenceInv, [ServicesNext]_servicesVars PROVE EvidenceInv'
    OBVIOUS
  <2>1. CASE InEvidence
    <3>1. CASE Evidence!NewVersion
      BY <3>1, Superseded
    <3>2. ASSUME NEW w \in Workers, Evidence!Review(w) PROVE EvidenceInv'
      BY <3>2, HeldCreateAnchor, HeldReviewAnchor, HeldCreateAssertion, HeldReviewAssertion,
         HeldSupersedeAssertion, HeldLinkEvidence, HeldCreateProposal, HeldUpdateSources,
         HeldReviewProposal, HeldRetireAnchor, HeldLinkPackage, Landed, Refused
      DEF Evidence!Review
    <3> QED BY <2>1, <3>1, <3>2 DEF InEvidence, Evidence!EvidenceNext
  <2>2. CASE UNCHANGED evidenceVars
    BY <2>2, EvidenceRests
  <2> QED
    BY <2>1, <2>2 DEF ServicesNext, servicesVars, InProposals, InPlay, InAccount, InLibrary,
                      InContacts
<1> QED BY <1>1, <1>2, PTL DEF ServicesSpec

\* Whatever a route let through, the triggers admit while the Matter has not moved, but for the
\* commands whose route does not ask for retired anchors (routes and triggers of the evidence).
THEOREM GuardsMeet == ServicesSpec => []GuardsAgree
<1>1. EvidenceInv => GuardsAgree
  BY DEF EvidenceInv, Waits, Fits, GuardsAgree, Evidence!GuardsAgree
<1> QED BY <1>1, EvidenceKept, PTL

\* One package is current, and a governed package took the place of its parent.
THEOREM PackagesReplace == ServicesSpec => []PackageLine
<1>1. EvidenceInv => PackageLine
  BY DEF EvidenceInv, PackageLine
<1> QED BY <1>1, EvidenceKept, PTL

-----------------------------------------------------------------------------
(* The firm's contacts: who asked what, and what was saved.                *)

\* The commands that a tab can ask.
WellFormed(c) ==
    /\ c \in Contacts!Commands
    /\ c.action \in {"create", "edit"} => DOMAIN c.profiles = {1}
    /\ c.action \in {"create", "import"} => c.revision = 0
    /\ c.action = "link" => c.id \in Contacts!Ids
    /\ c.action = "import" =>
          /\ DOMAIN c.profiles \subseteq 1..MaxImport
          /\ \A n \in DOMAIN c.profiles : c.profiles[n].company = None
          /\ \A m, n \in DOMAIN c.profiles :
                m # n => ~Contacts!Matches(c.profiles[m], c.profiles[n])

Handlers ==
    [pc : {"free", "operation", "prior", "batch", "recheck", "answer"},
     key : OpKeys \cup {None}, command : Contacts!Commands \cup {None},
     status : {"none", "absent", "saved", "changed", "denied", "caseAccess", "failed"}]
Pendings ==
    [pending : Contacts!Commands \cup {None}, key : OpKeys \cup {None},
     waits : Workers \cup {None}]

ContactRows ==
    /\ contacts = [i \in Contacts!Ids |-> contacts[i]]
    /\ \A i \in Contacts!Ids :
          /\ contacts[i] = [status |-> contacts[i].status, revision |-> contacts[i].revision,
                            profile |-> contacts[i].profile]
          /\ contacts[i].revision \in Nat
    /\ receipts \in [OpKeys -> Contacts!Commands \cup {None}]
    /\ post \in [Workers -> Handlers]
    /\ desk \in [Tabs -> Pendings]
    /\ posted \in [OpKeys -> Nat]

\* Every key was drawn for one command, and a tab waits for a handler of its own.
AskedBy(asked) ==
    /\ \A h \in Workers : post[h].pc # "free" =>
          /\ post[h].key \in OpKeys /\ posted[post[h].key] > 0
          /\ post[h].command = asked[post[h].key]
    /\ \A d \in Tabs : desk[d].pending # None =>
          /\ desk[d].key \in OpKeys /\ posted[desk[d].key] > 0
          /\ desk[d].pending = asked[desk[d].key]
    /\ \A k \in OpKeys : receipts[k] # None => posted[k] > 0 /\ receipts[k] = asked[k]
    /\ \A k \in OpKeys : posted[k] > 0 => WellFormed(asked[k])
Waiting ==
    /\ \A d \in Tabs : desk[d].waits # None =>
          /\ desk[d].pending # None
          /\ post[desk[d].waits].pc # "free" /\ post[desk[d].waits].key = desk[d].key
    /\ \A d, e \in Tabs : desk[d].waits # None /\ desk[d].waits = desk[e].waits => d = e

\* A handler that was told the truth, or tells it.
ToldSaved ==
    /\ \A h \in Workers : post[h].pc = "answer" /\ post[h].status = "saved" =>
          receipts[post[h].key] # None
    /\ \A c \in confirmed : c[1] \in OpKeys /\ c[2] # None /\ receipts[c[1]] = c[2]

\* The one handler of a command that was sent once has not saved it before its batch.
Sent(h) == \/ post[h].pc \in {"prior", "batch", "recheck"}
           \/ post[h].pc = "answer" /\ post[h].status = "changed"
SentOnce ==
    \A h \in Workers : Sent(h) /\ posted[post[h].key] = 1 =>
        /\ \A g \in Workers : Sent(g) /\ post[g].key = post[h].key => g = h
        /\ post[h].pc # "recheck" => receipts[post[h].key] = None

\* What is undone, or about to be, was imported.
Undoes ==
    /\ \A h \in Workers : post[h].pc = "batch" /\ post[h].command.action = "undo" =>
          post[h].command.batch \in Contacts!Batches
    /\ \A k \in OpKeys : receipts[k] # None /\ receipts[k].action = "undo" =>
          receipts[k].batch \in Contacts!Batches

\* The receipts that name a contact are its revisions.
Changers(i) == {k \in Contacts!Done : i \in Contacts!Changed(k, receipts[k])}
Counted == \A i \in Contacts!Ids : contacts[i].revision = Cardinality(Changers(i))

ContactsKept == ContactRows /\ Waiting /\ ToldSaved /\ SentOnce /\ Undoes /\ Counted

\* The constants, as the provers use them.
LEMMA ContactFacts ==
    /\ IsFiniteSet(OpKeys) /\ None \notin Contacts!Commands
    /\ None \notin Workers /\ None \notin Contacts!Ids /\ MaxImport \in Nat
BY ServicesConstants
DEF ServicesConstants, Contacts!ContactsConstants, Contacts!IsFiniteSet, IsFiniteSet

\* What a tab asks is well formed.
LEMMA DraftsFormed == ASSUME ContactRows, NEW c \in Contacts!Drafts PROVE WellFormed(c)
<1> Contacts!Seen \subseteq Contacts!Ids \X Nat
  <2>1. ASSUME NEW v \in Contacts!Seen PROVE v \in Contacts!Ids \X Nat
    <3>1. PICK i \in Contacts!Present : v \in {i} \X (1..contacts[i].revision)
      BY <2>1 DEF Contacts!Seen
    <3>2. i \in Contacts!Ids /\ contacts[i].revision \in Nat
      BY DEF Contacts!Present, ContactRows
    <3>3. v[2] \in Nat /\ v = <<i, v[2]>>
      BY <3>1, <3>2
    <3> QED BY <3>2, <3>3
  <2> QED BY <2>1
<1> Contacts!Writable \subseteq Contacts!Profiles
  BY DEF Contacts!Writable
<1>1. ASSUME NEW p \in Contacts!Writable, NEW r \in Contacts!Reviews(p)
      PROVE  /\ WellFormed(Contacts!Command("create", None, 0, <<p>>, r, None))
             /\ \A v \in Contacts!Seen :
                   WellFormed(Contacts!Command("edit", v[1], v[2], <<p>>, r, None))
  <2>1. r \in SUBSET Contacts!Ids
    BY <1>1 DEF Contacts!Reviews, Contacts!Present
  <2>2. <<p>> \in Seq(Contacts!Profiles) /\ DOMAIN <<p>> = {1}
    OBVIOUS
  <2> QED BY <2>1, <2>2 DEF WellFormed, Contacts!Command, Contacts!Commands, Contacts!Actions
<1>2. ASSUME NEW s \in Contacts!Imports
      PROVE  WellFormed(Contacts!Command("import", None, 0, s, {}, None))
  <2>1. PICK n \in 1..MaxImport : s \in [1..n -> {p \in Contacts!Profiles : p.company = None}]
    BY <1>2 DEF Contacts!Imports
  <2>2. s \in Seq(Contacts!Profiles)
    <3>1. s \in [1..n -> Contacts!Profiles] /\ n \in Nat
      BY <2>1
    <3> QED BY <3>1
  <2>3. DOMAIN s = 1..n /\ 1..n \subseteq 1..MaxImport
    BY <2>1, ContactFacts
  <2>4. \A m \in DOMAIN s : s[m].company = None
    BY <2>1
  <2>5. \A m, o \in DOMAIN s : m # o => ~Contacts!Matches(s[m], s[o])
    BY <1>2 DEF Contacts!Imports
  <2> QED BY <2>2, <2>3, <2>4, <2>5
          DEF WellFormed, Contacts!Command, Contacts!Commands, Contacts!Actions
<1>3. ASSUME NEW b \in Contacts!Batches
      PROVE  WellFormed(Contacts!Command("undo", None, 0, <<>>, {}, b))
  BY <1>3 DEF WellFormed, Contacts!Command, Contacts!Commands, Contacts!Actions, Contacts!Batches
<1>4. ASSUME NEW a \in {"archive", "restore", "link", "unlink"}, NEW v \in Contacts!Seen
      PROVE  WellFormed(Contacts!Command(a, v[1], v[2], <<>>, {}, None))
  BY <1>4 DEF WellFormed, Contacts!Command, Contacts!Commands, Contacts!Actions
<1> DEFINE Of(p) ==
        {Contacts!Command("create", None, 0, <<p>>, r, None) : r \in Contacts!Reviews(p)}
          \cup {Contacts!Command("edit", v[1], v[2], <<p>>, r, None) :
                   v \in Contacts!Seen, r \in Contacts!Reviews(p)}
<1> DEFINE Saves == UNION {Of(p) : p \in Contacts!Writable}
           Entered == {Contacts!Command("import", None, 0, s, {}, None) : s \in Contacts!Imports}
           Undone == {Contacts!Command("undo", None, 0, <<>>, {}, b) : b \in Contacts!Batches}
           Others == {Contacts!Command(a, v[1], v[2], <<>>, {}, None) :
                        a \in {"archive", "restore", "link", "unlink"}, v \in Contacts!Seen}
<1> HIDE DEF Of, Saves, Entered, Undone, Others
<1>5. Contacts!Drafts = Saves \cup Entered \cup Undone \cup Others
  BY DEF Contacts!Drafts, Of, Saves, Entered, Undone, Others
<1>6. CASE c \in Saves
  <2>1. PICK p \in Contacts!Writable : c \in Of(p)
    BY <1>6 DEF Saves
  <2>2. CASE \E r \in Contacts!Reviews(p) :
                c = Contacts!Command("create", None, 0, <<p>>, r, None)
    BY <2>2, <1>1
  <2>3. CASE \E v \in Contacts!Seen, r \in Contacts!Reviews(p) :
                c = Contacts!Command("edit", v[1], v[2], <<p>>, r, None)
    BY <2>3, <1>1
  <2> QED BY <2>1, <2>2, <2>3 DEF Of
<1>7. CASE c \in Entered
  BY <1>2, <1>7 DEF Entered
<1>8. CASE c \in Undone
  BY <1>3, <1>8 DEF Undone
<1>9. CASE c \in Others
  <2>1. PICK a \in {"archive", "restore", "link", "unlink"}, v \in Contacts!Seen :
           c = Contacts!Command(a, v[1], v[2], <<>>, {}, None)
    BY <1>9 DEF Others
  <2> QED BY <1>4, <2>1
<1> QED BY <1>5, <1>6, <1>7, <1>8, <1>9

\* As long as the receipts stay, so does what they changed.
LEMMA ReceiptsStay ==
    ASSUME UNCHANGED <<contacts, receipts>>
    PROVE  /\ Contacts!Batches' = Contacts!Batches
           /\ \A i : Changers(i)' = Changers(i)
           /\ Counted <=> Counted'
<1>1. ASSUME NEW k, NEW c PROVE Contacts!Changed(k, c)' = Contacts!Changed(k, c)
  BY DEF Contacts!Changed
<1>2. Contacts!Done' = Contacts!Done /\ Contacts!Batches' = Contacts!Batches
  BY DEF Contacts!Done, Contacts!Batches
<1>3. ASSUME NEW i PROVE Changers(i)' = Changers(i)
  <2>1. \A k \in Contacts!Done :
           Contacts!Changed(k, receipts[k])' = Contacts!Changed(k, receipts[k])
    BY DEF Contacts!Changed
  <2> QED BY <1>2, <2>1 DEF Changers
<1> QED BY <1>2, <1>3 DEF Counted

\* A handler goes on: it stays with its key and its command.
Turns(h, pc, status) ==
    \E p \in Handlers : /\ post' = [post EXCEPT ![h] = p]
                        /\ p.pc = pc /\ p.status = status
                        /\ p.key = post[h].key /\ p.command = post[h].command

LEMMA ToTurns ==
    ASSUME ContactRows, NEW h \in Workers,
           NEW pc \in {"prior", "batch", "recheck"}, Contacts!To(h, pc)
    PROVE  Turns(h, pc, post[h].status)
<1> PICK p : p = [post[h] EXCEPT !.pc = pc]
  OBVIOUS
<1>1. post[h] \in Handlers
  BY DEF ContactRows
<1>2. p \in Handlers /\ p.pc = pc /\ p.status = post[h].status
      /\ p.key = post[h].key /\ p.command = post[h].command
  BY <1>1 DEF Handlers
<1>3. post' = [post EXCEPT ![h] = p]
  BY DEF Contacts!To
<1> QED BY <1>2, <1>3 DEF Turns

LEMMA ProblemTurns ==
    ASSUME ContactRows, NEW h \in Workers,
           NEW status \in {"absent", "saved", "changed", "denied", "caseAccess", "failed"},
           Contacts!Problem(h, status)
    PROVE  Turns(h, "answer", status)
<1> PICK p : p = [[post[h] EXCEPT !.pc = "answer"] EXCEPT !.status = status]
  OBVIOUS
<1>1. post[h] \in Handlers
  BY DEF ContactRows
<1>2. p \in Handlers /\ p.pc = "answer" /\ p.status = status
      /\ p.key = post[h].key /\ p.command = post[h].command
  BY <1>1 DEF Handlers
<1>3. post' = [post EXCEPT ![h] = p]
  BY <1>1 DEF Contacts!Problem, ContactRows, Handlers
<1> QED BY <1>2, <1>3 DEF Turns

LEMMA ReplyTurns ==
    ASSUME ContactRows, NEW h \in Workers, NEW status \in {"absent", "saved", "changed"},
           Contacts!Reply(h, status)
    PROVE  Turns(h, "answer", status) \/ Turns(h, "answer", "denied")
BY ProblemTurns DEF Contacts!Reply

\* Whatever a handler does to the tables, its key stays bound and its tab stays with it.
LEMMA TurnBinds ==
    ASSUME ContactRows, Waiting, NEW asked, AskedBy(asked), NEW h \in Workers, NEW p \in Handlers,
           post' = [post EXCEPT ![h] = p], post[h].pc # "free", p.pc # "free",
           p.key = post[h].key, p.command = post[h].command, UNCHANGED <<desk, posted>>,
           \A k \in OpKeys : receipts'[k] = receipts[k] \/ (receipts'[k] = asked[k] /\ posted[k] > 0)
    PROVE  /\ AskedBy(asked)' /\ Waiting'
           /\ post' \in [Workers -> Handlers] /\ posted' \in [OpKeys -> Nat]
           /\ desk' \in [Tabs -> Pendings]
<1>1. /\ post' \in [Workers -> Handlers] /\ post'[h] = p
      /\ \A g \in Workers : g # h => post'[g] = post[g]
  BY DEF ContactRows
<1>2. AskedBy(asked)'
  BY <1>1 DEF AskedBy
<1>3. Waiting'
  BY <1>1 DEF Waiting, ContactRows, Pendings
<1> QED BY <1>1, <1>2, <1>3 DEF ContactRows

\* A handler that leaves the tables alone keeps everything, when what it says is true.
LEMMA TurnKeeps ==
    ASSUME ContactsKept, NEW asked, AskedBy(asked), NEW h \in Workers,
           NEW pc \in {"batch", "recheck", "answer"}, NEW status,
           post[h].pc \in {"operation", "prior", "batch", "recheck"}, Turns(h, pc, status),
           UNCHANGED <<contacts, receipts, desk, confirmed, posted>>,
           pc # "answer" => post[h].pc \in {"prior", "batch"},
           pc = "batch" => /\ post[h].pc = "prior"
                           /\ post[h].command.action = "undo" =>
                                 post[h].command.batch \in Contacts!Batches,
           pc = "answer" /\ status = "saved" => receipts[post[h].key] # None,
           pc = "answer" /\ status = "changed" =>
              /\ post[h].pc \in {"prior", "recheck"}
              /\ post[h].pc = "recheck" => receipts[post[h].key] # post[h].command
    PROVE  ContactsKept' /\ AskedBy(asked)'
<1> PICK p \in Handlers : /\ post' = [post EXCEPT ![h] = p] /\ p.pc = pc /\ p.status = status
                          /\ p.key = post[h].key /\ p.command = post[h].command
  BY DEF Turns
<1>1. /\ post'[h] = p
      /\ \A g \in Workers : g # h => post'[g] = post[g]
  BY DEF ContactsKept, ContactRows
<1>2. /\ AskedBy(asked)' /\ Waiting'
      /\ post' \in [Workers -> Handlers] /\ posted' \in [OpKeys -> Nat]
      /\ desk' \in [Tabs -> Pendings]
  BY TurnBinds DEF ContactsKept
<1>3. ContactRows'
  BY <1>2 DEF ContactsKept, ContactRows
<1>4. ToldSaved'
  BY <1>1 DEF ContactsKept, ToldSaved
<1>5. SentOnce'
  <2>1. \A g \in Workers : Sent(g)' => Sent(g) /\ post'[g].key = post[g].key
    BY <1>1 DEF Sent
  <2>2. ASSUME NEW g \in Workers, Sent(g)', posted'[post'[g].key] = 1
        PROVE  /\ \A f \in Workers : Sent(f)' /\ post'[f].key = post'[g].key => f = g
               /\ post'[g].pc # "recheck" => receipts'[post'[g].key] = None
    <3>1. \A f \in Workers : Sent(f) /\ post[f].key = post[g].key => f = g
      BY <2>1, <2>2 DEF ContactsKept, SentOnce
    <3>2. post[g].pc # "recheck" => receipts[post[g].key] = None
      BY <2>1, <2>2 DEF ContactsKept, SentOnce
    <3>3. CASE g = h /\ post[h].pc = "recheck" /\ pc = "answer"
      <4>1. receipts[post[h].key] # asked[post[h].key] /\ post[h].key \in OpKeys
        BY <1>1, <2>2, <3>3 DEF AskedBy, Sent
      <4> QED BY <1>1, <2>1, <3>1, <3>3, <4>1 DEF AskedBy
    <3>4. CASE g # h \/ post[h].pc # "recheck"
      BY <1>1, <2>1, <3>1, <3>2, <3>4
    <3> QED BY <3>1, <3>3, <3>4, <2>1, <2>2, <1>1 DEF Sent
  <2> QED BY <2>2 DEF SentOnce
<1>6. Undoes'
  BY <1>1, ReceiptsStay DEF ContactsKept, Undoes
<1> QED BY <1>2, <1>3, <1>4, <1>5, <1>6, ReceiptsStay DEF ContactsKept

LEMMA LooksUp ==
    ASSUME ContactsKept, NEW asked, AskedBy(asked), NEW h \in Workers, Contacts!Operation(h)
    PROVE  ContactsKept' /\ AskedBy(asked)'
<1> ContactRows /\ post[h].pc = "operation"
    /\ UNCHANGED <<contacts, receipts, desk, confirmed, posted>>
  BY DEF ContactsKept, Contacts!Operation, Contacts!Tables, Contacts!Others
<1>1. CASE receipts[post[h].key] = None
  <2>1. Turns(h, "answer", "absent") \/ Turns(h, "answer", "denied")
    <3>1. Contacts!Reply(h, "absent")
      BY <1>1 DEF Contacts!Operation
    <3> QED BY <3>1, ReplyTurns
  <2> QED BY <2>1, TurnKeeps
<1>2. CASE receipts[post[h].key] # None
  <2>1. Turns(h, "answer", "saved") \/ Turns(h, "answer", "denied")
    <3>1. Contacts!Reply(h, "saved")
      BY <1>2 DEF Contacts!Operation
    <3> QED BY <3>1, ReplyTurns
  <2> QED BY <1>2, <2>1, TurnKeeps
<1> QED BY <1>1, <1>2

LEMMA ReadsPrior ==
    ASSUME ContactsKept, NEW asked, AskedBy(asked), NEW h \in Workers, Contacts!Prior(h)
    PROVE  ContactsKept' /\ AskedBy(asked)'
<1> DEFINE k == post[h].key
           cmd == post[h].command
<1> ContactRows /\ post[h].pc = "prior"
    /\ UNCHANGED <<contacts, receipts, desk, confirmed, posted>>
  BY DEF ContactsKept, Contacts!Prior, Contacts!Tables, Contacts!Others
<1>1. \/ Contacts!Problem(h, "caseAccess")
      \/ receipts[k] # None /\ Contacts!Reply(h, "saved")
      \/ Contacts!Problem(h, "changed")
      \/ /\ cmd.action = "undo" => cmd.batch \in Contacts!Batches
         /\ Contacts!To(h, "batch")
  BY DEF Contacts!Prior
<1>2. CASE Contacts!Problem(h, "caseAccess")
  BY <1>2, ProblemTurns, TurnKeeps
<1>3. CASE receipts[k] # None /\ Contacts!Reply(h, "saved")
  <2>1. Turns(h, "answer", "saved") \/ Turns(h, "answer", "denied")
    BY <1>3, ReplyTurns
  <2> QED BY <1>3, <2>1, TurnKeeps
<1>4. CASE Contacts!Problem(h, "changed")
  BY <1>4, ProblemTurns, TurnKeeps
<1>5. CASE /\ cmd.action = "undo" => cmd.batch \in Contacts!Batches
           /\ Contacts!To(h, "batch")
  <2>1. Turns(h, "batch", post[h].status)
    BY <1>5, ToTurns
  <2> QED BY <1>5, <2>1, TurnKeeps
<1> QED BY <1>1, <1>2, <1>3, <1>4, <1>5

LEMMA Rechecks ==
    ASSUME ContactsKept, NEW asked, AskedBy(asked), NEW h \in Workers, Contacts!Recheck(h)
    PROVE  ContactsKept' /\ AskedBy(asked)'
<1> ContactRows /\ post[h].pc = "recheck"
    /\ UNCHANGED <<contacts, receipts, desk, confirmed, posted>>
  BY DEF ContactsKept, Contacts!Recheck, Contacts!Tables, Contacts!Others
<1>1. CASE Contacts!Receipt(h)
  <2>1. Turns(h, "answer", "saved") \/ Turns(h, "answer", "denied")
    <3>1. Contacts!Reply(h, "saved")
      BY <1>1 DEF Contacts!Recheck
    <3> QED BY <3>1, ReplyTurns
  <2>2. receipts[post[h].key] # None
    <3>1. post[h].command \in Contacts!Commands
      BY DEF AskedBy, WellFormed
    <3> QED BY <1>1, <3>1, ContactFacts DEF Contacts!Receipt
  <2> QED BY <2>1, <2>2, TurnKeeps
<1>2. CASE ~Contacts!Receipt(h)
  <2>1. Turns(h, "answer", "changed") \/ Turns(h, "answer", "denied")
    <3>1. Contacts!Reply(h, "changed")
      BY <1>2 DEF Contacts!Recheck
    <3> QED BY <3>1, ReplyTurns
  <2>2. receipts[post[h].key] # post[h].command
    BY <1>2 DEF Contacts!Receipt
  <2> QED BY <2>1, <2>2, TurnKeeps
<1> QED BY <1>1, <1>2

LEMMA HandlerFails ==
    ASSUME ContactsKept, NEW asked, AskedBy(asked), NEW h \in Workers, Contacts!PostFails(h)
    PROVE  ContactsKept' /\ AskedBy(asked)'
<1> /\ ContactRows /\ post[h].pc \in {"operation", "prior", "batch", "recheck"}
    /\ UNCHANGED <<contacts, receipts, desk, confirmed, posted>>
  BY DEF ContactsKept, Contacts!PostFails, Contacts!Tables, Contacts!Others
<1>1. CASE post[h].pc = "batch"
  <2>1. Turns(h, "recheck", post[h].status)
    <3>1. Contacts!To(h, "recheck")
      BY <1>1 DEF Contacts!PostFails
    <3> QED BY <3>1, ToTurns
  <2> QED BY <1>1, <2>1, TurnKeeps
<1>2. CASE post[h].pc # "batch"
  <2>1. Turns(h, "answer", "failed")
    <3>1. Contacts!Problem(h, "failed")
      BY <1>2 DEF Contacts!PostFails
    <3> QED BY <3>1, ProblemTurns
  <2> QED BY <2>1, TurnKeeps
<1> QED BY <1>1, <1>2

\* Handlers end and tabs stop waiting; what is confirmed is what a tab was told.
LEMMA FreedKeeps ==
    ASSUME ContactsKept, NEW asked, AskedBy(asked),
           UNCHANGED <<contacts, receipts, posted>>,
           post' \in [Workers -> Handlers], desk' \in [Tabs -> Pendings],
           \A h \in Workers : post'[h] = post[h] \/ post'[h] = Contacts!NoPost,
           \A d \in Tabs : desk'[d] = desk[d] \/ desk'[d] = [desk[d] EXCEPT !.waits = None]
                             \/ desk'[d] = Contacts!NoDesk,
           \A d \in Tabs : desk'[d].waits # None => post'[desk'[d].waits] = post[desk'[d].waits],
           \A c \in confirmed' : c \in confirmed \/ (\E h \in Workers :
              /\ post[h].pc = "answer" /\ post[h].status = "saved"
              /\ c = <<post[h].key, post[h].command>>)
    PROVE  ContactsKept' /\ AskedBy(asked)'
<1>1. ContactRows'
  BY DEF ContactsKept, ContactRows
<1>2. \A h \in Workers : post'[h].pc # "free" => post'[h] = post[h]
  BY DEF Contacts!NoPost
<1>3. \A d \in Tabs : desk'[d].pending # None =>
         desk'[d].pending = desk[d].pending /\ desk'[d].key = desk[d].key
  BY DEF Contacts!NoDesk, ContactsKept, ContactRows, Pendings
<1>4. \A d \in Tabs : desk'[d].waits # None => desk'[d] = desk[d]
  BY DEF Contacts!NoDesk, ContactsKept, ContactRows, Pendings
<1>5. AskedBy(asked)'
  BY <1>2, <1>3 DEF AskedBy
<1>6. Waiting'
  BY <1>4 DEF ContactsKept, Waiting
<1>7. ToldSaved'
  <2>1. ASSUME NEW c \in confirmed', NEW h \in Workers, post[h].pc = "answer",
               post[h].status = "saved", c = <<post[h].key, post[h].command>>
        PROVE  c[1] \in OpKeys /\ c[2] # None /\ receipts'[c[1]] = c[2]
    <3>1. /\ post[h].key \in OpKeys /\ receipts[post[h].key] # None
          /\ post[h].command = asked[post[h].key]
      BY <2>1 DEF ContactsKept, ToldSaved, AskedBy
    <3>2. receipts[post[h].key] = asked[post[h].key]
      BY <3>1 DEF AskedBy
    <3> QED BY <2>1, <3>1, <3>2
  <2>2. \A c \in confirmed' : c[1] \in OpKeys /\ c[2] # None /\ receipts'[c[1]] = c[2]
    BY <2>1 DEF ContactsKept, ToldSaved
  <2>3. \A h \in Workers : post'[h].pc = "answer" /\ post'[h].status = "saved" =>
           receipts'[post'[h].key] # None
    BY <1>2 DEF ContactsKept, ToldSaved
  <2> QED BY <2>2, <2>3 DEF ToldSaved
<1>8. SentOnce'
  <2>1. \A h \in Workers : Sent(h)' => post'[h] = post[h] /\ Sent(h)
    BY <1>2 DEF Sent
  <2> QED BY <2>1 DEF ContactsKept, SentOnce
<1>9. Undoes'
  BY <1>2, ReceiptsStay DEF ContactsKept, Undoes
<1> QED BY <1>1, <1>5, <1>6, <1>7, <1>8, <1>9, ReceiptsStay DEF ContactsKept

LEMMA TabReceives ==
    ASSUME ContactsKept, NEW asked, AskedBy(asked), NEW d \in Tabs, Contacts!Receive(d)
    PROVE  ContactsKept' /\ AskedBy(asked)'
<1> DEFINE h == desk[d].waits
<1>1. /\ h \in Workers /\ post[h].pc = "answer" /\ UNCHANGED <<contacts, receipts>>
      /\ desk[d].pending # None /\ post[h].key = desk[d].key /\ desk[d].key \in OpKeys
      /\ post[h].command = desk[d].pending /\ posted[desk[d].key] \in Nat \ {0}
      /\ posted \in [OpKeys -> Nat] /\ post[h] \in Handlers /\ desk[d] \in Pendings
      /\ \A e \in Tabs : desk[e].waits = h => e = d
  BY ContactFacts
  DEF Contacts!Receive, Contacts!Tables, ContactsKept, ContactRows, Waiting, AskedBy, Pendings
<1> DEFINE k == desk[d].key
<1>2. CASE post[h].status = "absent"
  <2> PICK p \in Handlers : p = [post[h] EXCEPT !.pc = "prior"]
    BY <1>1 DEF Handlers
  <2>1. /\ post' = [post EXCEPT ![h] = p] /\ p.pc = "prior" /\ p.key = k
        /\ p.command = post[h].command
        /\ posted' = [posted EXCEPT ![k] = @ + 1] /\ UNCHANGED <<desk, confirmed>>
    BY <1>1, <1>2 DEF Contacts!Receive, Handlers
  <2>2. /\ post' \in [Workers -> Handlers] /\ post'[h] = p
        /\ \A g \in Workers : g # h => post'[g] = post[g]
    BY <1>1, <2>1 DEF ContactsKept, ContactRows
  <2>3. /\ posted' \in [OpKeys -> Nat] /\ posted'[k] > 1
        /\ \A o \in OpKeys : o # k => posted'[o] = posted[o]
        /\ \A o \in OpKeys : posted'[o] > 0 <=> posted[o] > 0
    BY <1>1, <2>1
  <2>4. ContactRows'
    BY <1>1, <2>1, <2>2, <2>3 DEF ContactsKept, ContactRows
  <2>a. /\ UNCHANGED <<desk, receipts>>
        /\ \A g \in Workers : /\ post'[g].key = post[g].key /\ post'[g].command = post[g].command
                              /\ post'[g].pc # "free" <=> post[g].pc # "free"
    BY <1>1, <2>1, <2>2
  <2>5. AskedBy(asked)'
    BY <2>3, <2>a DEF AskedBy
  <2>6. Waiting'
    <3>1. \A e \in Tabs : desk[e].waits \in Workers \cup {None}
      BY DEF ContactsKept, ContactRows, Pendings
    <3> QED BY <2>a, <3>1 DEF ContactsKept, Waiting
  <2>7. ToldSaved'
    BY <1>1, <2>1, <2>2 DEF ContactsKept, ToldSaved
  <2>8. SentOnce'
    <3>1. \A g \in Workers : Sent(g)' /\ post'[g].key # k => post'[g] = post[g] /\ Sent(g)
      BY <2>1, <2>2 DEF Sent
    <3>2. ASSUME NEW g \in Workers, Sent(g)', posted'[post'[g].key] = 1
          PROVE  /\ \A f \in Workers : Sent(f)' /\ post'[f].key = post'[g].key => f = g
                 /\ post'[g].pc # "recheck" => receipts'[post'[g].key] = None
      <4>1. post'[g].key # k /\ post'[g].key \in OpKeys
        BY <2>3, <3>2, <2>5 DEF AskedBy, Sent
      <4> QED BY <1>1, <2>3, <3>1, <3>2, <4>1 DEF ContactsKept, SentOnce
    <3> QED BY <3>2 DEF SentOnce
  <2>9. Undoes'
    BY <1>1, <2>1, <2>2, ReceiptsStay DEF ContactsKept, Undoes
  <2> QED BY <1>1, <2>4, <2>5, <2>6, <2>7, <2>8, <2>9, ReceiptsStay DEF ContactsKept
<1>3. CASE post[h].status # "absent"
  <2>1. /\ UNCHANGED posted /\ post' = [post EXCEPT ![h] = Contacts!NoPost]
        /\ desk' = [desk EXCEPT ![d] = IF post[h].status = "failed"
                                       THEN [desk[d] EXCEPT !.waits = None] ELSE Contacts!NoDesk]
        /\ \A c \in confirmed' : c \in confirmed \/ (post[h].status = "saved" /\ c = <<k, desk[d].pending>>)
    BY <1>3 DEF Contacts!Receive
  <2>2. Contacts!NoPost \in Handlers /\ Contacts!NoDesk \in Pendings
        /\ [desk[d] EXCEPT !.waits = None] \in Pendings
    BY <1>1 DEF Contacts!NoPost, Contacts!NoDesk, Handlers, Pendings
  <2>3. /\ post' \in [Workers -> Handlers] /\ desk' \in [Tabs -> Pendings]
        /\ \A g \in Workers : post'[g] = post[g] \/ post'[g] = Contacts!NoPost
        /\ \A g \in Workers : g # h => post'[g] = post[g]
        /\ \A e \in Tabs : e # d => desk'[e] = desk[e]
        /\ desk'[d] = [desk[d] EXCEPT !.waits = None] \/ desk'[d] = Contacts!NoDesk
    BY <1>1, <2>1, <2>2 DEF ContactsKept, ContactRows
  <2>4. \A e \in Tabs : desk'[e].waits # None => post'[desk'[e].waits] = post[desk'[e].waits]
    <3>1. desk'[d].waits = None
      BY <1>1, <2>3 DEF Contacts!NoDesk, Pendings
    <3>2. \A e \in Tabs : desk'[e].waits \in Workers \cup {None}
      BY <2>3 DEF Pendings
    <3> QED BY <1>1, <2>3, <3>1, <3>2
  <2>5. \A c \in confirmed' : c \in confirmed \/ (\E g \in Workers :
              /\ post[g].pc = "answer" /\ post[g].status = "saved"
              /\ c = <<post[g].key, post[g].command>>)
    BY <1>1, <2>1
  <2>6. \A e \in Tabs : desk'[e] = desk[e] \/ desk'[e] = [desk[e] EXCEPT !.waits = None]
                             \/ desk'[e] = Contacts!NoDesk
    BY <2>3
  <2> QED BY <1>1, <2>1, <2>3, <2>4, <2>5, <2>6, FreedKeeps
<1> QED BY <1>2, <1>3

LEMMA TabLeaves ==
    ASSUME ContactsKept, NEW asked, AskedBy(asked), NEW d \in Tabs,
           Contacts!TimesOut(d) \/ Contacts!Close(d)
    PROVE  ContactsKept' /\ AskedBy(asked)'
<1> PICK w : \/ w = [desk[d] EXCEPT !.waits = None] /\ desk' = [desk EXCEPT ![d] = w]
             \/ w = Contacts!NoDesk /\ desk' = [desk EXCEPT ![d] = w]
  BY DEF Contacts!TimesOut, Contacts!Close
<1>1. /\ UNCHANGED <<contacts, receipts, confirmed, posted>>
      /\ post' = [g \in Workers |-> IF g = desk[d].waits /\ post[g].pc \in {"operation", "answer"}
                                    THEN Contacts!NoPost ELSE post[g]]
  BY DEF Contacts!TimesOut, Contacts!Close, Contacts!Leave, Contacts!Tables
<1>2. /\ Contacts!NoPost \in Handlers /\ desk[d] \in Pendings
      /\ w \in Pendings /\ w.waits = None
  <2>1. desk[d] \in Pendings
    BY DEF ContactsKept, ContactRows
  <2> QED BY <2>1 DEF Contacts!NoPost, Contacts!NoDesk, Handlers, Pendings
<1>3. /\ post' \in [Workers -> Handlers] /\ desk' \in [Tabs -> Pendings]
      /\ \A g \in Workers : post'[g] = post[g] \/ post'[g] = Contacts!NoPost
      /\ \A e \in Tabs : e # d => desk'[e] = desk[e]
      /\ desk'[d] = w
  BY <1>1, <1>2 DEF ContactsKept, ContactRows
<1>4. \A e \in Tabs : desk'[e].waits # None => post'[desk'[e].waits] = post[desk'[e].waits]
  <2>1. ASSUME NEW e \in Tabs, desk'[e].waits # None
        PROVE  post'[desk'[e].waits] = post[desk'[e].waits]
    <3>1. e # d /\ desk'[e] = desk[e] /\ desk[e].waits \in Workers
      BY <1>2, <1>3, <2>1 DEF Pendings
    <3>2. desk[e].waits # desk[d].waits
      BY <2>1, <3>1 DEF ContactsKept, Waiting
    <3> QED BY <1>1, <3>1, <3>2
  <2> QED BY <2>1
<1>5. \A e \in Tabs : desk'[e] = desk[e] \/ desk'[e] = [desk[e] EXCEPT !.waits = None]
                             \/ desk'[e] = Contacts!NoDesk
  BY <1>3
<1> QED BY <1>1, <1>3, <1>4, <1>5, FreedKeeps

LEMMA HandlerEnds ==
    ASSUME ContactsKept, NEW asked, AskedBy(asked), NEW h \in Workers, Contacts!Unheard(h)
    PROVE  ContactsKept' /\ AskedBy(asked)'
<1>1. /\ UNCHANGED <<contacts, receipts, confirmed, posted, desk>>
      /\ post' = [post EXCEPT ![h] = Contacts!NoPost] /\ \A d \in Tabs : desk[d].waits # h
  BY DEF Contacts!Unheard, Contacts!Tables, Contacts!Others
<1>2. Contacts!NoPost \in Handlers
  BY DEF Contacts!NoPost, Handlers
<1>3. /\ post' \in [Workers -> Handlers] /\ desk' \in [Tabs -> Pendings]
      /\ \A g \in Workers : post'[g] = post[g] \/ post'[g] = Contacts!NoPost
      /\ \A g \in Workers : g # h => post'[g] = post[g]
      /\ \A d \in Tabs : desk'[d].waits \in Workers \cup {None}
  BY <1>1, <1>2 DEF ContactsKept, ContactRows, Pendings
<1>4. \A d \in Tabs : desk'[d].waits # None => post'[desk'[d].waits] = post[desk'[d].waits]
  BY <1>1, <1>3
<1> QED BY <1>1, <1>3, <1>4, FreedKeeps

LEMMA Excluded ==
    ASSUME ContactsKept, NEW asked, AskedBy(asked), Contacts!Exclude
    PROVE  ContactsKept' /\ AskedBy(asked)'
<1>1. UNCHANGED <<contacts, receipts, confirmed, posted, desk, post>>
  BY DEF Contacts!Exclude, Contacts!Tables
<1>2. /\ post' \in [Workers -> Handlers] /\ desk' \in [Tabs -> Pendings]
  BY <1>1 DEF ContactsKept, ContactRows
<1> QED BY <1>1, <1>2, FreedKeeps

\* What a tab sends; the number of sends is the caller's.
LEMMA SendRows ==
    ASSUME ContactsKept, NEW d \in Tabs, NEW h \in Workers, NEW pc \in {"prior", "operation"},
           NEW k \in OpKeys, NEW cmd \in Contacts!Commands, Contacts!Send(d, h, pc, k, cmd)
    PROVE  /\ post[h].pc = "free"
           /\ post' \in [Workers -> Handlers] /\ desk' \in [Tabs -> Pendings]
           /\ post'[h].pc = pc /\ post'[h].key = k /\ post'[h].command = cmd
           /\ post'[h].status = "none"
           /\ \A g \in Workers : g # h => post'[g] = post[g]
           /\ desk'[d].pending = cmd /\ desk'[d].key = k /\ desk'[d].waits = h
           /\ \A e \in Tabs : e # d => desk'[e] = desk[e]
           /\ UNCHANGED <<contacts, receipts, confirmed>>
<1> PICK p : p = [[[Contacts!NoPost EXCEPT !.pc = pc] EXCEPT !.key = k] EXCEPT !.command = cmd]
  OBVIOUS
<1> PICK w : w = [pending |-> cmd, key |-> k, waits |-> h]
  OBVIOUS
<1>1. /\ p \in Handlers /\ p.pc = pc /\ p.key = k /\ p.command = cmd /\ p.status = "none"
      /\ w \in Pendings /\ w.pending = cmd /\ w.key = k /\ w.waits = h
  BY DEF Contacts!NoPost, Handlers, Pendings
<1>2. post' = [post EXCEPT ![h] = p] /\ desk' = [desk EXCEPT ![d] = w]
  BY DEF Contacts!Send, Contacts!NoPost
<1>3. post[h].pc = "free" /\ UNCHANGED <<contacts, receipts, confirmed>>
  BY DEF Contacts!Send
<1> QED BY <1>1, <1>2, <1>3 DEF ContactsKept, ContactRows

LEMMA TabSaves ==
    ASSUME ContactsKept, NEW asked, AskedBy(asked), NEW d \in Tabs, NEW h \in Workers,
           Contacts!Save(d, h)
    PROVE  \E also : ContactsKept' /\ AskedBy(also)'
<1> PICK k \in OpKeys, cmd \in Contacts!Drafts :
        posted[k] = 0 /\ posted' = [posted EXCEPT ![k] = 1]
          /\ Contacts!Send(d, h, "prior", k, cmd)
  BY DEF Contacts!Save
<1> PICK also : also = [o \in OpKeys |-> IF o = k THEN cmd ELSE asked[o]]
  OBVIOUS
<1>1. WellFormed(cmd) /\ cmd \in Contacts!Commands
  BY DraftsFormed DEF ContactsKept, WellFormed
<1>2. /\ post[h].pc = "free" /\ desk[d].waits \in Workers \cup {None}
      /\ post' \in [Workers -> Handlers] /\ desk' \in [Tabs -> Pendings]
      /\ post'[h].pc = "prior" /\ post'[h].key = k /\ post'[h].command = cmd
      /\ post'[h].status = "none"
      /\ \A g \in Workers : g # h => post'[g] = post[g]
      /\ desk'[d].pending = cmd /\ desk'[d].key = k /\ desk'[d].waits = h
      /\ \A e \in Tabs : e # d => desk'[e] = desk[e]
      /\ UNCHANGED <<contacts, receipts, confirmed>>
  BY <1>1, SendRows DEF ContactsKept, ContactRows, Pendings
<1>3. /\ posted' \in [OpKeys -> Nat] /\ posted'[k] = 1
      /\ \A o \in OpKeys : o # k => posted'[o] = posted[o]
  BY DEF ContactsKept, ContactRows
<1>4. /\ \A g \in Workers : post[g].pc # "free" => post[g].key # k
      /\ \A e \in Tabs : desk[e].pending # None => desk[e].key # k
      /\ receipts[k] = None
  BY DEF AskedBy
<1>5. also[k] = cmd /\ \A o \in OpKeys : o # k => also[o] = asked[o]
  OBVIOUS
<1>6. ContactRows'
  BY <1>2, <1>3 DEF ContactsKept, ContactRows
<1>7. AskedBy(also)'
  <2>1. \A g \in Workers : post'[g].pc # "free" =>
           /\ post'[g].key \in OpKeys /\ posted'[post'[g].key] > 0
           /\ post'[g].command = also[post'[g].key]
    BY <1>2, <1>3, <1>4, <1>5 DEF AskedBy
  <2>2. \A e \in Tabs : desk'[e].pending # None =>
           /\ desk'[e].key \in OpKeys /\ posted'[desk'[e].key] > 0
           /\ desk'[e].pending = also[desk'[e].key]
    BY <1>2, <1>3, <1>4, <1>5 DEF AskedBy
  <2>3. \A o \in OpKeys : receipts'[o] # None => posted'[o] > 0 /\ receipts'[o] = also[o]
    BY <1>2, <1>3, <1>4, <1>5 DEF AskedBy
  <2>4. \A o \in OpKeys : posted'[o] > 0 => WellFormed(also[o])
    BY <1>1, <1>3, <1>5 DEF AskedBy
  <2> QED BY <2>1, <2>2, <2>3, <2>4 DEF AskedBy
<1>8. Waiting'
  <2>1. \A e \in Tabs : desk'[e].waits # None =>
          /\ desk'[e].pending # None
          /\ post'[desk'[e].waits].pc # "free" /\ post'[desk'[e].waits].key = desk'[e].key
    BY <1>1, <1>2, ContactFacts DEF ContactsKept, ContactRows, Pendings, Waiting
  <2>2. \A e \in Tabs : e # d => desk'[e].waits # h
    BY <1>2, ContactFacts DEF ContactsKept, Waiting
  <2> QED BY <1>2, <2>1, <2>2 DEF ContactsKept, Waiting
<1>9. ToldSaved'
  BY <1>2 DEF ContactsKept, ToldSaved
<1>10. SentOnce'
  <2>1. \A g \in Workers : g # h /\ Sent(g)' => Sent(g) /\ post'[g].key # k
    BY <1>2, <1>4 DEF Sent
  <2>2. ASSUME NEW g \in Workers, Sent(g)', posted'[post'[g].key] = 1
        PROVE  /\ \A f \in Workers : Sent(f)' /\ post'[f].key = post'[g].key => f = g
               /\ post'[g].pc # "recheck" => receipts'[post'[g].key] = None
    <3>1. CASE g = h
      BY <1>2, <1>4, <2>1, <3>1
    <3>2. CASE g # h
      <4>1. Sent(g) /\ post[g].key # k /\ post[g].key \in OpKeys /\ posted[post[g].key] = 1
        BY <1>2, <1>3, <1>7, <2>1, <2>2, <3>2 DEF AskedBy, Sent
      <4>2. \A f \in Workers : Sent(f)' /\ post'[f].key = post'[g].key => f = g
        BY <1>2, <2>1, <3>2, <4>1 DEF ContactsKept, SentOnce
      <4>3. post'[g].pc # "recheck" => receipts'[post'[g].key] = None
        BY <1>2, <3>2, <4>1 DEF ContactsKept, SentOnce
      <4> QED BY <4>2, <4>3
    <3> QED BY <3>1, <3>2
  <2> QED BY <2>2 DEF SentOnce
<1>11. Undoes'
  BY <1>2, ReceiptsStay DEF ContactsKept, Undoes
<1> QED BY <1>2, <1>6, <1>7, <1>8, <1>9, <1>10, <1>11, ReceiptsStay DEF ContactsKept

LEMMA TabSavesAgain ==
    ASSUME ContactsKept, NEW asked, AskedBy(asked), NEW d \in Tabs, NEW h \in Workers,
           Contacts!SaveAgain(d, h)
    PROVE  ContactsKept' /\ AskedBy(asked)'
<1> DEFINE k == desk[d].key
           cmd == desk[d].pending
<1>1. /\ Contacts!Send(d, h, "operation", k, cmd) /\ UNCHANGED posted
      /\ desk[d].waits = None /\ cmd # None
  BY DEF Contacts!SaveAgain
<1>2. k \in OpKeys /\ posted[k] > 0 /\ cmd = asked[k] /\ cmd \in Contacts!Commands
  BY <1>1 DEF AskedBy, WellFormed
<1>3. /\ post[h].pc = "free"
      /\ post' \in [Workers -> Handlers] /\ desk' \in [Tabs -> Pendings]
      /\ post'[h].pc = "operation" /\ post'[h].key = k /\ post'[h].command = cmd
      /\ \A g \in Workers : g # h => post'[g] = post[g]
      /\ desk'[d].pending = cmd /\ desk'[d].key = k /\ desk'[d].waits = h
      /\ \A e \in Tabs : e # d => desk'[e] = desk[e]
      /\ UNCHANGED <<contacts, receipts, confirmed>>
  BY <1>1, <1>2, SendRows
<1>4. ContactRows'
  BY <1>1, <1>3 DEF ContactsKept, ContactRows
<1>5. AskedBy(asked)'
  BY <1>1, <1>2, <1>3 DEF AskedBy
<1>6. Waiting'
  <2>1. \A e \in Tabs : desk'[e].waits # None =>
          /\ desk'[e].pending # None
          /\ post'[desk'[e].waits].pc # "free" /\ post'[desk'[e].waits].key = desk'[e].key
    BY <1>1, <1>3, ContactFacts DEF ContactsKept, ContactRows, Pendings, Waiting
  <2>2. \A e \in Tabs : e # d => desk'[e].waits # h
    BY <1>3, ContactFacts DEF ContactsKept, Waiting
  <2> QED BY <1>3, <2>1, <2>2 DEF ContactsKept, Waiting
<1>7. ToldSaved'
  BY <1>3 DEF ContactsKept, ToldSaved
<1>8. SentOnce'
  <2>1. \A g \in Workers : Sent(g)' => Sent(g) /\ post'[g] = post[g]
    BY <1>3 DEF Sent
  <2> QED BY <1>1, <1>3, <2>1 DEF ContactsKept, SentOnce
<1>9. Undoes'
  BY <1>3, ReceiptsStay DEF ContactsKept, Undoes
<1> QED BY <1>3, <1>4, <1>5, <1>6, <1>7, <1>8, <1>9, ReceiptsStay DEF ContactsKept

\* What a batch leaves of a contact it changes is its next revision.
LEMMA NextRevision ==
    ASSUME ContactRows, NEW k \in OpKeys, NEW cmd, WellFormed(cmd), Contacts!Guards(k, cmd),
           NEW i \in Contacts!Ids, i \in Contacts!Changed(k, cmd)
    PROVE  LET c == Contacts!After(k, cmd, i)
           IN  /\ c = [status |-> c.status, revision |-> c.revision, profile |-> c.profile]
               /\ c.revision = contacts[i].revision + 1
<1> PICK o : o = contacts[i]
  OBVIOUS
<1>1. /\ o = [status |-> o.status, revision |-> o.revision, profile |-> o.profile]
      /\ o.revision \in Nat
  BY DEF ContactRows
<1>2. CASE cmd.action \in {"create", "edit", "import"}
  BY <1>1, <1>2 DEF Contacts!After
<1>3. CASE cmd.action = "undo"
  <2>1. o.revision = 1
    BY <1>3 DEF Contacts!Guards, Contacts!MayUndo
  <2>2. Contacts!After(k, cmd, i) = [[o EXCEPT !.status = "archived"] EXCEPT !.revision = 2]
    BY <1>1, <1>3 DEF Contacts!After
  <2> PICK c : c = [[o EXCEPT !.status = "archived"] EXCEPT !.revision = 2]
    OBVIOUS
  <2>3. c = [status |-> "archived", revision |-> 2, profile |-> o.profile]
    BY <1>1
  <2>4. Contacts!After(k, cmd, i) = c
    BY <2>2
  <2> QED BY <2>1, <2>3, <2>4
<1>4. CASE cmd.action = "archive"
  BY <1>1, <1>4 DEF Contacts!After
<1>5. CASE cmd.action \in {"restore", "link", "unlink"}
  BY <1>1, <1>5 DEF Contacts!After
<1> QED BY <1>2, <1>3, <1>4, <1>5 DEF WellFormed, Contacts!Commands, Contacts!Actions

\* A new receipt changes nothing of what the earlier ones changed.
LEMMA ReceiptAdds ==
    ASSUME ContactRows, Undoes, NEW k \in OpKeys, receipts[k] = None, NEW cmd, WellFormed(cmd),
           receipts' = [receipts EXCEPT ![k] = cmd],
           cmd.action = "undo" => cmd.batch \in Contacts!Batches
    PROVE  /\ Contacts!Done' = Contacts!Done \cup {k}
           /\ Contacts!Batches \subseteq Contacts!Batches'
           /\ \A o \in Contacts!Done : o # k /\ receipts'[o] = receipts[o]
           /\ \A o \in Contacts!Done :
                 Contacts!Changed(o, receipts[o])' = Contacts!Changed(o, receipts[o])
           /\ Contacts!Changed(k, receipts[k])' = Contacts!Changed(k, cmd)
<1>1. receipts'[k] = cmd /\ cmd # None /\ \A o \in OpKeys : o # k => receipts'[o] = receipts[o]
  BY ContactFacts DEF ContactRows, WellFormed
<1>2. Contacts!Done' = Contacts!Done \cup {k} /\ k \notin Contacts!Done
      /\ \A o \in Contacts!Done : o # k /\ receipts'[o] = receipts[o]
  BY <1>1 DEF Contacts!Done
<1>3. \A b \in Contacts!Batches : b \in OpKeys /\ receipts'[b] = receipts[b] /\ b \in Contacts!Batches'
  BY <1>1 DEF Contacts!Batches
<1>4. ASSUME NEW o, NEW c, c.action = "undo" => c.batch \in Contacts!Batches
      PROVE  Contacts!Changed(o, c)' = Contacts!Changed(o, c)
  BY <1>3, <1>4 DEF Contacts!Changed, Contacts!Written
<1>5. ASSUME NEW o \in Contacts!Done
      PROVE  Contacts!Changed(o, receipts[o])' = Contacts!Changed(o, receipts[o])
  <2>1. receipts[o].action = "undo" => receipts[o].batch \in Contacts!Batches
    BY DEF Undoes, Contacts!Done
  <2>2. receipts'[o] = receipts[o]
    BY <1>2
  <2> PICK c : c = receipts[o]
    OBVIOUS
  <2>3. (c.action = "undo" => c.batch \in Contacts!Batches) /\ c = receipts[o] /\ c = receipts'[o]
    BY <2>1, <2>2
  <2>4. CASE c.action = "undo"
    BY <1>3, <2>3, <2>4 DEF Contacts!Changed, Contacts!Written
  <2>5. CASE c.action # "undo"
    BY <2>3, <2>5 DEF Contacts!Changed, Contacts!Written
  <2> QED BY <2>4, <2>5
<1>6. Contacts!Changed(k, receipts[k])' = Contacts!Changed(k, cmd)
  <2>1. CASE cmd.action = "undo"
    <3>1. PICK b \in OpKeys : b = cmd.batch /\ b = receipts'[k].batch /\ receipts'[b] = receipts[b]
      BY <1>1, <1>3, <2>1
    <3> PICK r : r = receipts[b] /\ r = receipts'[b]
      BY <3>1
    <3>2. Contacts!Changed(k, receipts[k])' = DOMAIN Contacts!Written(b, r)
      <4>1. receipts'[k].action = "undo" /\ receipts'[receipts'[k].batch] = r
        BY <1>1, <2>1, <3>1
      <4>2. receipts'[k].batch = b
        BY <3>1
      <4> QED BY <4>1, <4>2 DEF Contacts!Changed, Contacts!Written
    <3>3. Contacts!Changed(k, cmd) = DOMAIN Contacts!Written(b, r)
      BY <2>1, <3>1 DEF Contacts!Changed, Contacts!Written
    <3> QED BY <3>2, <3>3
  <2>2. CASE cmd.action # "undo"
    BY <1>1, <2>2 DEF Contacts!Changed, Contacts!Written
  <2> QED BY <2>1, <2>2
<1> QED BY <1>2, <1>3, <1>5, <1>6

LEMMA ReceiptCounts ==
    ASSUME ContactRows, Undoes, NEW k \in OpKeys, receipts[k] = None, NEW cmd, WellFormed(cmd),
           receipts' = [receipts EXCEPT ![k] = cmd],
           cmd.action = "undo" => cmd.batch \in Contacts!Batches, NEW i
    PROVE  Changers(i)' = Changers(i) \cup {o \in {k} : i \in Contacts!Changed(k, cmd)}
<1>1. /\ Contacts!Done' = Contacts!Done \cup {k}
      /\ \A o \in Contacts!Done :
            o # k /\ Contacts!Changed(o, receipts[o])' = Contacts!Changed(o, receipts[o])
      /\ Contacts!Changed(k, receipts[k])' = Contacts!Changed(k, cmd)
  BY ReceiptAdds
<1> QED BY <1>1 DEF Changers

LEMMA BatchRefused ==
    ASSUME ContactsKept, NEW asked, AskedBy(asked), NEW h \in Workers, Contacts!Batch(h),
           ~Contacts!Guards(post[h].key, post[h].command)
    PROVE  ContactsKept' /\ AskedBy(asked)'
<1>1. /\ ContactRows /\ post[h].pc = "batch" /\ Contacts!To(h, "recheck")
      /\ UNCHANGED <<contacts, receipts, desk, confirmed, posted>>
  BY DEF ContactsKept, Contacts!Batch, Contacts!Tables, Contacts!Others
<1>2. Turns(h, "recheck", post[h].status)
  BY <1>1, ToTurns
<1> QED BY <1>1, <1>2, TurnKeeps

\* A batch that went through: its receipt, and the contacts that its command changes.
SavedBy(k, cmd) ==
    /\ k \in OpKeys /\ receipts[k] = None /\ WellFormed(cmd) /\ Contacts!Guards(k, cmd)
    /\ cmd.action = "undo" => cmd.batch \in Contacts!Batches
    /\ contacts' = [i \in Contacts!Ids |->
          IF i \in Contacts!Changed(k, cmd) THEN Contacts!After(k, cmd, i) ELSE contacts[i]]
    /\ receipts' = [receipts EXCEPT ![k] = cmd]

\* What it adds to the receipts, and to the commands that changed a contact.
LEMMA SavedAdds ==
    ASSUME ContactRows, Undoes, NEW k, NEW cmd, SavedBy(k, cmd)
    PROVE  /\ Contacts!Done' = Contacts!Done \cup {k}
           /\ \A o \in Contacts!Done : o # k /\ receipts'[o] = receipts[o]
           /\ \A o \in Contacts!Done :
                 Contacts!Changed(o, receipts[o])' = Contacts!Changed(o, receipts[o])
           /\ Contacts!Changed(k, receipts[k])' = Contacts!Changed(k, cmd)
<1>1. /\ k \in OpKeys /\ receipts[k] = None /\ WellFormed(cmd)
      /\ cmd.action = "undo" => cmd.batch \in Contacts!Batches
      /\ receipts' = [receipts EXCEPT ![k] = cmd]
  BY DEF SavedBy
<1> QED BY <1>1, ReceiptAdds

LEMMA SavedCounts ==
    ASSUME ContactRows, Undoes, NEW k, NEW cmd, SavedBy(k, cmd), NEW i
    PROVE  Changers(i)' = Changers(i) \cup {o \in {k} : i \in Contacts!Changed(k, cmd)}
BY SavedAdds DEF Changers

LEMMA BatchSaved ==
    ASSUME ContactsKept, NEW asked, AskedBy(asked), NEW h \in Workers, Contacts!Batch(h),
           Contacts!Guards(post[h].key, post[h].command)
    PROVE  SavedBy(post[h].key, post[h].command)
BY DEF SavedBy, Contacts!Batch, Contacts!Guards, AskedBy, ContactsKept, Undoes

LEMMA SavedRevisions ==
    ASSUME ContactRows, NEW k, NEW cmd, SavedBy(k, cmd), NEW i \in Contacts!Ids
    PROVE  /\ contacts'[i] = [status |-> contacts'[i].status, revision |-> contacts'[i].revision,
                              profile |-> contacts'[i].profile]
           /\ contacts[i].revision \in Nat
           /\ i \in Contacts!Changed(k, cmd) =>
                 /\ contacts'[i] = Contacts!After(k, cmd, i)
                 /\ contacts'[i].revision = contacts[i].revision + 1
           /\ i \notin Contacts!Changed(k, cmd) => contacts'[i] = contacts[i]
<1>1. contacts[i].revision \in Nat
  BY DEF ContactRows
<1>2. CASE i \in Contacts!Changed(k, cmd)
  <2>1. contacts'[i] = Contacts!After(k, cmd, i)
    BY <1>2 DEF SavedBy
  <2> QED BY <1>1, <1>2, <2>1, NextRevision DEF SavedBy
<1>3. CASE i \notin Contacts!Changed(k, cmd)
  <2>1. contacts'[i] = contacts[i]
    BY <1>3 DEF SavedBy
  <2> QED BY <1>1, <1>3, <2>1 DEF ContactRows
<1> QED BY <1>2, <1>3

LEMMA BatchSaves ==
    ASSUME ContactsKept, NEW asked, AskedBy(asked), NEW h \in Workers, Contacts!Batch(h),
           Contacts!Guards(post[h].key, post[h].command)
    PROVE  ContactsKept' /\ AskedBy(asked)'
<1> PICK k : k = post[h].key
  OBVIOUS
<1> PICK cmd : cmd = post[h].command
  OBVIOUS
<1>1. /\ ContactRows /\ Waiting /\ ToldSaved /\ SentOnce /\ Undoes /\ Counted
  BY DEF ContactsKept
<1>2. /\ post[h].pc = "batch" /\ receipts[k] = None /\ SavedBy(k, cmd)
      /\ receipts' = [receipts EXCEPT ![k] = cmd]
      /\ Contacts!Reply(h, "saved") \/ Contacts!To(h, "recheck")
      /\ UNCHANGED <<desk, confirmed, posted>>
  BY BatchSaved DEF Contacts!Batch, Contacts!Others, SavedBy
<1>3. /\ k \in OpKeys /\ posted[k] > 0 /\ cmd = asked[k] /\ WellFormed(cmd)
      /\ cmd.action = "undo" => cmd.batch \in Contacts!Batches
  BY <1>1, <1>2 DEF AskedBy, SavedBy
<1>4. /\ receipts' \in [OpKeys -> Contacts!Commands \cup {None}] /\ receipts'[k] = cmd
      /\ cmd # None /\ \A o \in OpKeys : o # k => receipts'[o] = receipts[o]
  BY <1>1, <1>2, <1>3, ContactFacts DEF ContactRows, WellFormed
<1>5. \E pc \in {"answer", "recheck"} : \E status :
         Turns(h, pc, status) /\ (pc = "answer" => status \in {"saved", "denied"})
  <2>1. CASE Contacts!Reply(h, "saved")
    BY <1>1, <2>1, ReplyTurns
  <2>2. CASE Contacts!To(h, "recheck")
    BY <1>1, <2>2, ToTurns
  <2> QED BY <1>2, <2>1, <2>2
<1> PICK p \in Handlers : /\ post' = [post EXCEPT ![h] = p] /\ p.key = k /\ p.command = cmd
                          /\ p.pc = "recheck" \/ (p.pc = "answer" /\ p.status \in {"saved", "denied"})
  BY <1>5 DEF Turns
<1>6. /\ post'[h] = p /\ \A g \in Workers : g # h => post'[g] = post[g]
  BY <1>1 DEF ContactRows
<1>7. /\ AskedBy(asked)' /\ Waiting'
      /\ post' \in [Workers -> Handlers] /\ posted' \in [OpKeys -> Nat]
      /\ desk' \in [Tabs -> Pendings]
  <2>1. \A o \in OpKeys : receipts'[o] = receipts[o] \/ (receipts'[o] = asked[o] /\ posted[o] > 0)
    BY <1>3, <1>4
  <2> QED BY <1>1, <1>2, <2>1, TurnBinds
<1>8. ASSUME NEW i \in Contacts!Ids
      PROVE  /\ contacts'[i].revision \in Nat
             /\ i \in Contacts!Changed(k, cmd) =>
                   contacts'[i].revision = contacts[i].revision + 1
             /\ i \notin Contacts!Changed(k, cmd) => contacts'[i].revision = contacts[i].revision
  <2>1. /\ contacts[i].revision \in Nat
        /\ i \in Contacts!Changed(k, cmd) =>
              contacts'[i].revision = contacts[i].revision + 1
        /\ i \notin Contacts!Changed(k, cmd) => contacts'[i] = contacts[i]
    BY <1>1, <1>2, SavedRevisions
  <2> QED BY <2>1
<1>9. ContactRows'
  <2>1. contacts' = [i \in Contacts!Ids |-> contacts'[i]]
    BY <1>2 DEF SavedBy
  <2>2. \A i \in Contacts!Ids : contacts'[i] = [status |-> contacts'[i].status,
           revision |-> contacts'[i].revision, profile |-> contacts'[i].profile]
    BY <1>1, <1>2, SavedRevisions
  <2> QED BY <1>4, <1>7, <1>8, <2>1, <2>2 DEF ContactRows
<1>10. ToldSaved'
  <2>1. \A g \in Workers : post'[g].pc = "answer" /\ post'[g].status = "saved" =>
           receipts'[post'[g].key] # None
    <3>1. \A o \in OpKeys : receipts[o] # None => receipts'[o] # None
      BY <1>2, <1>4
    <3> QED BY <1>1, <1>4, <1>6, <1>7, <3>1 DEF ToldSaved, AskedBy
  <2>2. \A c \in confirmed' : c[1] \in OpKeys /\ c[2] # None /\ receipts'[c[1]] = c[2]
    BY <1>1, <1>2, <1>4 DEF ToldSaved
  <2> QED BY <2>1, <2>2 DEF ToldSaved
<1>11. SentOnce'
  <2>1. \A g \in Workers : Sent(g)' => Sent(g) /\ post'[g].key = post[g].key
    BY <1>2, <1>6 DEF Sent
  <2>2. ASSUME NEW g \in Workers, Sent(g)', posted'[post'[g].key] = 1
        PROVE  /\ \A f \in Workers : Sent(f)' /\ post'[f].key = post'[g].key => f = g
               /\ post'[g].pc # "recheck" => receipts'[post'[g].key] = None
    <3>1. \A f \in Workers : Sent(f) /\ post[f].key = post[g].key => f = g
      BY <1>1, <1>2, <2>1, <2>2 DEF SentOnce
    <3>2. post'[g].pc # "recheck" => receipts'[post'[g].key] = None
      <4>1. CASE g = h
        BY <1>6, <2>2, <4>1 DEF Sent
      <4>2. CASE g # h
        <5>1. post[g].key # k /\ post[g].key \in OpKeys /\ post[g].pc # "free"
          BY <1>2, <2>1, <2>2, <3>1, <4>2 DEF AskedBy, Sent
        <5> QED BY <1>1, <1>2, <1>4, <1>6, <2>1, <2>2, <4>2, <5>1 DEF SentOnce
      <4> QED BY <4>1, <4>2
    <3> QED BY <2>1, <2>2, <3>1, <3>2
  <2> QED BY <2>2 DEF SentOnce
<1>12. Undoes'
  <2>1. Contacts!Batches \subseteq Contacts!Batches'
    BY <1>1, <1>2, <1>3, ReceiptAdds
  <2>2. \A g \in Workers : post'[g].pc = "batch" => g # h
    BY <1>6
  <2> QED BY <1>1, <1>3, <1>4, <1>6, <2>1, <2>2 DEF Undoes
<1>13. Counted'
  <2>1. ASSUME NEW i \in Contacts!Ids
        PROVE  contacts'[i].revision = Cardinality(Changers(i)')
    <3>1. /\ Changers(i)' = Changers(i) \cup {o \in {k} : i \in Contacts!Changed(k, cmd)}
          /\ k \notin Changers(i)
      <4>1. k \notin Changers(i)
        BY <1>2 DEF Changers, Contacts!Done
      <4>2. Changers(i)' = Changers(i) \cup {o \in {k} : i \in Contacts!Changed(k, cmd)}
        BY <1>1, <1>2, <1>3, ReceiptCounts
      <4> QED BY <4>1, <4>2
    <3>2. IsFiniteSet(Changers(i))
      BY ContactFacts, FS_Subset DEF Changers, Contacts!Done
    <3>3. contacts[i].revision = Cardinality(Changers(i))
      BY <1>1 DEF Counted
    <3>4. CASE i \in Contacts!Changed(k, cmd)
      <4>1. Changers(i)' = Changers(i) \cup {k}
        BY <3>1, <3>4
      <4>2. Cardinality(Changers(i)') = Cardinality(Changers(i)) + 1
        BY <3>1, <3>2, <4>1, FS_AddElement
      <4> QED BY <1>8, <3>3, <3>4, <4>2
    <3>5. CASE i \notin Contacts!Changed(k, cmd)
      <4>1. Changers(i)' = Changers(i)
        BY <3>1, <3>5
      <4>2. contacts'[i].revision = contacts[i].revision
        BY <1>8, <3>5
      <4> QED BY <3>3, <4>1, <4>2
    <3> QED BY <3>4, <3>5
  <2> QED BY <2>1 DEF Counted
<1> QED BY <1>7, <1>9, <1>10, <1>11, <1>12, <1>13 DEF ContactsKept

ContactsInv == ContactsKept /\ \E asked : AskedBy(asked)

LEMMA NobodyAsked == ASSUME Contacts!ContactsInit PROVE ContactsInv
<1> PICK asked : asked = [k \in OpKeys |-> None]
  OBVIOUS
<1>1. /\ contacts = [i \in Contacts!Ids |-> Contacts!Absent]
      /\ receipts = [k \in OpKeys |-> None] /\ post = [h \in Workers |-> Contacts!NoPost]
      /\ desk = [d \in Tabs |-> Contacts!NoDesk] /\ confirmed = {}
      /\ posted = [k \in OpKeys |-> 0]
  BY DEF Contacts!ContactsInit
<1>2. /\ Contacts!NoPost \in Handlers /\ Contacts!NoDesk \in Pendings
      /\ Contacts!NoPost.pc = "free" /\ Contacts!NoDesk.waits = None
      /\ Contacts!NoDesk.pending = None
  BY DEF Contacts!NoPost, Contacts!NoDesk, Handlers, Pendings
<1>3. ContactRows
  BY <1>1, <1>2 DEF ContactRows, Contacts!Absent
<1>4. AskedBy(asked) /\ Waiting /\ ToldSaved /\ Undoes
  BY <1>1, <1>2 DEF AskedBy, Waiting, ToldSaved, Undoes
<1>5. SentOnce
  BY <1>1, <1>2 DEF SentOnce, Sent
<1>6. Counted
  <2>1. \A i : Changers(i) = {}
    BY <1>1 DEF Changers, Contacts!Done
  <2>2. \A i \in Contacts!Ids : contacts[i].revision = 0
    BY <1>1 DEF Contacts!Absent
  <2> QED BY <2>1, <2>2, FS_EmptySet DEF Counted
<1> QED BY <1>3, <1>4, <1>5, <1>6 DEF ContactsInv, ContactsKept

LEMMA ContactsStep == ASSUME ContactsInv, Contacts!ContactsNext PROVE ContactsInv'
<1> PICK asked : AskedBy(asked)
  BY DEF ContactsInv
<1> ContactsKept
  BY DEF ContactsInv
<1>1. ASSUME NEW d \in Tabs, NEW h \in Workers, Contacts!Save(d, h) \/ Contacts!SaveAgain(d, h)
      PROVE  ContactsInv'
  BY <1>1, TabSaves, TabSavesAgain DEF ContactsInv
<1>2. ASSUME NEW h \in Workers,
             \/ Contacts!Operation(h) \/ Contacts!Prior(h) \/ Contacts!Batch(h)
             \/ Contacts!Recheck(h) \/ Contacts!PostFails(h) \/ Contacts!Unheard(h)
      PROVE  ContactsInv'
  <2>1. ContactsKept' /\ AskedBy(asked)'
    BY <1>2, LooksUp, ReadsPrior, BatchRefused, BatchSaves, Rechecks, HandlerFails, HandlerEnds
  <2> QED BY <2>1 DEF ContactsInv
<1>3. ASSUME NEW d \in Tabs,
             Contacts!Receive(d) \/ Contacts!TimesOut(d) \/ Contacts!Close(d)
      PROVE  ContactsInv'
  <2>1. ContactsKept' /\ AskedBy(asked)'
    BY <1>3, TabReceives, TabLeaves
  <2> QED BY <2>1 DEF ContactsInv
<1>4. CASE Contacts!Exclude
  BY <1>4, Excluded DEF ContactsInv
<1> QED BY <1>1, <1>2, <1>3, <1>4 DEF Contacts!ContactsNext

LEMMA ContactsRest == ASSUME ContactsInv, UNCHANGED contactVars PROVE ContactsInv'
<1> PICK asked : AskedBy(asked)
  BY DEF ContactsInv
<1>1. /\ post' \in [Workers -> Handlers] /\ desk' \in [Tabs -> Pendings]
      /\ UNCHANGED <<contacts, receipts, posted, confirmed, post, desk>>
  BY DEF ContactsInv, ContactsKept, ContactRows, contactVars
<1>2. ContactsKept' /\ AskedBy(asked)'
  BY <1>1, FreedKeeps DEF ContactsInv
<1> QED BY <1>2 DEF ContactsInv

LEMMA ContactsStand == ServicesSpec => []ContactsInv
<1>1. ServicesInit => ContactsInv
  BY NobodyAsked DEF ServicesInit
<1>2. ContactsInv /\ [ServicesNext]_servicesVars => ContactsInv'
  BY ContactsStep, ContactsRest
  DEF ServicesNext, servicesVars, InProposals, InPlay, InAccount, InEvidence, InLibrary, InContacts
<1> QED BY <1>1, <1>2, PTL DEF ServicesSpec

\* A command a tab was told to be saved is, one sent once and refused as changed is not, and a
\* contact has as many revisions as receipts that name it (POST and GET ?operation= of the
\* contacts route, and the controller's save()).
THEOREM ReceiptsTell == ServicesSpec => []ReceiptsTellContacts
<1>1. ContactsInv => ReceiptsTellContacts
  <2> SUFFICES ASSUME ContactsInv PROVE Contacts!ReceiptsTellContacts
    BY DEF ReceiptsTellContacts
  <2>1. \A c \in confirmed : receipts[c[1]] = c[2]
    BY DEF ContactsInv, ContactsKept, ToldSaved
  <2>2. \A h \in Workers : post[h].pc = "answer" /\ post[h].status = "changed"
                             /\ posted[post[h].key] = 1 => receipts[post[h].key] = None
    BY DEF ContactsInv, ContactsKept, SentOnce, Sent
  <2>3. \A S : Contacts!Cardinality(S) = Cardinality(S)
    BY DEF Contacts!Cardinality, Cardinality
  <2>4. \A i \in Contacts!Ids : contacts[i].revision =
           Contacts!Cardinality({k \in Contacts!Done : i \in Contacts!Changed(k, receipts[k])})
    BY <2>3 DEF ContactsInv, ContactsKept, Counted, Changers
  <2> QED BY <2>1, <2>2, <2>4 DEF Contacts!ReceiptsTellContacts
<1> QED BY <1>1, ContactsStand, PTL

-----------------------------------------------------------------------------
(* The firm's contacts: who had reviewed whom.                             *)

\* The command that wrote the contact last, and what was imported or taken back.
Latest(i, k) ==
    /\ k \in Contacts!Writers(i)
    /\ \A o \in Contacts!Writers(i) : o # k => receipts[o].revision < receipts[k].revision
Did(action, i) ==
    \E k \in Contacts!Done : receipts[k].action = action /\ i \in Contacts!Changed(k, receipts[k])

\* A contact is there from its first revision on, which the command of its own key made.
Appeared ==
    \A i \in Contacts!Ids : /\ i \in Contacts!Present => contacts[i].revision > 0
                            /\ contacts[i].revision > 0 => i \in Contacts!Present
                            /\ i \in Contacts!Present => receipts[i[1]] # None
WrittenBefore ==
    /\ \A i \in Contacts!Ids : \A k \in Contacts!Writers(i) :
          receipts[k].revision < contacts[i].revision
    /\ \A i \in Contacts!Present : \E k \in OpKeys : Latest(i, k)
EachReviewed ==
    \A i, o \in Contacts!Present :
        i # o /\ Contacts!Matches(contacts[i].profile, contacts[o].profile) =>
            \A k, l \in OpKeys : Latest(i, k) /\ Latest(o, l) =>
                i \in receipts[l].reviewed \/ o \in receipts[k].reviewed
ImportedAlone ==
    \A i \in Contacts!Ids : Did("import", i) =>
        /\ contacts[i].revision > 0
        /\ contacts[i].revision = 1 => contacts[i].profile.company = None
UndoneFree ==
    \A i \in Contacts!Ids : Did("undo", i) =>
        /\ contacts[i].revision > 1
        /\ contacts[i].revision = 2 =>
              /\ contacts[i].status = "archived"
              /\ \A o \in Contacts!Present : contacts[o].profile.company # i

ReviewsKept == Appeared /\ WrittenBefore /\ EachReviewed /\ ImportedAlone /\ UndoneFree

\* A command that goes through writes the profiles of the contacts it changes, or none.
Writes(cmd) == cmd.action \in {"create", "edit", "import"}

\* As the steps below read the guards of a batch and what it leaves.
LEMMA Guarded ==
    ASSUME NEW k, NEW cmd, SavedBy(k, cmd), NEW i \in Contacts!Ids,
           i \in Contacts!Changed(k, cmd)
    PROVE  /\ Writes(cmd) => Contacts!MayWrite(i, Contacts!Written(k, cmd)[i], cmd.reviewed)
           /\ cmd.action \in {"create", "import"} => i[1] = k
           /\ cmd.action \notin {"create", "import"} => i \in Contacts!Present
           /\ cmd.action = "edit" => i = cmd.id /\ contacts[i].revision = cmd.revision
           /\ cmd.action = "undo" => contacts[i].revision = 1
<1> WellFormed(cmd) /\ Contacts!Guards(k, cmd)
  BY DEF SavedBy
<1>1. CASE cmd.action \in {"create", "import"}
  <2>1. \A o \in DOMAIN Contacts!Written(k, cmd) :
           Contacts!MayWrite(o, Contacts!Written(k, cmd)[o], cmd.reviewed)
    BY <1>1 DEF Contacts!Guards
  <2>2. i \in DOMAIN Contacts!Written(k, cmd)
    BY <1>1 DEF Contacts!Changed
  <2>3. i[1] = k
    BY <1>1, <2>2 DEF Contacts!Written
  <2> QED BY <1>1, <2>1, <2>2, <2>3 DEF Writes
<1>2. CASE cmd.action = "edit"
  <2>1. /\ \A o \in DOMAIN Contacts!Written(k, cmd) :
              Contacts!MayWrite(o, Contacts!Written(k, cmd)[o], cmd.reviewed)
        /\ Contacts!Revises(cmd, "active")
    BY <1>2 DEF Contacts!Guards
  <2>2. i \in DOMAIN Contacts!Written(k, cmd)
    BY <1>2 DEF Contacts!Changed
  <2>3. i = cmd.id
    BY <1>2, <2>2 DEF Contacts!Written
  <2>4. contacts[i].status = "active" /\ contacts[i].revision = cmd.revision
    BY <2>1, <2>3 DEF Contacts!Revises
  <2> QED BY <1>2, <2>1, <2>2, <2>3, <2>4 DEF Contacts!Present
<1>3. CASE cmd.action = "undo"
  BY <1>3 DEF Writes, Contacts!Guards, Contacts!MayUndo, Contacts!Present
<1>4. CASE cmd.action \in {"archive", "restore", "link", "unlink"}
  <2>1. i = cmd.id
    BY <1>4 DEF Contacts!Changed
  <2>2. contacts[cmd.id].status \in {"active", "archived"}
    BY <1>4 DEF Contacts!Guards, Contacts!Revises
  <2> QED BY <1>4, <2>1, <2>2 DEF Writes, Contacts!Present
<1> QED BY <1>1, <1>2, <1>3, <1>4 DEF WellFormed, Contacts!Commands, Contacts!Actions

LEMMA LeftAs ==
    ASSUME ContactRows, NEW k, NEW cmd, WellFormed(cmd), NEW i \in Contacts!Ids
    PROVE  LET c == Contacts!After(k, cmd, i)
           IN  /\ c.status \in {"active", "archived"}
               /\ cmd.action = "undo" => c.status = "archived"
               /\ Writes(cmd) => c.profile = Contacts!Written(k, cmd)[i]
               /\ ~Writes(cmd) => c.profile = contacts[i].profile
<1> PICK o : o = contacts[i]
  OBVIOUS
<1>1. o = [status |-> o.status, revision |-> o.revision, profile |-> o.profile]
      /\ o.revision \in Nat
  BY DEF ContactRows
<1>2. CASE Writes(cmd)
  BY <1>1, <1>2 DEF Contacts!After, Writes
<1>3. CASE cmd.action = "undo"
  <2>1. Contacts!After(k, cmd, i) = [[o EXCEPT !.status = "archived"] EXCEPT !.revision = 2]
    BY <1>1, <1>3 DEF Contacts!After
  <2> PICK c : c = [[o EXCEPT !.status = "archived"] EXCEPT !.revision = 2]
    OBVIOUS
  <2>2. c.status = "archived" /\ c.profile = o.profile
    BY <1>1
  <2>3. Contacts!After(k, cmd, i) = c
    BY <2>1
  <2> QED BY <1>3, <2>2, <2>3 DEF Writes
<1>4. CASE cmd.action = "archive"
  BY <1>1, <1>4 DEF Contacts!After, Writes
<1>5. CASE cmd.action \in {"restore", "link", "unlink"}
  BY <1>1, <1>5 DEF Contacts!After, Writes
<1> QED BY <1>2, <1>3, <1>4, <1>5 DEF WellFormed, Contacts!Commands, Contacts!Actions, Writes

\* The writers of a contact and the commands done to it, after one more.
LEMMA WritersAdd ==
    ASSUME ContactRows, Undoes, NEW k, NEW cmd, SavedBy(k, cmd), NEW i
    PROVE  /\ Contacts!Writers(i)' = Contacts!Writers(i) \cup
                 {o \in {k} : Writes(cmd) /\ i \in Contacts!Changed(k, cmd)}
           /\ \A o \in Contacts!Writers(i) : o # k /\ o \in OpKeys /\ receipts'[o] = receipts[o]
           /\ receipts'[k] = cmd
<1>1. /\ Contacts!Done' = Contacts!Done \cup {k}
      /\ \A o \in Contacts!Done : o # k /\ receipts'[o] = receipts[o]
      /\ \A o \in Contacts!Done :
            Contacts!Changed(o, receipts[o])' = Contacts!Changed(o, receipts[o])
      /\ Contacts!Changed(k, receipts[k])' = Contacts!Changed(k, cmd)
  BY SavedAdds
<1>2. receipts'[k] = cmd
  BY DEF SavedBy, ContactRows
<1> QED BY <1>1, <1>2 DEF Contacts!Writers, Writes, Contacts!Done

LEMMA DidAdd ==
    ASSUME ContactRows, Undoes, NEW k, NEW cmd, SavedBy(k, cmd), NEW action, NEW i,
           Did(action, i)'
    PROVE  Did(action, i) \/ (cmd.action = action /\ i \in Contacts!Changed(k, cmd))
<1>1. /\ Contacts!Done' = Contacts!Done \cup {k}
      /\ \A o \in Contacts!Done : o # k /\ receipts'[o] = receipts[o]
      /\ \A o \in Contacts!Done :
            Contacts!Changed(o, receipts[o])' = Contacts!Changed(o, receipts[o])
      /\ Contacts!Changed(k, receipts[k])' = Contacts!Changed(k, cmd)
  BY SavedAdds
<1>2. receipts'[k] = cmd
  BY DEF SavedBy, ContactRows
<1> QED BY <1>1, <1>2 DEF Did

\* What is made under a key was not there, and nobody wrote it.
LEMMA Fresh ==
    ASSUME ContactRows, Counted, Appeared, NEW k, NEW cmd, SavedBy(k, cmd),
           NEW i \in Contacts!Ids, i \in Contacts!Changed(k, cmd),
           cmd.action \in {"create", "import"}
    PROVE  i \notin Contacts!Present /\ contacts[i].revision = 0 /\ Contacts!Writers(i) = {}
<1>1. i[1] = k /\ receipts[k] = None
  <2>1. i[1] = k
    BY Guarded
  <2>2. receipts[k] = None
    BY DEF SavedBy
  <2> QED BY <2>1, <2>2
<1>2. i \notin Contacts!Present /\ contacts[i].revision = 0
  BY <1>1 DEF Appeared, ContactRows
<1>3. IsFiniteSet(Changers(i))
  BY ContactFacts, FS_Subset DEF Changers, Contacts!Done
<1>4. Changers(i) = {}
  BY <1>2, <1>3, FS_EmptySet DEF Counted
<1> QED BY <1>2, <1>4 DEF Changers, Contacts!Writers

\* Only a command that writes a contact makes it present or gives it another latest writer.
LEMMA Unwritten ==
    ASSUME ContactRows, Undoes, Counted, Appeared, NEW k, NEW cmd, SavedBy(k, cmd),
           NEW i \in Contacts!Ids, ~(Writes(cmd) /\ i \in Contacts!Changed(k, cmd))
    PROVE  /\ contacts'[i].profile = contacts[i].profile
           /\ i \in Contacts!Present' => i \in Contacts!Present
           /\ Contacts!Writers(i)' = Contacts!Writers(i)
           /\ \A l \in OpKeys : /\ Latest(i, l) => Latest(i, l)'
                                /\ Latest(i, l)' => Latest(i, l) /\ receipts'[l] = receipts[l]
<1>1. /\ contacts'[i].profile = contacts[i].profile
      /\ i \in Contacts!Present' => i \in Contacts!Present
  <2>1. CASE i \in Contacts!Changed(k, cmd)
    <3>1. contacts'[i] = Contacts!After(k, cmd, i)
      BY <2>1, SavedRevisions
    <3>2. contacts'[i].profile = contacts[i].profile
      BY <2>1, <3>1, LeftAs DEF SavedBy
    <3>3. i \in Contacts!Present
      BY <2>1, Guarded DEF Writes
    <3> QED BY <3>2, <3>3
  <2>2. CASE i \notin Contacts!Changed(k, cmd)
    <3>1. contacts'[i] = contacts[i]
      BY <2>2, SavedRevisions
    <3> QED BY <3>1 DEF Contacts!Present
  <2> QED BY <2>1, <2>2
<1>2. /\ Contacts!Writers(i)' = Contacts!Writers(i)
      /\ \A o \in Contacts!Writers(i) : receipts'[o] = receipts[o]
  BY WritersAdd
<1> QED BY <1>1, <1>2 DEF Latest

\* The command that writes a contact is its latest writer.
LEMMA WrittenLast ==
    ASSUME ContactRows, Undoes, Counted, Appeared, WrittenBefore, NEW k, NEW cmd, SavedBy(k, cmd),
           NEW i \in Contacts!Ids, Writes(cmd), i \in Contacts!Changed(k, cmd)
    PROVE  /\ contacts'[i].profile = Contacts!Written(k, cmd)[i]
           /\ Latest(i, k)' /\ receipts'[k] = cmd
           /\ \A l \in OpKeys : Latest(i, l)' => l = k
           /\ cmd.revision < contacts'[i].revision
<1>1. contacts'[i] = Contacts!After(k, cmd, i)
      /\ contacts'[i].revision = contacts[i].revision + 1 /\ contacts[i].revision \in Nat
  BY SavedRevisions
<1>2. contacts'[i].profile = Contacts!Written(k, cmd)[i]
  BY <1>1, LeftAs DEF SavedBy
<1>3. /\ Contacts!Writers(i)' = Contacts!Writers(i) \cup {k}
      /\ \A o \in Contacts!Writers(i) : o # k /\ o \in OpKeys /\ receipts'[o] = receipts[o]
      /\ receipts'[k] = cmd
  BY WritersAdd
<1>4. /\ cmd.revision \in Nat /\ cmd.revision < contacts'[i].revision
      /\ \A o \in Contacts!Writers(i) :
            receipts[o].revision < cmd.revision /\ receipts[o].revision \in Nat
  <2>1. cmd.revision \in Nat /\ (cmd.action \in {"create", "import"} => cmd.revision = 0)
    BY DEF SavedBy, WellFormed, Contacts!Commands
  <2>2. CASE cmd.action \in {"create", "import"}
    BY <1>1, <2>1, <2>2, Fresh
  <2>3. CASE cmd.action = "edit"
    <3>1. contacts[i].revision = cmd.revision
      BY <2>3, Guarded
    <3>2. \A o \in Contacts!Writers(i) : receipts[o].revision < contacts[i].revision
      BY DEF WrittenBefore
    <3>3. \A o \in Contacts!Writers(i) : receipts[o].revision \in Nat
      <4>1. \A o \in OpKeys : receipts[o] # None => receipts[o] \in Contacts!Commands
        BY DEF ContactRows
      <4> QED BY <4>1 DEF Contacts!Writers, Contacts!Done, Contacts!Commands
    <3> QED BY <1>1, <2>1, <3>1, <3>2, <3>3
  <2> QED BY <2>2, <2>3 DEF Writes
<1>5. Latest(i, k)'
  BY <1>3, <1>4 DEF Latest
<1>6. ASSUME NEW l \in OpKeys, Latest(i, l)', l # k PROVE FALSE
  <2>1. l \in Contacts!Writers(i) /\ receipts'[k].revision < receipts'[l].revision
    BY <1>3, <1>6 DEF Latest
  <2> QED BY <1>3, <1>4, <2>1
<1> QED BY <1>2, <1>3, <1>4, <1>5, <1>6

LEMMA AppearedKept ==
    ASSUME ContactRows, Appeared, NEW k, NEW cmd, SavedBy(k, cmd)
    PROVE  Appeared'
<1>1. /\ \A o \in OpKeys : receipts[o] # None => receipts'[o] # None
      /\ k \in OpKeys /\ receipts'[k] # None
  BY ContactFacts DEF ContactRows, SavedBy, WellFormed
<1>2. ASSUME NEW i \in Contacts!Ids
      PROVE  /\ i \in Contacts!Present' => contacts'[i].revision > 0
             /\ contacts'[i].revision > 0 => i \in Contacts!Present'
             /\ i \in Contacts!Present' => receipts'[i[1]] # None
  <2>1. i[1] \in OpKeys
    BY DEF Contacts!Ids
  <2>2. CASE i \in Contacts!Changed(k, cmd)
    <3>1. contacts'[i] = Contacts!After(k, cmd, i)
          /\ contacts'[i].revision = contacts[i].revision + 1 /\ contacts[i].revision \in Nat
      BY <2>2, SavedRevisions
    <3>2. contacts'[i].status \in {"active", "archived"}
      BY <3>1, LeftAs DEF SavedBy
    <3>3. i[1] = k \/ i \in Contacts!Present
      BY <2>2, Guarded
    <3> QED BY <1>1, <2>1, <3>1, <3>2, <3>3 DEF Contacts!Present, Appeared
  <2>3. CASE i \notin Contacts!Changed(k, cmd)
    <3>1. contacts'[i] = contacts[i]
      BY <2>3, SavedRevisions
    <3> QED BY <1>1, <2>1, <3>1 DEF Contacts!Present, Appeared
  <2> QED BY <2>2, <2>3
<1> QED BY <1>2 DEF Appeared

LEMMA WrittenKept ==
    ASSUME ContactRows, Undoes, Counted, Appeared, WrittenBefore, NEW k, NEW cmd, SavedBy(k, cmd)
    PROVE  WrittenBefore'
<1>1. ASSUME NEW i \in Contacts!Ids, NEW o \in Contacts!Writers(i)'
      PROVE  receipts'[o].revision < contacts'[i].revision
  <2>1. CASE Writes(cmd) /\ i \in Contacts!Changed(k, cmd)
    <3>1. /\ contacts'[i].revision = contacts[i].revision + 1 /\ contacts[i].revision \in Nat
      BY <2>1, SavedRevisions
    <3>2. o = k \/ (o \in Contacts!Writers(i) /\ receipts'[o] = receipts[o])
      BY <2>1, <1>1, WritersAdd
    <3>3. CASE o = k
      BY <2>1, <3>3, WrittenLast
    <3>4. CASE o \in Contacts!Writers(i) /\ receipts'[o] = receipts[o]
      <4>1. receipts[o].revision < contacts[i].revision
        BY <3>4 DEF WrittenBefore
      <4>2. receipts[o].revision \in Nat
        <5>1. receipts[o] \in Contacts!Commands
          BY <3>4 DEF ContactRows, Contacts!Writers, Contacts!Done
        <5> QED BY <5>1 DEF Contacts!Commands
      <4> QED BY <3>1, <3>4, <4>1, <4>2
    <3> QED BY <3>2, <3>3, <3>4
  <2>2. CASE ~(Writes(cmd) /\ i \in Contacts!Changed(k, cmd))
    <3>1. o \in Contacts!Writers(i) /\ receipts'[o] = receipts[o]
      BY <2>2, <1>1, WritersAdd
    <3>2. receipts[o].revision < contacts[i].revision /\ receipts[o].revision \in Nat
      <4>1. receipts[o] \in Contacts!Commands
        BY <3>1 DEF ContactRows, Contacts!Writers, Contacts!Done
      <4> QED BY <3>1, <4>1 DEF WrittenBefore, Contacts!Commands
    <3>3. contacts[i].revision \in Nat
          /\ (contacts'[i].revision = contacts[i].revision
                \/ contacts'[i].revision = contacts[i].revision + 1)
      BY SavedRevisions
    <3> QED BY <3>1, <3>2, <3>3
  <2> QED BY <2>1, <2>2
<1>2. ASSUME NEW i \in Contacts!Present' PROVE \E l \in OpKeys : Latest(i, l)'
  <2>1. i \in Contacts!Ids
    BY DEF Contacts!Present
  <2>2. CASE Writes(cmd) /\ i \in Contacts!Changed(k, cmd)
    BY <2>1, <2>2, WrittenLast DEF SavedBy
  <2>3. CASE ~(Writes(cmd) /\ i \in Contacts!Changed(k, cmd))
    <3>1. PICK l \in OpKeys : Latest(i, l)
      BY <1>2, <2>1, <2>3, Unwritten DEF WrittenBefore
    <3>2. Latest(i, l)'
      BY <2>1, <2>3, <3>1, Unwritten
    <3> QED BY <3>2
  <2> QED BY <2>2, <2>3
<1> QED BY <1>1, <1>2 DEF WrittenBefore

LEMMA ReviewedKept ==
    ASSUME ContactRows, Undoes, Counted, Appeared, WrittenBefore, EachReviewed,
           NEW k, NEW cmd, SavedBy(k, cmd)
    PROVE  EachReviewed'
<1> DEFINE Wrote(i) == Writes(cmd) /\ i \in Contacts!Changed(k, cmd)
<1>1. ASSUME NEW i \in Contacts!Ids, NEW o \in Contacts!Ids, i # o, Wrote(i), ~Wrote(o),
             o \in Contacts!Present',
             Contacts!Matches(contacts'[o].profile, contacts'[i].profile),
             NEW l \in OpKeys, Latest(i, l)'
      PROVE  o \in receipts'[l].reviewed
  <2>1. l = k /\ receipts'[k] = cmd /\ contacts'[i].profile = Contacts!Written(k, cmd)[i]
    BY <1>1, WrittenLast
  <2>2. o \in Contacts!Present /\ contacts'[o].profile = contacts[o].profile
    BY <1>1, Unwritten
  <2>3. Contacts!MayWrite(i, Contacts!Written(k, cmd)[i], cmd.reviewed)
    BY <1>1, Guarded
  <2> QED BY <1>1, <2>1, <2>2, <2>3 DEF Contacts!MayWrite
<1>2. ASSUME NEW i \in Contacts!Ids, NEW o \in Contacts!Ids, i # o, Wrote(i), Wrote(o)
      PROVE  ~Contacts!Matches(contacts'[i].profile, contacts'[o].profile)
  <2>1. /\ contacts'[i].profile = Contacts!Written(k, cmd)[i]
        /\ contacts'[o].profile = Contacts!Written(k, cmd)[o]
    BY <1>2, WrittenLast
  <2>2. CASE cmd.action = "edit"
    BY <1>2, <2>2, Guarded
  <2>3. CASE cmd.action \in {"create", "import"}
    <3>1. {i, o} \subseteq {<<k, n>> : n \in DOMAIN cmd.profiles}
      BY <1>2, <2>3 DEF Contacts!Changed, Contacts!Written
    <3>2. PICK m \in DOMAIN cmd.profiles : i = <<k, m>>
      BY <3>1
    <3>3. PICK n \in DOMAIN cmd.profiles : o = <<k, n>>
      BY <3>1
    <3>4. m # n /\ i[2] = m /\ o[2] = n
      BY <1>2, <3>2, <3>3
    <3>5. cmd.action = "import" /\ ~Contacts!Matches(cmd.profiles[m], cmd.profiles[n])
      BY <2>3, <3>4 DEF SavedBy, WellFormed
    <3>6. /\ Contacts!Written(k, cmd)[i] = cmd.profiles[m]
          /\ Contacts!Written(k, cmd)[o] = cmd.profiles[n]
      BY <3>1, <3>4, <3>5 DEF Contacts!Written
    <3> QED BY <2>1, <3>5, <3>6
  <2> QED BY <1>2, <2>2, <2>3 DEF Writes
<1> HIDE DEF Wrote
<1>3. ASSUME NEW i \in Contacts!Present', NEW o \in Contacts!Present', i # o,
             Contacts!Matches(contacts'[i].profile, contacts'[o].profile),
             NEW l \in OpKeys, NEW m \in OpKeys, Latest(i, l)', Latest(o, m)'
      PROVE  i \in receipts'[m].reviewed \/ o \in receipts'[l].reviewed
  <2>1. /\ i \in Contacts!Ids /\ o \in Contacts!Ids
        /\ Contacts!Matches(contacts'[o].profile, contacts'[i].profile)
    BY <1>3 DEF Contacts!Present, Contacts!Matches
  <2>2. CASE Wrote(i) /\ ~Wrote(o)
    BY <1>1, <1>3, <2>1, <2>2
  <2>3. CASE Wrote(o) /\ ~Wrote(i)
    BY <1>1, <1>3, <2>1, <2>3
  <2>4. CASE Wrote(i) /\ Wrote(o)
    BY <1>2, <1>3, <2>1, <2>4
  <2>5. CASE ~Wrote(i) /\ ~Wrote(o)
    <3>1. /\ i \in Contacts!Present /\ contacts'[i].profile = contacts[i].profile
          /\ Latest(i, l) /\ receipts'[l] = receipts[l]
      BY <1>3, <2>1, <2>5, Unwritten DEF Wrote
    <3>2. /\ o \in Contacts!Present /\ contacts'[o].profile = contacts[o].profile
          /\ Latest(o, m) /\ receipts'[m] = receipts[m]
      BY <1>3, <2>1, <2>5, Unwritten DEF Wrote
    <3> QED BY <1>3, <3>1, <3>2 DEF EachReviewed
  <2> QED BY <2>2, <2>3, <2>4, <2>5
<1> QED BY <1>3 DEF EachReviewed

LEMMA ImportsKept ==
    ASSUME ContactRows, Undoes, Counted, Appeared, ImportedAlone,
           NEW k, NEW cmd, SavedBy(k, cmd)
    PROVE  ImportedAlone'
<1>1. ASSUME NEW i \in Contacts!Ids, Did("import", i)'
      PROVE  /\ contacts'[i].revision > 0
             /\ contacts'[i].revision = 1 => contacts'[i].profile.company = None
  <2>1. Did("import", i) \/ (cmd.action = "import" /\ i \in Contacts!Changed(k, cmd))
    BY <1>1, DidAdd
  <2>2. CASE cmd.action = "import" /\ i \in Contacts!Changed(k, cmd)
    <3>1. contacts'[i] = Contacts!After(k, cmd, i)
          /\ contacts'[i].revision = contacts[i].revision + 1 /\ contacts[i].revision \in Nat
      BY <2>2, SavedRevisions
    <3>2. contacts'[i].profile = Contacts!Written(k, cmd)[i]
      BY <2>2, <3>1, LeftAs DEF SavedBy, Writes
    <3>3. PICK n \in DOMAIN cmd.profiles : i = <<k, n>>
      BY <2>2 DEF Contacts!Changed, Contacts!Written
    <3>4. Contacts!Written(k, cmd)[i] = cmd.profiles[n]
      BY <2>2, <3>3 DEF Contacts!Written
    <3>5. cmd.profiles[n].company = None
      BY <2>2 DEF SavedBy, WellFormed
    <3> QED BY <3>1, <3>2, <3>4, <3>5
  <2>3. CASE Did("import", i) /\ i \in Contacts!Changed(k, cmd)
    <3>1. contacts'[i].revision = contacts[i].revision + 1 /\ contacts[i].revision \in Nat
      BY <2>3, SavedRevisions
    <3>2. contacts[i].revision > 0
      BY <2>3 DEF ImportedAlone
    <3> QED BY <3>1, <3>2
  <2>4. CASE Did("import", i) /\ i \notin Contacts!Changed(k, cmd)
    <3>1. contacts'[i] = contacts[i]
      BY <2>4, SavedRevisions
    <3> QED BY <2>4, <3>1 DEF ImportedAlone
  <2> QED BY <2>1, <2>2, <2>3, <2>4
<1> QED BY <1>1 DEF ImportedAlone

LEMMA UndoneKept ==
    ASSUME ContactRows, Undoes, Counted, Appeared, WrittenBefore, ImportedAlone, UndoneFree,
           NEW k, NEW cmd, SavedBy(k, cmd)
    PROVE  UndoneFree'
<1>1. ASSUME NEW i \in Contacts!Ids, Did("undo", i)'
      PROVE  /\ contacts'[i].revision > 1
             /\ contacts'[i].revision = 2 =>
                   /\ contacts'[i].status = "archived"
                   /\ \A o \in Contacts!Present' : contacts'[o].profile.company # i
  <2>1. Did("undo", i) \/ (cmd.action = "undo" /\ i \in Contacts!Changed(k, cmd))
    BY <1>1, DidAdd
  <2>2. CASE cmd.action = "undo" /\ i \in Contacts!Changed(k, cmd)
    <3>1. contacts'[i] = Contacts!After(k, cmd, i)
          /\ contacts'[i].revision = contacts[i].revision + 1 /\ contacts[i].revision = 1
      <4>1. contacts[i].revision = 1
        BY <2>2, Guarded
      <4>2. contacts'[i] = Contacts!After(k, cmd, i)
            /\ contacts'[i].revision = contacts[i].revision + 1
        BY <2>2, SavedRevisions
      <4> QED BY <4>1, <4>2
    <3>2. contacts'[i].status = "archived"
      BY <2>2, <3>1, LeftAs DEF SavedBy
    <3>3. ASSUME NEW o \in Contacts!Present' PROVE contacts'[o].profile.company # i
      <4>1. o \in Contacts!Ids
        BY DEF Contacts!Present
      <4>2. o \in Contacts!Present /\ contacts'[o].profile = contacts[o].profile
        BY <2>2, <3>3, <4>1, Unwritten DEF Writes
      <4>3. CASE o \in Contacts!Changed(k, cmd)
        <5>1. Did("import", o)
          <6>1. cmd.batch \in Contacts!Done /\ receipts[cmd.batch].action = "import"
            BY <2>2 DEF SavedBy, Contacts!Batches, Contacts!Done
          <6> PICK r : r = receipts[cmd.batch]
            OBVIOUS
          <6>2. o \in DOMAIN Contacts!Written(cmd.batch, r)
            BY <2>2, <4>3 DEF Contacts!Changed
          <6>3. o \in Contacts!Changed(cmd.batch, receipts[cmd.batch])
            BY <6>1, <6>2 DEF Contacts!Changed
          <6> QED BY <6>1, <6>3 DEF Did
        <5>2. contacts[o].revision = 1
          BY <2>2, <4>1, <4>3, Guarded
        <5> QED BY <4>1, <4>2, <5>1, <5>2, ContactFacts DEF ImportedAlone
      <4>4. CASE o \notin Contacts!Changed(k, cmd)
        <5>1. Contacts!MayUndo(Contacts!Changed(k, cmd))
          BY <2>2 DEF SavedBy, Contacts!Guards
        <5> QED BY <2>2, <4>2, <4>4, <5>1 DEF Contacts!MayUndo
      <4> QED BY <4>3, <4>4
    <3> QED BY <3>1, <3>2, <3>3
  <2>3. CASE Did("undo", i) /\ i \in Contacts!Changed(k, cmd)
    <3>1. contacts'[i].revision = contacts[i].revision + 1 /\ contacts[i].revision \in Nat
      BY <2>3, SavedRevisions
    <3>2. contacts[i].revision > 1
      BY <2>3 DEF UndoneFree
    <3> QED BY <3>1, <3>2
  <2>4. CASE Did("undo", i) /\ i \notin Contacts!Changed(k, cmd)
    <3>1. contacts'[i] = contacts[i]
      BY <2>4, SavedRevisions
    <3>2. contacts[i].revision > 1
      BY <2>4 DEF UndoneFree
    <3>3. ASSUME NEW o \in Contacts!Present', contacts[i].revision = 2
          PROVE  contacts'[o].profile.company # i
      <4>1. o \in Contacts!Ids
        BY DEF Contacts!Present
      <4>2. /\ contacts[i].status = "archived"
            /\ o \in Contacts!Present => contacts[o].profile.company # i
        BY <2>4, <3>3 DEF UndoneFree
      <4>3. CASE Writes(cmd) /\ o \in Contacts!Changed(k, cmd)
        <5>1. contacts'[o].profile = Contacts!Written(k, cmd)[o]
          BY <4>1, <4>3, WrittenLast
        <5>2. Contacts!MayWrite(o, Contacts!Written(k, cmd)[o], cmd.reviewed)
          BY <4>1, <4>3, Guarded
        <5> QED BY <4>2, <5>1, <5>2, ContactFacts DEF Contacts!MayWrite
      <4>4. CASE ~(Writes(cmd) /\ o \in Contacts!Changed(k, cmd))
        BY <3>3, <4>1, <4>2, <4>4, Unwritten
      <4> QED BY <4>3, <4>4
    <3>4. contacts[i].revision = 2 => contacts[i].status = "archived"
      BY <2>4 DEF UndoneFree
    <3> QED BY <3>1, <3>2, <3>3, <3>4
  <2> QED BY <2>1, <2>2, <2>3, <2>4
<1> QED BY <1>1 DEF UndoneFree

ReviewInv == ContactsInv /\ ReviewsKept

LEMMA ReviewsRest ==
    ASSUME ReviewsKept, UNCHANGED <<contacts, receipts>> PROVE ReviewsKept'
<1>1. /\ Contacts!Done' = Contacts!Done /\ Contacts!Present' = Contacts!Present
      /\ \A i : contacts'[i] = contacts[i] /\ receipts'[i] = receipts[i]
  BY DEF Contacts!Done, Contacts!Present
<1>2. \A o \in Contacts!Done :
         Contacts!Changed(o, receipts[o])' = Contacts!Changed(o, receipts[o])
  BY DEF Contacts!Changed
<1>3. ASSUME NEW i PROVE Contacts!Writers(i)' = Contacts!Writers(i)
  BY <1>1, <1>2 DEF Contacts!Writers
<1>4. ASSUME NEW i, NEW k PROVE Latest(i, k)' <=> Latest(i, k)
  BY <1>1, <1>3 DEF Latest
<1>5. ASSUME NEW i, NEW action PROVE Did(action, i)' <=> Did(action, i)
  BY <1>1, <1>2 DEF Did
<1>6. Appeared'
  BY <1>1 DEF ReviewsKept, Appeared
<1>7. WrittenBefore'
  BY <1>1, <1>3, <1>4 DEF ReviewsKept, WrittenBefore
<1>8. EachReviewed'
  BY <1>1, <1>4 DEF ReviewsKept, EachReviewed
<1>9. ImportedAlone' /\ UndoneFree'
  BY <1>1, <1>5 DEF ReviewsKept, ImportedAlone, UndoneFree
<1> QED BY <1>6, <1>7, <1>8, <1>9 DEF ReviewsKept

\* Only a batch that goes through changes the tables.
LEMMA TablesStay ==
    ASSUME Contacts!ContactsNext,
           \A h \in Workers : Contacts!Batch(h) =>
              ~Contacts!Guards(post[h].key, post[h].command)
    PROVE  UNCHANGED <<contacts, receipts>>
BY DEF Contacts!ContactsNext, Contacts!Save, Contacts!SaveAgain, Contacts!Send,
       Contacts!Operation, Contacts!Prior, Contacts!Batch, Contacts!Recheck, Contacts!PostFails,
       Contacts!Unheard, Contacts!Receive, Contacts!TimesOut, Contacts!Close, Contacts!Leave,
       Contacts!Exclude, Contacts!Tables

LEMMA ReviewsStep == ASSUME ReviewInv, Contacts!ContactsNext PROVE ReviewsKept'
<1>1. ASSUME NEW h \in Workers, Contacts!Batch(h),
             Contacts!Guards(post[h].key, post[h].command)
      PROVE  ReviewsKept'
  <2> PICK asked : AskedBy(asked)
    BY DEF ReviewInv, ContactsInv
  <2> PICK k, cmd : SavedBy(k, cmd)
    BY <1>1, BatchSaved DEF ReviewInv, ContactsInv
  <2>1. /\ ContactRows /\ Undoes /\ Counted /\ Appeared /\ WrittenBefore /\ EachReviewed
        /\ ImportedAlone /\ UndoneFree
    BY DEF ReviewInv, ContactsInv, ContactsKept, ReviewsKept
  <2> QED BY <2>1, AppearedKept, WrittenKept, ReviewedKept, ImportsKept, UndoneKept
          DEF ReviewsKept
<1>2. CASE \A h \in Workers : Contacts!Batch(h) =>
              ~Contacts!Guards(post[h].key, post[h].command)
  BY <1>2, TablesStay, ReviewsRest DEF ReviewInv
<1> QED BY <1>1, <1>2

LEMMA ReviewsStand == ServicesSpec => []ReviewInv
<1>1. ServicesInit => ReviewInv
  <2> SUFFICES ASSUME Contacts!ContactsInit PROVE ReviewsKept
    BY NobodyAsked DEF ServicesInit, ReviewInv
  <2>1. Contacts!Done = {} /\ Contacts!Present = {}
        /\ \A i \in Contacts!Ids : contacts[i].revision = 0
    BY DEF Contacts!ContactsInit, Contacts!Done, Contacts!Present, Contacts!Absent
  <2> QED BY <2>1 DEF ReviewsKept, Appeared, WrittenBefore, EachReviewed, ImportedAlone,
                      UndoneFree, Did, Contacts!Writers
<1>2. ReviewInv /\ [ServicesNext]_servicesVars => ReviewInv'
  <2> SUFFICES ASSUME ReviewInv, [ServicesNext]_servicesVars PROVE ReviewInv'
    OBVIOUS
  <2>1. CASE Contacts!ContactsNext
    BY <2>1, ContactsStep, ReviewsStep DEF ReviewInv
  <2>2. CASE UNCHANGED contactVars
    BY <2>2, ContactsRest, ReviewsRest DEF ReviewInv, contactVars
  <2> QED
    BY <2>1, <2>2 DEF ServicesNext, servicesVars, InProposals, InPlay, InAccount, InEvidence,
                      InLibrary, InContacts
<1> QED BY <1>1, <1>2, PTL DEF ServicesSpec

\* Of two contacts that match, whoever wrote the later profile had reviewed the other; and what an
\* undone import leaves is nobody's company until it is restored (addProfile and the undo of the
\* contacts route, whatever tab saw what).
THEOREM MatchesAreReviewed == ServicesSpec => []MatchesReviewed
<1>1. ReviewInv => MatchesReviewed
  <2> SUFFICES ASSUME ReviewInv PROVE Contacts!MatchesReviewed
    BY DEF MatchesReviewed
  <2> ContactRows /\ WrittenBefore /\ EachReviewed /\ UndoneFree
    BY DEF ReviewInv, ReviewsKept, ContactsInv, ContactsKept
  <2>1. ASSUME NEW i \in Contacts!Present
        PROVE  \E k \in OpKeys : Latest(i, k) /\ Contacts!Reviewed(i) = receipts[k].reviewed
    <3> PICK k \in OpKeys : Latest(i, k)
      BY DEF WrittenBefore
    <3> DEFINE Last(o) == \A p \in Contacts!Writers(i) :
                              receipts[p].revision <= receipts[o].revision
    <3>1. ASSUME NEW o \in Contacts!Writers(i) PROVE receipts[o].revision \in Nat
      <4>1. receipts[o] \in Contacts!Commands
        BY DEF ContactRows, Contacts!Writers, Contacts!Done
      <4> QED BY <4>1 DEF Contacts!Commands
    <3>2. k \in Contacts!Writers(i) /\ Last(k)
      BY <3>1 DEF Latest
    <3>3. \A o \in Contacts!Writers(i) : Last(o) => o = k
      BY <3>1 DEF Latest
    <3>4. (CHOOSE o \in Contacts!Writers(i) : Last(o)) = k
      BY <3>2, <3>3
    <3> QED BY <3>4 DEF Contacts!Reviewed
  <2>2. \A i, o \in Contacts!Present :
           i # o /\ Contacts!Matches(contacts[i].profile, contacts[o].profile) =>
              i \in Contacts!Reviewed(o) \/ o \in Contacts!Reviewed(i)
    <3>1. ASSUME NEW i \in Contacts!Present, NEW o \in Contacts!Present, i # o,
                 Contacts!Matches(contacts[i].profile, contacts[o].profile)
          PROVE  i \in Contacts!Reviewed(o) \/ o \in Contacts!Reviewed(i)
      <4>1. PICK k \in OpKeys : Latest(i, k) /\ Contacts!Reviewed(i) = receipts[k].reviewed
        BY <2>1
      <4>2. PICK l \in OpKeys : Latest(o, l) /\ Contacts!Reviewed(o) = receipts[l].reviewed
        BY <2>1
      <4> QED BY <3>1, <4>1, <4>2 DEF EachReviewed
    <3> QED BY <3>1
  <2>3. ASSUME NEW k \in Contacts!Done, receipts[k].action = "undo",
               NEW i \in Contacts!Changed(k, receipts[k]), contacts[i].revision = 2,
               NEW o \in Contacts!Present
        PROVE  contacts[o].profile.company # i
    <3>1. i \in Contacts!Ids
      <4> PICK r : r = receipts[k]
        OBVIOUS
      <4> PICK q : q = receipts[r.batch]
        OBVIOUS
      <4>1. r.batch \in OpKeys /\ q.action = "import" /\ WellFormed(q)
        BY <2>3 DEF ReviewInv, ContactsInv, ContactsKept, Undoes, AskedBy, Contacts!Done,
                    Contacts!Batches
      <4>2. i \in DOMAIN Contacts!Written(r.batch, q)
        BY <2>3 DEF Contacts!Changed
      <4>3. PICK n \in DOMAIN q.profiles : i = <<r.batch, n>>
        BY <4>1, <4>2 DEF Contacts!Written
      <4>4. n \in 1..MaxImport
        BY <4>1, <4>3 DEF WellFormed
      <4> QED BY <4>1, <4>3, <4>4 DEF Contacts!Ids
    <3>2. Did("undo", i)
      BY <2>3 DEF Did
    <3> QED BY <2>3, <3>1, <3>2 DEF UndoneFree
  <2> QED BY <2>2, <2>3 DEF Contacts!MatchesReviewed
<1> QED BY <1>1, ReviewsStand, PTL

-----------------------------------------------------------------------------
(* The firm's contacts: each of them is a ledger of its own.               *)

\* The revision of a contact that a command saw.  What it creates or imports was not there; what
\* it undoes is as it was imported.
SeenRevision(cmd) ==
    CASE cmd.action \in {"create", "import"} -> 0
      [] cmd.action = "undo"                 -> 1
      [] OTHER                               -> cmd.revision

ContactEntry(k) == [key |-> k, expected |-> SeenRevision(receipts[k]), command |-> receipts[k]]

\* The revisions of one contact, whatever handlers and tabs save them, as the ledger of
\* MatterLedger: its entries are the receipts of the commands that change it.
ContactLedger(i) == INSTANCE MatterLedger WITH
    Entries  <- [key : OpKeys, expected : Nat, command : Contacts!Commands],
    Origin   <- 0,
    revision <- contacts[i].revision,
    log      <- {ContactEntry(k) : k \in Changers(i)}

\* A command that changes a contact saw it at the revision it has.
LEMMA SeenIsCurrent ==
    ASSUME ContactRows, Counted, Appeared, NEW k, NEW cmd, SavedBy(k, cmd),
           NEW i \in Contacts!Ids, i \in Contacts!Changed(k, cmd)
    PROVE  SeenRevision(cmd) = contacts[i].revision
<1>1. CASE cmd.action \in {"create", "import"}
  BY <1>1, Fresh DEF SeenRevision
<1>2. CASE cmd.action = "undo"
  BY <1>2, Guarded DEF SeenRevision
<1>3. CASE cmd.action = "edit"
  BY <1>3, Guarded DEF SeenRevision
<1>4. CASE cmd.action \in {"archive", "restore", "link", "unlink"}
  <2>1. i = cmd.id
    BY <1>4 DEF Contacts!Changed
  <2>2. contacts[cmd.id].revision = cmd.revision
    BY <1>4 DEF SavedBy, Contacts!Guards, Contacts!Revises
  <2> QED BY <1>4, <2>1, <2>2 DEF SeenRevision
<1> QED BY <1>1, <1>2, <1>3, <1>4 DEF SavedBy, WellFormed, Contacts!Commands, Contacts!Actions

\* A batch that goes through appends to the ledger of every contact that it changes, and leaves
\* the others as they are.
LEMMA BatchAppends ==
    ASSUME ContactRows, Undoes, Counted, Appeared, NEW k, NEW cmd, SavedBy(k, cmd),
           NEW i \in Contacts!Ids
    PROVE  \/ \E e \in [key : OpKeys, expected : Nat, command : Contacts!Commands] :
                 ContactLedger(i)!Append(e)
           \/ UNCHANGED ContactLedger(i)!ledgerVars
<1>1. /\ Changers(i)' = Changers(i) \cup {o \in {k} : i \in Contacts!Changed(k, cmd)}
      /\ \A o \in Changers(i) : o # k /\ receipts'[o] = receipts[o]
      /\ receipts'[k] = cmd
  <2>1. Changers(i)' = Changers(i) \cup {o \in {k} : i \in Contacts!Changed(k, cmd)}
    BY SavedCounts
  <2>2. \A o \in Contacts!Done : o # k /\ receipts'[o] = receipts[o]
    BY SavedAdds
  <2>3. receipts'[k] = cmd
    BY WritersAdd
  <2> QED BY <2>1, <2>2, <2>3 DEF Changers
<1>2. CASE i \in Contacts!Changed(k, cmd)
  <2> PICK e : e = [key |-> k, expected |-> SeenRevision(cmd), command |-> cmd]
    OBVIOUS
  <2>1. /\ SeenRevision(cmd) = contacts[i].revision
        /\ contacts[i].revision \in Nat
        /\ contacts'[i].revision = contacts[i].revision + 1
    BY <1>2, SeenIsCurrent, SavedRevisions
  <2>2. e \in [key : OpKeys, expected : Nat, command : Contacts!Commands]
    BY <2>1 DEF SavedBy, WellFormed
  <2>3. /\ e.expected = contacts[i].revision
        /\ \A f \in {ContactEntry(o) : o \in Changers(i)} : f.key # e.key
    BY <1>1, <2>1 DEF ContactEntry
  <2>4. {ContactEntry(o) : o \in Changers(i)}' = {ContactEntry(o) : o \in Changers(i)} \cup {e}
    <3>1. \A o \in Changers(i) : ContactEntry(o)' = ContactEntry(o)
      BY <1>1 DEF ContactEntry, SeenRevision
    <3>2. ContactEntry(k)' = e
      BY <1>1 DEF ContactEntry, SeenRevision
    <3>3. Changers(i)' = Changers(i) \cup {k}
      BY <1>1, <1>2
    <3> QED BY <3>1, <3>2, <3>3
  <2>5. ContactLedger(i)!Append(e)
    BY <2>1, <2>3, <2>4 DEF ContactLedger!Append
  <2> QED BY <2>2, <2>5
<1>3. CASE i \notin Contacts!Changed(k, cmd)
  <2>1. contacts'[i] = contacts[i]
    BY <1>3, SavedRevisions
  <2>2. Changers(i)' = Changers(i) /\ \A o \in Changers(i) : ContactEntry(o)' = ContactEntry(o)
    BY <1>1, <1>3 DEF ContactEntry, SeenRevision
  <2> QED BY <2>1, <2>2 DEF ContactLedger!ledgerVars
<1> QED BY <1>2, <1>3

LEMMA LedgersRest ==
    ASSUME UNCHANGED <<contacts, receipts>>, NEW i
    PROVE  UNCHANGED ContactLedger(i)!ledgerVars
<1>1. Contacts!Done' = Contacts!Done /\ \A o : receipts'[o] = receipts[o]
  BY DEF Contacts!Done
<1>2. \A o \in Contacts!Done :
         Contacts!Changed(o, receipts[o])' = Contacts!Changed(o, receipts[o])
  BY DEF Contacts!Changed
<1>3. Changers(i)' = Changers(i) /\ \A o \in Changers(i) : ContactEntry(o)' = ContactEntry(o)
  BY <1>1, <1>2 DEF Changers, ContactEntry, SeenRevision
<1> QED BY <1>3 DEF ContactLedger!ledgerVars

\* Every contact keeps the promise of MatterLedger: each command that changed it saw its latest
\* revision, was accepted once under its operation key, and left one revision behind, that no
\* retry, second tab or undo takes back (the batch of the contacts route with its guards, and the
\* unique index of firm_contact_operations).
THEOREM ContactsAreLedgers ==
    ASSUME NEW i \in Contacts!Ids PROVE ServicesSpec => ContactLedger(i)!Spec
<1>1. ServicesInit => ContactLedger(i)!Init
  <2> SUFFICES ASSUME Contacts!ContactsInit PROVE ContactLedger(i)!Init
    BY DEF ServicesInit
  <2>1. Changers(i) = {} /\ contacts[i].revision = 0
    BY DEF Contacts!ContactsInit, Changers, Contacts!Done, Contacts!Absent
  <2> QED BY <2>1 DEF ContactLedger!Init
<1>2. ASSUME ReviewInv, [ServicesNext]_servicesVars
      PROVE  [ContactLedger(i)!Next]_(ContactLedger(i)!ledgerVars)
  <2>1. ASSUME NEW h \in Workers, Contacts!Batch(h),
               Contacts!Guards(post[h].key, post[h].command)
        PROVE  [ContactLedger(i)!Next]_(ContactLedger(i)!ledgerVars)
    <3> PICK asked : AskedBy(asked)
      BY <1>2 DEF ReviewInv, ContactsInv
    <3> PICK k, cmd : SavedBy(k, cmd)
      BY <1>2, <2>1, BatchSaved DEF ReviewInv, ContactsInv
    <3> ContactRows /\ Undoes /\ Counted /\ Appeared
      BY <1>2 DEF ReviewInv, ContactsInv, ContactsKept, ReviewsKept
    <3> QED BY BatchAppends DEF ContactLedger!Next
  <2>2. CASE /\ Contacts!ContactsNext
             /\ \A h \in Workers : Contacts!Batch(h) =>
                   ~Contacts!Guards(post[h].key, post[h].command)
    BY <2>2, TablesStay, LedgersRest
  <2>3. CASE UNCHANGED contactVars
    BY <2>3, LedgersRest DEF contactVars
  <2> QED
    BY <1>2, <2>1, <2>2, <2>3 DEF ServicesNext, servicesVars, InProposals, InPlay, InAccount,
                                  InEvidence, InLibrary, InContacts
<1> QED BY <1>1, <1>2, ReviewsStand, PTL DEF ServicesSpec, ContactLedger!Spec

-----------------------------------------------------------------------------
(* Reviewed evidence: what it rests on, and what is decided for good.      *)

\* What a route that let a command through knew besides, as long as the Matter has not moved.
Knows(c) ==
    /\ c.op \in Evidence!EvidenceOps
    /\ c.op = "anchor" => \A a \in c.cites : Evidence!Stored(a)
    /\ c.op = "assertion" => Evidence!Sound(c.cites)
    /\ c.op \in {"reviewAssertion", "supersede"} => c.on \in DOMAIN assertions
    /\ c.op = "link" =>
          /\ c.on \in {0} \cup DOMAIN assertions
          /\ c.package \in {None} \cup Evidence!CurrentPackages
    /\ c.op \in {"sources", "reviewProposal"} => c.on \in DOMAIN candidates
    /\ c.op = "reviewProposal" =>
          /\ c.kind = candidates[c.on].kind /\ c.package = candidates[c.on].package
          /\ c.cites = candidates[c.on].cites
          /\ c.accept => c.kind # "graph"
          /\ c.accept /\ c.kind = "link" => c.package \in Evidence!CurrentPackages
    /\ c.op = "package" =>
          /\ c.package \in Packages
          /\ c.on # 0 => /\ c.on \in DOMAIN candidates /\ candidates[c.on].kind = "graph"
                         /\ candidates[c.on].package = c.package

\* The rows and the requests hold what they can hold, and no request starts at the last revision.
EvidenceTypes ==
    /\ Evidence!EvidenceTypeOK
    /\ \A w \in Workers : asks[w] # Evidence!Idle =>
          /\ asks[w].seen < MaxCommits
          /\ asks[w].seen = moved => Knows(asks[w])

\* All of what a request holds.
LEMMA HeldKind ==
    ASSUME NEW op, NEW seen, NEW fields, NEW c, c = Held(op, seen, fields)
    PROVE  c.kind = IF "kind" \in DOMAIN fields THEN fields.kind ELSE "assertion"
BY DEF Held, Evidence!Idle

Whole(c) == c = [f \in DOMAIN Evidence!Idle |-> c[f]]

LEMMA HeldWhole ==
    ASSUME NEW op, NEW seen, NEW fields, NEW c, c = Held(op, seen, fields),
           "accept" \in DOMAIN fields => fields.accept \in BOOLEAN
    PROVE  Whole(c) /\ c.accept \in BOOLEAN
<1>1. "accept" \in DOMAIN Evidence!Idle /\ Evidence!Idle.accept \in BOOLEAN
  BY DEF Evidence!Idle
<1>2. c.accept \in BOOLEAN
  BY <1>1 DEF Held
<1>3. Whole(c)
  BY DEF Held, Whole
<1> QED BY <1>2, <1>3

InRange(c) ==
    /\ c.op \in Evidence!EvidenceOps /\ c.seen \in Nat /\ c.cites \in SUBSET Evidence!Anchors
    /\ c.on \in Nat /\ c.kind \in {"assertion", "link", "graph"}
    /\ c.package \in Packages \cup {None} /\ c.with \in Evidence!Anchors \cup {None}

LEMMA WholeAsks ==
    ASSUME NEW c, Whole(c), InRange(c), c.accept \in BOOLEAN PROVE c \in Evidence!Asks
<1>1. DOMAIN Evidence!Idle = {"op", "seen", "cites", "on", "kind", "package", "with", "accept"}
  BY DEF Evidence!Idle
<1>2. c = [f \in {"op", "seen", "cites", "on", "kind", "package", "with", "accept"} |-> c[f]]
  BY <1>1 DEF Whole
<1>3. c = [op |-> c.op, seen |-> c.seen, cites |-> c.cites, on |-> c.on, kind |-> c.kind,
           package |-> c.package, with |-> c.with, accept |-> c.accept]
  BY <1>2
<1> QED BY <1>3 DEF InRange, Evidence!Asks

\* As long as the rows stay, a route knows what it knew.
LEMMA KnowsStill == ASSUME UNCHANGED rows, NEW d PROVE Knows(d)' <=> Knows(d)
BY DEF rows, Knows, Evidence!Sound, Evidence!Accepted, Evidence!hasRetiredCitation,
       Evidence!CurrentPackages, Evidence!Stored

\* A typed command that its route knows is held.
LEMMA HeldTypes ==
    ASSUME EvidenceTypes, NEW w \in Workers, NEW c, asks' = [asks EXCEPT ![w] = c],
           UNCHANGED rows, c \in Evidence!Asks, c.seen = moved, moved < MaxCommits, Knows(c)
    PROVE  EvidenceTypes'
<1>1. asks' \in [Workers -> Evidence!Asks] /\ asks'[w] = c
      /\ \A v \in Workers : v # w => asks'[v] = asks[v]
  BY DEF EvidenceTypes, Evidence!EvidenceTypeOK
<1>2. Evidence!EvidenceTypeOK'
  BY <1>1 DEF EvidenceTypes, Evidence!EvidenceTypeOK, rows
<1>3. moved' = moved
  BY DEF rows
<1>4. ASSUME NEW v \in Workers, asks'[v] # Evidence!Idle
      PROVE  asks'[v].seen < MaxCommits /\ (asks'[v].seen = moved' => Knows(asks[v])')
  <2> PICK d : d = asks'[v]
    OBVIOUS
  <2>1. d.seen < MaxCommits /\ (d.seen = moved => Knows(d))
    BY <1>1, <1>4 DEF EvidenceTypes
  <2> QED BY <1>3, <2>1, KnowsStill
<1> QED BY <1>2, <1>4 DEF EvidenceTypes

\* Every route holds a typed command that it knows.
LEMMA RoutesKnow ==
    ASSUME EvidenceTypes, NEW w \in Workers, moved < MaxCommits,
           \/ Evidence!CreateAnchor(w) \/ Evidence!ReviewAnchor(w) \/ Evidence!CreateAssertion(w)
           \/ Evidence!ReviewAssertion(w) \/ Evidence!SupersedeAssertion(w)
           \/ Evidence!LinkEvidence(w) \/ Evidence!CreateProposal(w) \/ Evidence!UpdateSources(w)
           \/ Evidence!ReviewProposal(w) \/ Evidence!RetireAnchor(w) \/ Evidence!LinkPackage(w)
    PROVE  EvidenceTypes'
<1>0. /\ moved \in Nat /\ DOMAIN assertions \subseteq Nat \ {0} /\ DOMAIN candidates \subseteq Nat \ {0}
      /\ \A n \in DOMAIN candidates : candidates[n] \in Evidence!Candidates
      /\ Evidence!CurrentPackages \subseteq Packages
  BY DEF EvidenceTypes, Evidence!EvidenceTypeOK, Evidence!CurrentPackages
<1>1. CASE Evidence!CreateAnchor(w)
  <2> PICK a \in Evidence!Anchors :
         /\ Evidence!Stored(a)
         /\ asks' = [asks EXCEPT ![w] = Held("anchor", moved, [cites |-> {a}])]
         /\ UNCHANGED rows
    BY <1>1 DEF Evidence!CreateAnchor, Evidence!Hold, Evidence!evidence, rows, Held
  <2> PICK c : c = Held("anchor", moved, [cites |-> {a}])
    OBVIOUS
  <2>1. /\ c.op = "anchor" /\ c.seen = moved /\ c.cites = {a} /\ c.on = 0
        /\ c.package = None /\ c.with = None /\ c.kind = "assertion"
    BY HeldFields, HeldKind
  <2>2. Whole(c) /\ c.accept \in BOOLEAN
    BY HeldWhole
  <2>3. InRange(c)
    <3>1. c.op \in Evidence!EvidenceOps
      BY <2>1 DEF Evidence!EvidenceOps
    <3>2. c.seen \in Nat /\ c.on \in Nat
      BY <1>0, <2>1
    <3>3. c.cites \in SUBSET Evidence!Anchors
      BY <2>1
    <3>4. c.kind \in {"assertion", "link", "graph"} /\ c.with \in Evidence!Anchors \cup {None}
      BY <2>1
    <3>5. c.package \in Packages \cup {None}
      BY <1>0, <2>1
    <3> QED BY <3>1, <3>2, <3>3, <3>4, <3>5 DEF InRange
  <2>4. c \in Evidence!Asks
    BY <2>2, <2>3, WholeAsks
  <2>5. Knows(c)
    BY <2>1, <2>3 DEF InRange, Knows
  <2> QED BY <2>1, <2>4, <2>5, HeldTypes
<1>2. CASE Evidence!ReviewAnchor(w)
  <2> PICK a \in Evidence!Anchors, answer \in BOOLEAN :
         /\ asks' = [asks EXCEPT ![w] = Held("reviewAnchor", moved, [cites |-> {a}, accept |-> answer])]
         /\ UNCHANGED rows
    BY <1>2 DEF Evidence!ReviewAnchor, Evidence!Hold, Evidence!evidence, rows, Held
  <2> PICK c : c = Held("reviewAnchor", moved, [cites |-> {a}, accept |-> answer])
    OBVIOUS
  <2>1. /\ c.op = "reviewAnchor" /\ c.seen = moved /\ c.cites = {a} /\ c.on = 0
        /\ c.package = None /\ c.with = None /\ c.kind = "assertion"
    BY HeldFields, HeldKind
  <2>2. Whole(c) /\ c.accept \in BOOLEAN
    BY HeldWhole
  <2>3. InRange(c)
    <3>1. c.op \in Evidence!EvidenceOps
      BY <2>1 DEF Evidence!EvidenceOps
    <3>2. c.seen \in Nat /\ c.on \in Nat
      BY <1>0, <2>1
    <3>3. c.cites \in SUBSET Evidence!Anchors
      BY <2>1
    <3>4. c.kind \in {"assertion", "link", "graph"} /\ c.with \in Evidence!Anchors \cup {None}
      BY <2>1
    <3>5. c.package \in Packages \cup {None}
      BY <1>0, <2>1
    <3> QED BY <3>1, <3>2, <3>3, <3>4, <3>5 DEF InRange
  <2>4. c \in Evidence!Asks
    BY <2>2, <2>3, WholeAsks
  <2>5. Knows(c)
    BY <2>1, <2>3 DEF InRange, Knows
  <2> QED BY <2>1, <2>4, <2>5, HeldTypes
<1>3. CASE Evidence!CreateAssertion(w)
  <2> PICK S \in SUBSET Evidence!Anchors :
         /\ Evidence!Sound(S)
         /\ asks' = [asks EXCEPT ![w] = Held("assertion", moved, [cites |-> S])]
         /\ UNCHANGED rows
    BY <1>3 DEF Evidence!CreateAssertion, Evidence!Hold, Evidence!evidence, rows, Held
  <2> PICK c : c = Held("assertion", moved, [cites |-> S])
    OBVIOUS
  <2>1. /\ c.op = "assertion" /\ c.seen = moved /\ c.cites = S /\ c.on = 0
        /\ c.package = None /\ c.with = None /\ c.kind = "assertion"
    BY HeldFields, HeldKind
  <2>2. Whole(c) /\ c.accept \in BOOLEAN
    BY HeldWhole
  <2>3. InRange(c)
    <3>1. c.op \in Evidence!EvidenceOps
      BY <2>1 DEF Evidence!EvidenceOps
    <3>2. c.seen \in Nat /\ c.on \in Nat
      BY <1>0, <2>1
    <3>3. c.cites \in SUBSET Evidence!Anchors
      BY <2>1
    <3>4. c.kind \in {"assertion", "link", "graph"} /\ c.with \in Evidence!Anchors \cup {None}
      BY <2>1
    <3>5. c.package \in Packages \cup {None}
      BY <1>0, <2>1
    <3> QED BY <3>1, <3>2, <3>3, <3>4, <3>5 DEF InRange
  <2>4. c \in Evidence!Asks
    BY <2>2, <2>3, WholeAsks
  <2>5. Knows(c)
    BY <2>1, <2>3 DEF InRange, Knows
  <2> QED BY <2>1, <2>4, <2>5, HeldTypes
<1>4. CASE Evidence!ReviewAssertion(w)
  <2> PICK n \in DOMAIN assertions, answer \in BOOLEAN :
         /\ asks' = [asks EXCEPT ![w] = Held("reviewAssertion", moved, [on |-> n, accept |-> answer])]
         /\ UNCHANGED rows
    BY <1>4 DEF Evidence!ReviewAssertion, Evidence!Hold, Evidence!evidence, rows, Held
  <2> PICK c : c = Held("reviewAssertion", moved, [on |-> n, accept |-> answer])
    OBVIOUS
  <2>1. /\ c.op = "reviewAssertion" /\ c.seen = moved /\ c.on = n /\ c.cites = {}
        /\ c.package = None /\ c.with = None /\ c.kind = "assertion"
    BY HeldFields, HeldKind
  <2>2. Whole(c) /\ c.accept \in BOOLEAN
    BY HeldWhole
  <2>3. InRange(c)
    <3>1. c.op \in Evidence!EvidenceOps
      BY <2>1 DEF Evidence!EvidenceOps
    <3>2. c.seen \in Nat /\ c.on \in Nat
      BY <1>0, <2>1
    <3>3. c.cites \in SUBSET Evidence!Anchors
      BY <2>1
    <3>4. c.kind \in {"assertion", "link", "graph"} /\ c.with \in Evidence!Anchors \cup {None}
      BY <2>1
    <3>5. c.package \in Packages \cup {None}
      BY <1>0, <2>1
    <3> QED BY <3>1, <3>2, <3>3, <3>4, <3>5 DEF InRange
  <2>4. c \in Evidence!Asks
    BY <2>2, <2>3, WholeAsks
  <2>5. Knows(c)
    BY <2>1, <2>3 DEF InRange, Knows
  <2> QED BY <2>1, <2>4, <2>5, HeldTypes
<1>5. CASE Evidence!SupersedeAssertion(w)
  <2> PICK n \in DOMAIN assertions :
         /\ asks' = [asks EXCEPT ![w] = Held("supersede", moved, [on |-> n])]
         /\ UNCHANGED rows
    BY <1>5 DEF Evidence!SupersedeAssertion, Evidence!Hold, Evidence!evidence, rows, Held
  <2> PICK c : c = Held("supersede", moved, [on |-> n])
    OBVIOUS
  <2>1. /\ c.op = "supersede" /\ c.seen = moved /\ c.on = n /\ c.cites = {}
        /\ c.package = None /\ c.with = None /\ c.kind = "assertion"
    BY HeldFields, HeldKind
  <2>2. Whole(c) /\ c.accept \in BOOLEAN
    BY HeldWhole
  <2>3. InRange(c)
    <3>1. c.op \in Evidence!EvidenceOps
      BY <2>1 DEF Evidence!EvidenceOps
    <3>2. c.seen \in Nat /\ c.on \in Nat
      BY <1>0, <2>1
    <3>3. c.cites \in SUBSET Evidence!Anchors
      BY <2>1
    <3>4. c.kind \in {"assertion", "link", "graph"} /\ c.with \in Evidence!Anchors \cup {None}
      BY <2>1
    <3>5. c.package \in Packages \cup {None}
      BY <1>0, <2>1
    <3> QED BY <3>1, <3>2, <3>3, <3>4, <3>5 DEF InRange
  <2>4. c \in Evidence!Asks
    BY <2>2, <2>3, WholeAsks
  <2>5. Knows(c)
    BY <2>1, <2>3 DEF InRange, Knows
  <2> QED BY <2>1, <2>4, <2>5, HeldTypes
<1>6. CASE Evidence!LinkEvidence(w)
  <2> PICK a \in Evidence!Anchors, n \in {0} \cup DOMAIN assertions,
              p \in Evidence!CurrentPackages \cup {None} :
         /\ asks' = [asks EXCEPT ![w] = Held("link", moved, [cites |-> {a}, on |-> n, package |-> p])]
         /\ UNCHANGED rows
    BY <1>6 DEF Evidence!LinkEvidence, Evidence!Hold, Evidence!evidence, rows, Held
  <2> PICK c : c = Held("link", moved, [cites |-> {a}, on |-> n, package |-> p])
    OBVIOUS
  <2>1. /\ c.op = "link" /\ c.seen = moved /\ c.cites = {a} /\ c.on = n
        /\ c.package = p /\ c.with = None /\ c.kind = "assertion"
    BY HeldFields, HeldKind
  <2>2. Whole(c) /\ c.accept \in BOOLEAN
    BY HeldWhole
  <2>3. InRange(c)
    <3>1. c.op \in Evidence!EvidenceOps
      BY <2>1 DEF Evidence!EvidenceOps
    <3>2. c.seen \in Nat /\ c.on \in Nat
      BY <1>0, <2>1
    <3>3. c.cites \in SUBSET Evidence!Anchors
      BY <2>1
    <3>4. c.kind \in {"assertion", "link", "graph"} /\ c.with \in Evidence!Anchors \cup {None}
      BY <2>1
    <3>5. c.package \in Packages \cup {None}
      BY <1>0, <2>1
    <3> QED BY <3>1, <3>2, <3>3, <3>4, <3>5 DEF InRange
  <2>4. c \in Evidence!Asks
    BY <2>2, <2>3, WholeAsks
  <2>5. Knows(c)
    BY <2>1, <2>3 DEF InRange, Knows
  <2> QED BY <2>1, <2>4, <2>5, HeldTypes
<1>7. CASE Evidence!CreateProposal(w)
  <2> PICK S \in SUBSET Evidence!Anchors, k \in {"assertion", "link", "graph"},
              p \in Packages \cup {None} :
         /\ asks' = [asks EXCEPT ![w] = Held("propose", moved, [cites |-> S, kind |-> k, package |-> p])]
         /\ UNCHANGED rows
    BY <1>7 DEF Evidence!CreateProposal, Evidence!Hold, Evidence!evidence, rows, Held
  <2> PICK c : c = Held("propose", moved, [cites |-> S, kind |-> k, package |-> p])
    OBVIOUS
  <2>1. /\ c.op = "propose" /\ c.seen = moved /\ c.cites = S /\ c.kind = k
        /\ c.package = p /\ c.on = 0 /\ c.with = None
    BY HeldFields, HeldKind
  <2>2. Whole(c) /\ c.accept \in BOOLEAN
    BY HeldWhole
  <2>3. InRange(c)
    <3>1. c.op \in Evidence!EvidenceOps
      BY <2>1 DEF Evidence!EvidenceOps
    <3>2. c.seen \in Nat /\ c.on \in Nat
      BY <1>0, <2>1
    <3>3. c.cites \in SUBSET Evidence!Anchors
      BY <2>1
    <3>4. c.kind \in {"assertion", "link", "graph"} /\ c.with \in Evidence!Anchors \cup {None}
      BY <2>1
    <3>5. c.package \in Packages \cup {None}
      BY <1>0, <2>1
    <3> QED BY <3>1, <3>2, <3>3, <3>4, <3>5 DEF InRange
  <2>4. c \in Evidence!Asks
    BY <2>2, <2>3, WholeAsks
  <2>5. Knows(c)
    BY <2>1, <2>3 DEF InRange, Knows
  <2> QED BY <2>1, <2>4, <2>5, HeldTypes
<1>8. CASE Evidence!UpdateSources(w)
  <2> PICK n \in DOMAIN candidates, S \in SUBSET Evidence!Anchors :
         /\ asks' = [asks EXCEPT ![w] = Held("sources", moved, [on |-> n, cites |-> S])]
         /\ UNCHANGED rows
    BY <1>8 DEF Evidence!UpdateSources, Evidence!Hold, Evidence!evidence, rows, Held
  <2> PICK c : c = Held("sources", moved, [on |-> n, cites |-> S])
    OBVIOUS
  <2>1. /\ c.op = "sources" /\ c.seen = moved /\ c.on = n /\ c.cites = S
        /\ c.package = None /\ c.with = None /\ c.kind = "assertion"
    BY HeldFields, HeldKind
  <2>2. Whole(c) /\ c.accept \in BOOLEAN
    BY HeldWhole
  <2>3. InRange(c)
    <3>1. c.op \in Evidence!EvidenceOps
      BY <2>1 DEF Evidence!EvidenceOps
    <3>2. c.seen \in Nat /\ c.on \in Nat
      BY <1>0, <2>1
    <3>3. c.cites \in SUBSET Evidence!Anchors
      BY <2>1
    <3>4. c.kind \in {"assertion", "link", "graph"} /\ c.with \in Evidence!Anchors \cup {None}
      BY <2>1
    <3>5. c.package \in Packages \cup {None}
      BY <1>0, <2>1
    <3> QED BY <3>1, <3>2, <3>3, <3>4, <3>5 DEF InRange
  <2>4. c \in Evidence!Asks
    BY <2>2, <2>3, WholeAsks
  <2>5. Knows(c)
    BY <2>1, <2>3 DEF InRange, Knows
  <2> QED BY <2>1, <2>4, <2>5, HeldTypes
<1>9. CASE Evidence!RetireAnchor(w)
  <2> PICK a \in Evidence!Anchors, b \in Evidence!Anchors \cup {None} :
         /\ asks' = [asks EXCEPT ![w] = Held("retire", moved, [cites |-> {a}, with |-> b])]
         /\ UNCHANGED rows
    BY <1>9 DEF Evidence!RetireAnchor, Evidence!Hold, Evidence!evidence, rows, Held
  <2> PICK c : c = Held("retire", moved, [cites |-> {a}, with |-> b])
    OBVIOUS
  <2>1. /\ c.op = "retire" /\ c.seen = moved /\ c.cites = {a} /\ c.with = b
        /\ c.on = 0 /\ c.package = None /\ c.kind = "assertion"
    BY HeldFields, HeldKind
  <2>2. Whole(c) /\ c.accept \in BOOLEAN
    BY HeldWhole
  <2>3. InRange(c)
    <3>1. c.op \in Evidence!EvidenceOps
      BY <2>1 DEF Evidence!EvidenceOps
    <3>2. c.seen \in Nat /\ c.on \in Nat
      BY <1>0, <2>1
    <3>3. c.cites \in SUBSET Evidence!Anchors
      BY <2>1
    <3>4. c.kind \in {"assertion", "link", "graph"} /\ c.with \in Evidence!Anchors \cup {None}
      BY <2>1
    <3>5. c.package \in Packages \cup {None}
      BY <1>0, <2>1
    <3> QED BY <3>1, <3>2, <3>3, <3>4, <3>5 DEF InRange
  <2>4. c \in Evidence!Asks
    BY <2>2, <2>3, WholeAsks
  <2>5. Knows(c)
    BY <2>1, <2>3 DEF InRange, Knows
  <2> QED BY <2>1, <2>4, <2>5, HeldTypes
<1>10. CASE Evidence!ReviewProposal(w)
  <2> PICK n \in DOMAIN candidates, answer \in BOOLEAN :
         /\ answer => candidates[n].kind # "graph"
         /\ answer /\ candidates[n].kind = "link" =>
               candidates[n].package \in Evidence!CurrentPackages
         /\ asks' = [asks EXCEPT ![w] =
                 Held("reviewProposal", moved,
                      [on |-> n, cites |-> candidates[n].cites, kind |-> candidates[n].kind,
                       package |-> candidates[n].package, accept |-> answer])]
         /\ UNCHANGED rows
    BY <1>10 DEF Evidence!ReviewProposal, Evidence!Hold, Evidence!evidence, rows, Held
  <2> PICK d : d = candidates[n]
    OBVIOUS
  <2> PICK c : c = Held("reviewProposal", moved,
                        [on |-> n, cites |-> d.cites, kind |-> d.kind, package |-> d.package,
                         accept |-> answer])
    OBVIOUS
  <2>1. /\ c.op = "reviewProposal" /\ c.seen = moved /\ c.on = n /\ c.cites = d.cites
        /\ c.kind = d.kind /\ c.package = d.package /\ c.with = None
    BY HeldFields, HeldKind
  <2>2. Whole(c) /\ c.accept \in BOOLEAN
    BY HeldWhole
  <2>3. InRange(c)
    <3>1. c.op \in Evidence!EvidenceOps
      BY <2>1 DEF Evidence!EvidenceOps
    <3>2. c.seen \in Nat /\ c.on \in Nat
      BY <1>0, <2>1
    <3>3. /\ c.cites \in SUBSET Evidence!Anchors /\ c.kind \in {"assertion", "link", "graph"}
          /\ c.package \in Packages \cup {None} /\ c.with \in Evidence!Anchors \cup {None}
      BY <1>0, <2>1 DEF Evidence!Candidates
    <3> QED BY <3>1, <3>2, <3>3 DEF InRange
  <2>4. c \in Evidence!Asks
    BY <2>2, <2>3, WholeAsks
  <2>5. c.accept = answer
    BY HeldFields
  <2>6. Knows(c)
    BY <2>1, <2>3, <2>5 DEF InRange, Knows
  <2> QED BY <2>1, <2>4, <2>6, HeldTypes
<1>11. CASE Evidence!LinkPackage(w)
  <2> PICK p \in Packages, n \in {0} \cup DOMAIN candidates :
         /\ n # 0 => candidates[n].kind = "graph" /\ candidates[n].package = p
         /\ asks' = [asks EXCEPT ![w] =
                 Held("package", moved,
                      [package |-> p, on |-> n,
                       cites |-> IF n = 0 THEN {} ELSE candidates[n].cites])]
         /\ UNCHANGED rows
    BY <1>11 DEF Evidence!LinkPackage, Evidence!Hold, Evidence!evidence, rows, Held,
                 Evidence!Applicable
  <2> PICK S : S = IF n = 0 THEN {} ELSE candidates[n].cites
    OBVIOUS
  <2> PICK c : c = Held("package", moved, [package |-> p, on |-> n, cites |-> S])
    OBVIOUS
  <2>1. /\ c.op = "package" /\ c.seen = moved /\ c.package = p /\ c.on = n /\ c.cites = S
        /\ c.with = None /\ c.kind = "assertion"
    BY HeldFields, HeldKind
  <2>2. Whole(c) /\ c.accept \in BOOLEAN
    BY HeldWhole
  <2>3. S \in SUBSET Evidence!Anchors
    BY <1>0 DEF Evidence!Candidates
  <2>4. InRange(c)
    <3>1. c.op \in Evidence!EvidenceOps
      BY <2>1 DEF Evidence!EvidenceOps
    <3>2. c.seen \in Nat /\ c.on \in Nat
      BY <1>0, <2>1
    <3>3. c.cites \in SUBSET Evidence!Anchors
      BY <2>1, <2>3
    <3>4. /\ c.kind \in {"assertion", "link", "graph"} /\ c.package \in Packages \cup {None}
          /\ c.with \in Evidence!Anchors \cup {None}
      BY <2>1
    <3> QED BY <3>1, <3>2, <3>3, <3>4 DEF InRange
  <2>5. c \in Evidence!Asks
    BY <2>2, <2>4, WholeAsks
  <2>6. Knows(c)
    BY <2>1, <2>4 DEF InRange, Knows
  <2> QED BY <2>1, <2>5, <2>6, HeldTypes
<1> QED BY <1>1, <1>2, <1>3, <1>4, <1>5, <1>6, <1>7, <1>8, <1>9, <1>10, <1>11

\* The constants, as the provers use them.
LEMMA EvidenceBounds == MaxVersion \in Nat \ {0} /\ MaxCommits \in Nat \ {0}
BY ServicesConstants DEF ServicesConstants, Evidence!EvidenceConstants

\* A batch of a command that its route knows and the database admits.
Lawful(c) == c \in Evidence!Asks /\ Knows(c) /\ Evidence!Admitted(c) /\ Evidence!Rows(c)

\* What is known of a command when its batch lands.
LEMMA LandsKnown ==
    ASSUME EvidenceInv, EvidenceTypes, NEW w \in Workers, Evidence!Commit(w)
    PROVE  \E c \in Evidence!Asks :
              /\ c = asks[w] /\ c.seen = moved /\ moved < MaxCommits /\ Lawful(c)
              /\ moved' = moved + 1 /\ newest' = newest
              /\ asks' = [asks EXCEPT ![w] = Evidence!Idle]
BY DEF EvidenceTypes, Evidence!EvidenceTypeOK, Evidence!Commit, Evidence!Lands,
       Lawful

\* A row that is written over or appended leaves a sequence of rows.
LEMMA Overwritten ==
    ASSUME NEW S, NEW s \in Seq(S), NEW n, NEW e, n \in DOMAIN s => e \in S
    PROVE  /\ [s EXCEPT ![n] = e] \in Seq(S)
           /\ DOMAIN [s EXCEPT ![n] = e] = DOMAIN s
           /\ \A m \in DOMAIN s : [s EXCEPT ![n] = e][m] = IF m = n THEN e ELSE s[m]
<1>1. /\ DOMAIN [s EXCEPT ![n] = e] = DOMAIN s
      /\ \A m \in DOMAIN s : [s EXCEPT ![n] = e][m] = IF m = n THEN e ELSE s[m]
  OBVIOUS
<1>2. DOMAIN s = 1 .. Len(s) /\ \A m \in DOMAIN s : s[m] \in S
  OBVIOUS
<1>3. CASE n \in DOMAIN s
  BY <1>2, <1>3, ExceptSeq
<1>4. CASE n \notin DOMAIN s
  <2>1. [s EXCEPT ![n] = e] = s
    BY <1>4
  <2> QED BY <2>1
<1> QED BY <1>1, <1>3, <1>4

LEMMA Appended ==
    ASSUME NEW S, NEW s \in Seq(S), NEW e \in S
    PROVE  /\ Append(s, e) \in Seq(S)
           /\ DOMAIN Append(s, e) = DOMAIN s \cup {Len(s) + 1}
           /\ Append(s, e)[Len(s) + 1] = e
           /\ \A m \in DOMAIN s : m # Len(s) + 1 /\ Append(s, e)[m] = s[m]
OBVIOUS

\* A row whose status, or whose citations, are set.
StatusWritten(s, n, v, t) == t = [s EXCEPT ![n].status = v]
CitesWritten(s, n, v, t) == t = [s EXCEPT ![n].cites = v]

StatusOnly(s, n, v, t) ==
    /\ t \in Seq(Evidence!Assertions) /\ DOMAIN t = DOMAIN s
    /\ \A m \in DOMAIN s : m # n => t[m] = s[m]
    /\ n \in DOMAIN s => t[n].sources = s[n].sources /\ t[n].status = v

LEMMA StatusSet ==
    ASSUME NEW s \in Seq(Evidence!Assertions), NEW n,
           NEW v \in {"needs_review", "accepted", "rejected", "superseded"}, NEW t,
           StatusWritten(s, n, v, t)
    PROVE  StatusOnly(s, n, v, t)
<1> PICK e : e = [s[n] EXCEPT !.status = v]
  OBVIOUS
<1>1. t = [s EXCEPT ![n] = e]
  BY DEF StatusWritten
<1>2. \A m \in DOMAIN s : s[m] \in Evidence!Assertions
  OBVIOUS
<1>3. n \in DOMAIN s =>
         e \in Evidence!Assertions /\ e.sources = s[n].sources /\ e.status = v
  BY <1>2 DEF Evidence!Assertions
<1> QED BY <1>1, <1>3, Overwritten DEF StatusOnly

LEMMA StateSet ==
    ASSUME NEW s \in Seq(Evidence!Candidates), NEW n,
           NEW v \in {"pending", "accepted", "rejected"}, NEW t,
           t = [s EXCEPT ![n].state = v]
    PROVE  /\ t \in Seq(Evidence!Candidates) /\ DOMAIN t = DOMAIN s
           /\ \A m \in DOMAIN s : m # n => t[m] = s[m]
           /\ n \in DOMAIN s => /\ t[n].state = v /\ t[n].cites = s[n].cites
                                /\ t[n].kind = s[n].kind /\ t[n].package = s[n].package
<1> PICK e : e = [s[n] EXCEPT !.state = v]
  OBVIOUS
<1>1. t = [s EXCEPT ![n] = e]
  OBVIOUS
<1>2. \A m \in DOMAIN s : s[m] \in Evidence!Candidates
  OBVIOUS
<1>3. n \in DOMAIN s =>
         /\ e \in Evidence!Candidates /\ e.state = v /\ e.cites = s[n].cites
         /\ e.kind = s[n].kind /\ e.package = s[n].package
  BY <1>2 DEF Evidence!Candidates
<1> QED BY <1>1, <1>3, Overwritten

CitesOnly(s, n, t) ==
    /\ t \in Seq(Evidence!Candidates) /\ DOMAIN t = DOMAIN s
    /\ \A m \in DOMAIN s : m # n => t[m] = s[m]
    /\ n \in DOMAIN s => t[n].state = s[n].state

LEMMA CitesSet ==
    ASSUME NEW s \in Seq(Evidence!Candidates), NEW n, NEW v \in SUBSET Evidence!Anchors, NEW t,
           CitesWritten(s, n, v, t)
    PROVE  CitesOnly(s, n, t)
<1> PICK e : e = [s[n] EXCEPT !.cites = v]
  OBVIOUS
<1>1. t = [s EXCEPT ![n] = e]
  BY DEF CitesWritten
<1>2. \A m \in DOMAIN s : s[m] \in Evidence!Candidates
  OBVIOUS
<1>3. n \in DOMAIN s => e \in Evidence!Candidates /\ e.state = s[n].state
  BY <1>2 DEF Evidence!Candidates
<1> QED BY <1>1, <1>3, Overwritten DEF CitesOnly

LEMMA AskFields ==
    ASSUME NEW c \in Evidence!Asks
    PROVE  /\ c.cites \in SUBSET Evidence!Anchors /\ c.on \in Nat
           /\ c.kind \in {"assertion", "link", "graph"} /\ c.package \in Packages \cup {None}
           /\ c.with \in Evidence!Anchors \cup {None} /\ c.accept \in BOOLEAN
BY DEF Evidence!Asks

\* Anchors: a review is final.
LEMMA AnchorsEffect ==
    ASSUME EvidenceTypes, NEW c, Lawful(c)
    PROVE  /\ anchors' \in [Evidence!Anchors -> {"absent", "pending", "accepted", "rejected"}]
           /\ \A a \in Evidence!Anchors :
                 /\ anchors[a] \in {"accepted", "rejected"} => anchors'[a] = anchors[a]
                 /\ anchors'[a] # "absent" => anchors[a] # "absent" \/ Evidence!Stored(a)
<1>1. anchors \in [Evidence!Anchors -> {"absent", "pending", "accepted", "rejected"}]
  BY DEF EvidenceTypes, Evidence!EvidenceTypeOK
<1>2. CASE c.op \in {"anchor", "reviewAnchor"}
  <2>1. /\ c.op = "anchor" => \A a \in c.cites : anchors[a] = "absent" /\ Evidence!Stored(a)
        /\ c.op = "reviewAnchor" => \A a \in c.cites : anchors[a] = "pending"
    BY DEF Lawful, Knows, Evidence!Admitted, Evidence!AnchorGuard
  <2>2. Evidence!AnchorRows(c)
    BY <1>2 DEF Lawful, Evidence!Rows
  <2> QED BY <1>1, <1>2, <2>1, <2>2 DEF Evidence!AnchorRows
<1>3. CASE c.op \notin {"anchor", "reviewAnchor"}
  <2>1. anchors' = anchors
    BY <1>3 DEF Lawful, Evidence!Rows, Evidence!AssertionRows, Evidence!LinkRows,
                Evidence!ProposalRows, Evidence!ReviewRows, Evidence!RetirementRows,
                Evidence!PackageRows
  <2> QED BY <1>1, <2>1
<1> QED BY <1>2, <1>3

\* Assertions: a decision is final, but that what was accepted may be superseded; a new one rests
\* on sound sources.
NextStatus(old, new) ==
    /\ old = "accepted" => new \in {"accepted", "superseded"}
    /\ old \in {"rejected", "superseded"} => new = old

LEMMA AssertionsEffect ==
    ASSUME EvidenceTypes, NEW c, Lawful(c)
    PROVE  /\ assertions' \in Seq(Evidence!Assertions)
           /\ \A n \in DOMAIN assertions :
                 /\ n \in DOMAIN assertions' /\ assertions'[n].sources = assertions[n].sources
                 /\ NextStatus(assertions[n].status, assertions'[n].status)
           /\ \A n \in DOMAIN assertions' \ DOMAIN assertions :
                 assertions'[n].sources = c.cites /\ Evidence!Sound(c.cites)
           /\ c.op = "reviewProposal" /\ c.accept /\ c.kind = "assertion" =>
                 \E n \in DOMAIN assertions' :
                    assertions'[n].sources = c.cites /\ assertions'[n].status = "accepted"
<1>1. assertions \in Seq(Evidence!Assertions) /\ c \in Evidence!Asks
  BY DEF EvidenceTypes, Evidence!EvidenceTypeOK, Lawful
<1>2. ASSUME assertions' = assertions PROVE \A n \in DOMAIN assertions :
         NextStatus(assertions[n].status, assertions'[n].status)
  BY <1>2 DEF NextStatus
<1>3. ASSUME NEW e \in Evidence!Assertions, assertions' = Append(assertions, e),
             e.sources = c.cites
      PROVE  /\ assertions' \in Seq(Evidence!Assertions)
             /\ \A n \in DOMAIN assertions :
                   /\ n \in DOMAIN assertions' /\ assertions'[n].sources = assertions[n].sources
                   /\ NextStatus(assertions[n].status, assertions'[n].status)
             /\ \A n \in DOMAIN assertions' \ DOMAIN assertions :
                   assertions'[n].sources = c.cites
             /\ \E n \in DOMAIN assertions' : assertions'[n] = e
  BY <1>1, <1>3, Appended DEF NextStatus
<1>4. CASE c.op = "assertion"
  <2> PICK e : e = [status |-> "needs_review", sources |-> c.cites]
    OBVIOUS
  <2>1. e \in Evidence!Assertions /\ e.sources = c.cites
    BY <1>1, AskFields DEF Evidence!Assertions
  <2>2. assertions' = Append(assertions, e) /\ Evidence!Sound(c.cites)
    BY <1>4 DEF Lawful, Evidence!Rows, Evidence!AssertionRows, Knows
  <2> QED BY <1>3, <1>4, <2>1, <2>2
<1>5. CASE c.op \in {"reviewAssertion", "supersede"}
  <2> PICK v : v = IF c.op = "supersede" THEN "superseded"
                   ELSE IF c.accept THEN "accepted" ELSE "rejected"
    OBVIOUS
  <2> PICK m : m = c.on
    OBVIOUS
  <2>1. assertions' = [assertions EXCEPT ![m].status = v]
    BY <1>5 DEF Lawful, Evidence!Rows, Evidence!AssertionRows
  <2>2. NextStatus(assertions[m].status, v)
    BY <1>5 DEF Lawful, Evidence!Admitted, Evidence!AssertionGuard, NextStatus
  <2>3. v \in {"needs_review", "accepted", "rejected", "superseded"}
    OBVIOUS
  <2>4. /\ assertions' \in Seq(Evidence!Assertions) /\ DOMAIN assertions' = DOMAIN assertions
        /\ \A n \in DOMAIN assertions : n # m => assertions'[n] = assertions[n]
        /\ m \in DOMAIN assertions =>
              /\ assertions'[m].sources = assertions[m].sources
              /\ assertions'[m].status = v
    <3> PICK t : t = assertions'
      OBVIOUS
    <3>1. assertions \in Seq(Evidence!Assertions)
      BY <1>1
    <3>2. StatusWritten(assertions, m, v, t)
      BY <2>1 DEF StatusWritten
    <3>3. StatusOnly(assertions, m, v, t)
      BY <3>1, <3>2, <2>3, StatusSet
    <3> QED BY <3>3 DEF StatusOnly
  <2>5. ASSUME NEW n \in DOMAIN assertions
        PROVE  /\ assertions'[n].sources = assertions[n].sources
               /\ NextStatus(assertions[n].status, assertions'[n].status)
    BY <2>2, <2>4 DEF NextStatus
  <2> QED BY <1>5, <2>4, <2>5
<1>6. CASE c.op = "reviewProposal"
  <2>1. CASE c.accept /\ c.kind = "assertion"
    <3> PICK e : e = [status |-> "accepted", sources |-> c.cites]
      OBVIOUS
    <3>1. e \in Evidence!Assertions /\ e.sources = c.cites /\ e.status = "accepted"
      BY <1>1, AskFields DEF Evidence!Assertions
    <3>2. assertions' = Append(assertions, e)
      BY <1>6, <2>1 DEF Lawful, Evidence!Rows, Evidence!ReviewRows, Evidence!MaterialRows
    <3>3. Evidence!Sound(c.cites)
      BY <1>6, <2>1 DEF Lawful, Evidence!Admitted, Evidence!ProposalGuard
    <3> QED BY <1>3, <3>1, <3>2, <3>3
  <2>2. CASE ~(c.accept /\ c.kind = "assertion")
    <3>1. assertions' = assertions
      BY <1>6, <2>2 DEF Lawful, Evidence!Rows, Evidence!ReviewRows, Evidence!MaterialRows
    <3> QED BY <1>1, <1>2, <2>2, <3>1
  <2> QED BY <2>1, <2>2
<1>7. CASE c.op \notin {"assertion", "reviewAssertion", "supersede", "reviewProposal"}
  <2>1. assertions' = assertions
    BY <1>7 DEF Lawful, Evidence!Rows, Evidence!AnchorRows, Evidence!LinkRows,
                Evidence!ProposalRows, Evidence!RetirementRows, Evidence!PackageRows
  <2> QED BY <1>1, <1>2, <1>7, <2>1
<1> QED BY <1>4, <1>5, <1>6, <1>7

\* Proposals: a decided one stays as it is; one that is accepted was pending on sound citations.
LEMMA CandidatesEffect ==
    ASSUME EvidenceTypes, NEW c, Lawful(c)
    PROVE  /\ candidates' \in Seq(Evidence!Candidates)
           /\ \A n \in DOMAIN candidates :
                 /\ n \in DOMAIN candidates'
                 /\ candidates[n].state # "pending" => candidates'[n] = candidates[n]
           /\ \A n \in DOMAIN candidates' : candidates'[n].state = "accepted" =>
                 \/ n \in DOMAIN candidates /\ candidates'[n] = candidates[n]
                 \/ /\ c.op = "package" \/ (c.op = "reviewProposal" /\ c.accept)
                    /\ Evidence!Sound(c.cites)
                    /\ candidates'[n].cites = c.cites /\ candidates'[n].package = c.package
                    /\ c.op = "package" => candidates'[n].kind = "graph"
                    /\ c.op = "reviewProposal" => candidates'[n].kind = c.kind
<1>1. candidates \in Seq(Evidence!Candidates) /\ c \in Evidence!Asks
  BY DEF EvidenceTypes, Evidence!EvidenceTypeOK, Lawful
<1>2. CASE candidates' = candidates
  BY <1>1, <1>2
<1>3. CASE c.op = "propose"
  <2> PICK e : e = [state |-> "pending", cites |-> c.cites, kind |-> c.kind, package |-> c.package]
    OBVIOUS
  <2>1. e \in Evidence!Candidates /\ e.state = "pending"
    BY <1>1, AskFields DEF Evidence!Candidates
  <2>2. candidates' = Append(candidates, e)
    BY <1>3 DEF Lawful, Evidence!Rows, Evidence!ProposalRows
  <2>3. /\ candidates' \in Seq(Evidence!Candidates)
        /\ \A n \in DOMAIN candidates : n \in DOMAIN candidates' /\ candidates'[n] = candidates[n]
        /\ \A n \in DOMAIN candidates' : n \in DOMAIN candidates \/ candidates'[n] = e
    BY <1>1, <2>1, <2>2, Appended
  <2> QED BY <2>1, <2>3
<1>4. CASE c.op = "sources"
  <2> PICK n : n = c.on
    OBVIOUS
  <2> PICK S \in SUBSET Evidence!Anchors : S = c.cites
    BY <1>1, AskFields
  <2>1. candidates' = [candidates EXCEPT ![n].cites = S]
    BY <1>4 DEF Lawful, Evidence!Rows, Evidence!ProposalRows
  <2>2. n \in DOMAIN candidates /\ candidates[n].state = "pending"
    BY <1>4 DEF Lawful, Knows, Evidence!Admitted, Evidence!ProposalGuard
  <2>3. /\ candidates' \in Seq(Evidence!Candidates) /\ DOMAIN candidates' = DOMAIN candidates
        /\ \A m \in DOMAIN candidates : m # n => candidates'[m] = candidates[m]
        /\ candidates'[n].state = "pending"
    <3> PICK t : t = candidates'
      OBVIOUS
    <3>1. candidates \in Seq(Evidence!Candidates)
      BY <1>1
    <3>2. CitesWritten(candidates, n, S, t)
      BY <2>1 DEF CitesWritten
    <3>3. CitesOnly(candidates, n, t)
      BY <3>1, <3>2, CitesSet
    <3> QED BY <2>2, <3>3 DEF CitesOnly
  <2> QED BY <2>2, <2>3
<1>5. CASE c.op = "reviewProposal" \/ (c.op = "package" /\ c.on # 0)
  <2> PICK v : v = IF c.op = "package" \/ c.accept THEN "accepted" ELSE "rejected"
    OBVIOUS
  <2> PICK n : n = c.on
    OBVIOUS
  <2>1. candidates' = [candidates EXCEPT ![n].state = v]
    BY <1>5 DEF Lawful, Evidence!Rows, Evidence!ReviewRows, Evidence!PackageRows
  <2>2. /\ n \in DOMAIN candidates /\ candidates[n].state = "pending"
        /\ candidates[n].package = c.package
        /\ c.op = "package" => candidates[n].kind = "graph"
        /\ c.op = "reviewProposal" => candidates[n].kind = c.kind
    BY <1>5 DEF Lawful, Knows, Evidence!Admitted, Evidence!ProposalGuard
  <2>3. v = "accepted" => Evidence!Sound(c.cites) /\ candidates[n].cites = c.cites
    BY <1>5 DEF Lawful, Evidence!Admitted, Evidence!ProposalGuard
  <2>4. v \in {"pending", "accepted", "rejected"}
    OBVIOUS
  <2>5. /\ candidates' \in Seq(Evidence!Candidates) /\ DOMAIN candidates' = DOMAIN candidates
        /\ \A m \in DOMAIN candidates : m # n => candidates'[m] = candidates[m]
        /\ candidates'[n].state = v /\ candidates'[n].cites = candidates[n].cites
        /\ candidates'[n].kind = candidates[n].kind
        /\ candidates'[n].package = candidates[n].package
    BY <1>1, <2>1, <2>2, <2>4, StateSet
  <2>6. v = "accepted" => c.op = "package" \/ (c.op = "reviewProposal" /\ c.accept)
    BY <1>5
  <2>7. ASSUME NEW m \in DOMAIN candidates', candidates'[m].state = "accepted"
        PROVE  \/ m \in DOMAIN candidates /\ candidates'[m] = candidates[m]
               \/ /\ c.op = "package" \/ (c.op = "reviewProposal" /\ c.accept)
                  /\ Evidence!Sound(c.cites)
                  /\ candidates'[m].cites = c.cites /\ candidates'[m].package = c.package
                  /\ c.op = "package" => candidates'[m].kind = "graph"
                  /\ c.op = "reviewProposal" => candidates'[m].kind = c.kind
    <3>1. CASE m = n
      BY <2>2, <2>3, <2>5, <2>6, <2>7, <3>1
    <3>2. CASE m # n
      BY <2>5, <2>7, <3>2
    <3> QED BY <3>1, <3>2
  <2> QED BY <2>2, <2>5, <2>7
<1>6. CASE /\ c.op \notin {"propose", "sources", "reviewProposal"}
           /\ ~(c.op = "package" /\ c.on # 0)
  <2>1. candidates' = candidates
    BY <1>6 DEF Lawful, Evidence!Rows, Evidence!AnchorRows, Evidence!AssertionRows,
                Evidence!LinkRows, Evidence!RetirementRows, Evidence!PackageRows
  <2> QED BY <1>2, <2>1
<1> QED BY <1>3, <1>4, <1>5, <1>6

\* Links stay; a new one rests on an accepted anchor, and is of an accepted assertion or a package
\* that is current.
LEMMA LinksEffect ==
    ASSUME EvidenceTypes, NEW c, Lawful(c)
    PROVE  /\ links' \subseteq Evidence!EvidenceLinks /\ links \subseteq links'
           /\ \A l \in links' \ links :
                 /\ anchors[l.anchor] = "accepted"
                 /\ l.assertion # 0 => /\ l.assertion \in DOMAIN assertions
                                       /\ assertions[l.assertion].status = "accepted"
                 /\ l.package # None => l.package \in Evidence!CurrentPackages
           /\ c.op = "reviewProposal" /\ c.accept /\ c.kind = "link" =>
                 \E l \in links' : l.anchor \in c.cites /\ l.assertion = 0 /\ l.package = c.package
<1>1. links \subseteq Evidence!EvidenceLinks /\ c \in Evidence!Asks
  BY DEF EvidenceTypes, Evidence!EvidenceTypeOK, Lawful
<1>2. c.cites \in SUBSET Evidence!Anchors /\ c.on \in Nat /\ c.package \in Packages \cup {None}
  BY <1>1, AskFields
<1>3. ASSUME NEW a \in c.cites, NEW n \in Nat
      PROVE  [anchor |-> a, assertion |-> n, package |-> c.package] \in Evidence!EvidenceLinks
  BY <1>2 DEF Evidence!EvidenceLinks
<1>4. CASE c.op = "link"
  <2>1. links' = links \cup
           {[anchor |-> a, assertion |-> c.on, package |-> c.package] : a \in c.cites}
    BY <1>4 DEF Lawful, Evidence!Rows, Evidence!LinkRows
  <2>2. /\ \A a \in c.cites : anchors[a] = "accepted"
        /\ c.on # 0 => c.on \in DOMAIN assertions /\ assertions[c.on].status = "accepted"
        /\ c.package # None => c.package \in Evidence!CurrentPackages
    BY <1>4 DEF Lawful, Knows, Evidence!Admitted, Evidence!LinkGuard, Evidence!Accepted
  <2>3. ASSUME NEW l \in links' \ links
        PROVE  \E a \in c.cites : l = [anchor |-> a, assertion |-> c.on, package |-> c.package]
    BY <2>1
  <2>4. links' \subseteq Evidence!EvidenceLinks
    BY <1>1, <1>2, <1>3, <2>1
  <2> QED BY <1>4, <2>1, <2>2, <2>3, <2>4
<1>5. CASE c.op = "reviewProposal" /\ c.accept /\ c.kind # "assertion"
  <2>1. c.kind = "link" /\ c.package \in Evidence!CurrentPackages
    BY <1>1, <1>5, AskFields DEF Lawful, Knows
  <2>2. PICK a \in c.cites :
           links' = links \cup {[anchor |-> a, assertion |-> 0, package |-> c.package]}
    BY <1>5 DEF Lawful, Evidence!Rows, Evidence!ReviewRows, Evidence!MaterialRows
  <2>3. anchors[a] = "accepted"
    BY <1>5 DEF Lawful, Evidence!Admitted, Evidence!ProposalGuard, Evidence!Sound,
                Evidence!Accepted
  <2> PICK l : l = [anchor |-> a, assertion |-> 0, package |-> c.package]
    OBVIOUS
  <2>4. /\ l \in Evidence!EvidenceLinks /\ l.anchor = a /\ l.assertion = 0
        /\ l.package = c.package /\ links' = links \cup {l}
    BY <1>3, <2>2
  <2> QED BY <1>1, <2>1, <2>3, <2>4
<1>6. CASE c.op # "link" /\ ~(c.op = "reviewProposal" /\ c.accept /\ c.kind # "assertion")
  <2>1. links' = links
    BY <1>6 DEF Lawful, Evidence!Rows, Evidence!AnchorRows, Evidence!AssertionRows,
                Evidence!ProposalRows, Evidence!ReviewRows, Evidence!MaterialRows,
                Evidence!RetirementRows, Evidence!PackageRows
  <2> QED BY <1>1, <1>6, <2>1
<1> QED BY <1>4, <1>5, <1>6

\* Retirements stay; what is retired anew was accepted, is of an older version, and is replaced by
\* another anchor that is accepted and was not retired.
LEMMA RetiredEffect ==
    ASSUME EvidenceTypes, NEW c, Lawful(c)
    PROVE  /\ DOMAIN retired' \subseteq Evidence!Anchors
           /\ \A a \in DOMAIN retired : a \in DOMAIN retired' /\ retired'[a] = retired[a]
           /\ \A a \in DOMAIN retired' \ DOMAIN retired :
                 /\ anchors[a] = "accepted" /\ ~Evidence!IsCurrent(a)
                 /\ retired'[a] # None => /\ retired'[a] \in Evidence!Anchors
                                          /\ anchors[retired'[a]] = "accepted"
                                          /\ retired'[a] \notin DOMAIN retired'
           /\ \A a \in DOMAIN retired' : retired'[a] \in Evidence!Anchors \cup {None}
<1>1. /\ DOMAIN retired \subseteq Evidence!Anchors /\ c \in Evidence!Asks
      /\ \A a \in DOMAIN retired : retired[a] \in Evidence!Anchors \cup {None}
  BY DEF EvidenceTypes, Evidence!EvidenceTypeOK, Lawful
<1>2. CASE c.op = "retire"
  <2>1. retired' = [a \in DOMAIN retired \cup c.cites |->
                       IF a \in c.cites THEN c.with ELSE retired[a]]
    BY <1>2 DEF Lawful, Evidence!Rows, Evidence!RetirementRows
  <2>2. /\ \A a \in c.cites : /\ anchors[a] = "accepted" /\ ~Evidence!IsCurrent(a)
                              /\ a \notin DOMAIN retired
        /\ c.with # None => /\ c.with \notin c.cites /\ anchors[c.with] = "accepted"
                            /\ c.with \notin DOMAIN retired
    BY <1>2 DEF Lawful, Evidence!Admitted, Evidence!RetirementGuard
  <2> QED BY <1>1, <2>1, <2>2, AskFields
<1>3. CASE c.op # "retire"
  <2>1. retired' = retired
    BY <1>3 DEF Lawful, Evidence!Rows, Evidence!AnchorRows, Evidence!AssertionRows,
                Evidence!LinkRows, Evidence!ProposalRows, Evidence!ReviewRows,
                Evidence!MaterialRows, Evidence!PackageRows
  <2> QED BY <1>1, <2>1
<1> QED BY <1>2, <1>3

\* Packages: a linked one stays linked, and a stale one as it is.
LEMMA PackagesEffect ==
    ASSUME EvidenceTypes, NEW c, Lawful(c)
    PROVE  /\ packages' \in [Packages -> Evidence!References]
           /\ \A p \in Packages : /\ Evidence!Linked(p) => packages'[p].state # "unlinked"
                                  /\ packages[p].state = "stale" => packages'[p] = packages[p]
           /\ c.op = "package" => packages'[c.package].state # "unlinked"
<1>1. packages \in [Packages -> Evidence!References]
  BY DEF EvidenceTypes, Evidence!EvidenceTypeOK
<1>2. CASE c.op = "package"
  <2>1. c.package \in Packages
    BY <1>2 DEF Lawful, Knows
  <2>2. packages' = IF Evidence!Linked(c.package) THEN packages
                    ELSE [p \in Packages |->
                            IF p = c.package THEN [state |-> "current", by |-> None]
                            ELSE IF p \in Evidence!CurrentPackages
                            THEN [state |-> "stale", by |-> c.package] ELSE packages[p]]
    BY <1>2 DEF Lawful, Evidence!Rows, Evidence!PackageRows
  <2> QED BY <1>1, <2>1, <2>2 DEF Evidence!References, Evidence!Linked, Evidence!CurrentPackages
<1>3. CASE c.op # "package"
  <2>1. packages' = packages
    BY <1>3 DEF Lawful, Evidence!Rows, Evidence!AnchorRows, Evidence!AssertionRows,
                Evidence!LinkRows, Evidence!ProposalRows, Evidence!ReviewRows,
                Evidence!MaterialRows, Evidence!RetirementRows
  <2> QED BY <1>1, <1>3, <2>1 DEF Evidence!Linked
<1> QED BY <1>2, <1>3

LEMMA LandedTypes ==
    ASSUME EvidenceInv, EvidenceTypes, NEW w \in Workers, Evidence!Commit(w)
    PROVE  EvidenceTypes'
<1> PICK c \in Evidence!Asks :
       /\ c.seen = moved /\ moved < MaxCommits /\ Lawful(c)
       /\ moved' = moved + 1 /\ newest' = newest
       /\ asks' = [asks EXCEPT ![w] = Evidence!Idle]
  BY LandsKnown
<1>1. Evidence!Idle \in Evidence!Asks
  BY DEF Evidence!Idle, Evidence!Asks
<1>2. moved' \in 1 .. MaxCommits
  BY EvidenceBounds DEF EvidenceTypes, Evidence!EvidenceTypeOK
<1>3. asks' \in [Workers -> Evidence!Asks]
  BY <1>1 DEF EvidenceTypes, Evidence!EvidenceTypeOK
<1>4. Evidence!EvidenceTypeOK'
  BY <1>2, <1>3, AnchorsEffect, AssertionsEffect, CandidatesEffect, LinksEffect, RetiredEffect,
     PackagesEffect DEF EvidenceTypes, Evidence!EvidenceTypeOK
<1>5. ASSUME NEW v \in Workers, asks'[v] # Evidence!Idle
      PROVE  asks'[v].seen < MaxCommits /\ asks'[v].seen # moved'
  <2>1. asks'[v] = asks[v]
    BY <1>5 DEF EvidenceTypes, Evidence!EvidenceTypeOK
  <2>2. asks[v].seen \in Nat /\ asks[v].seen <= moved /\ asks[v].seen < MaxCommits
    BY <1>5, <2>1 DEF EvidenceTypes, EvidenceInv, Waits
  <2> QED BY <2>1, <2>2 DEF EvidenceInv
<1> QED BY <1>4, <1>5 DEF EvidenceTypes

\* The steps of the services, as the evidence rows see them.
Landing(c) == Lawful(c) /\ moved' = moved + 1 /\ newest' = newest

LEMMA EvidenceSteps ==
    ASSUME EvidenceInv, EvidenceTypes, [ServicesNext]_servicesVars
    PROVE  UNCHANGED rows \/ Evidence!NewVersion \/ \E c : Landing(c)
<1>1. ASSUME NEW w \in Workers, Evidence!Review(w) PROVE UNCHANGED rows \/ \E c : Landing(c)
  <2>1. CASE Evidence!Commit(w)
    BY <2>1, LandsKnown DEF Landing
  <2>2. CASE Evidence!Refuse(w)
    BY <2>2 DEF Evidence!Refuse, Evidence!evidence, rows
  <2>3. ASSUME NEW op, NEW fields, Evidence!Hold(w, op, fields) PROVE UNCHANGED rows
    BY <2>3 DEF Evidence!Hold, Evidence!evidence, rows
  <2>4. CASE \/ Evidence!CreateAnchor(w) \/ Evidence!ReviewAnchor(w)
             \/ Evidence!CreateAssertion(w) \/ Evidence!ReviewAssertion(w)
             \/ Evidence!SupersedeAssertion(w) \/ Evidence!LinkEvidence(w)
    BY <2>3, <2>4 DEF Evidence!CreateAnchor, Evidence!ReviewAnchor, Evidence!CreateAssertion,
        Evidence!ReviewAssertion, Evidence!SupersedeAssertion, Evidence!LinkEvidence
  <2>5. CASE \/ Evidence!CreateProposal(w) \/ Evidence!UpdateSources(w)
             \/ Evidence!ReviewProposal(w) \/ Evidence!RetireAnchor(w) \/ Evidence!LinkPackage(w)
    BY <2>3, <2>5 DEF Evidence!CreateProposal, Evidence!UpdateSources, Evidence!ReviewProposal,
        Evidence!RetireAnchor, Evidence!LinkPackage
  <2> QED BY <1>1, <2>1, <2>2, <2>4, <2>5 DEF Evidence!Review
<1>2. CASE InEvidence
  BY <1>1, <1>2 DEF InEvidence, Evidence!EvidenceNext
<1>3. CASE UNCHANGED evidenceVars
  BY <1>3 DEF evidenceVars, rows
<1> QED BY <1>2, <1>3 DEF ServicesNext, servicesVars, InProposals, InPlay, InAccount, InLibrary,
                          InContacts

\* Types: the other steps.
LEMMA NewerTypes == ASSUME EvidenceInv, EvidenceTypes, Evidence!NewVersion PROVE EvidenceTypes'
<1>1. PICK d \in Documents : newest[d] < MaxVersion /\ newest' = [newest EXCEPT ![d] = @ + 1]
  BY DEF Evidence!NewVersion
<1>2. newest' \in [Documents -> 1 .. MaxVersion]
  <2>1. newest[d] \in 1 .. MaxVersion /\ newest[d] + 1 \in 1 .. MaxVersion
    BY <1>1, EvidenceBounds DEF EvidenceTypes, Evidence!EvidenceTypeOK
  <2> QED BY <1>1, <2>1 DEF EvidenceTypes, Evidence!EvidenceTypeOK
<1>3. moved' = moved + 1 /\ moved' \in 1 .. MaxCommits
      /\ UNCHANGED <<anchors, assertions, links, candidates, retired, packages, asks>>
  BY EvidenceBounds DEF EvidenceTypes, Evidence!EvidenceTypeOK, Evidence!NewVersion
<1>4. Evidence!EvidenceTypeOK'
  BY <1>2, <1>3 DEF EvidenceTypes, Evidence!EvidenceTypeOK
<1>5. ASSUME NEW w \in Workers, asks'[w] # Evidence!Idle
      PROVE  asks'[w].seen < MaxCommits /\ asks'[w].seen # moved'
  <2>1. asks'[w] = asks[w]
    BY <1>3
  <2>2. asks[w].seen \in Nat /\ asks[w].seen <= moved /\ asks[w].seen < MaxCommits
    BY <1>5, <2>1 DEF EvidenceTypes, EvidenceInv, Waits
  <2> QED BY <1>3, <2>1, <2>2 DEF EvidenceInv
<1> QED BY <1>4, <1>5 DEF EvidenceTypes

LEMMA RefusedTypes ==
    ASSUME EvidenceTypes, UNCHANGED rows, asks' \in [Workers -> Evidence!Asks],
           \A w \in Workers : asks'[w] # Evidence!Idle => asks'[w] = asks[w]
    PROVE  EvidenceTypes'
<1>1. Evidence!EvidenceTypeOK' /\ moved' = moved
  BY DEF EvidenceTypes, Evidence!EvidenceTypeOK, rows
<1>2. ASSUME NEW w \in Workers, asks'[w] # Evidence!Idle
      PROVE  asks'[w].seen < MaxCommits /\ (asks'[w].seen = moved' => Knows(asks[w])')
  <2> PICK d : d = asks'[w]
    OBVIOUS
  <2>1. d.seen < MaxCommits /\ (d.seen = moved => Knows(d))
    BY <1>2 DEF EvidenceTypes
  <2> QED BY <1>1, <2>1, KnowsStill
<1> QED BY <1>1, <1>2 DEF EvidenceTypes

\* The evidence rows and the requests are well typed (Evidence!EvidenceTypeOK), and a request whose
\* Matter has not moved still finds the rows its route found: the assertion, proposal or package
\* it is about exists, a proposal's kind, package and anchors are the ones the request holds.
THEOREM EvidenceTyped == ServicesSpec => []EvidenceTypes
<1>1. ServicesInit => EvidenceTypes
  <2> SUFFICES ASSUME Evidence!EvidenceInit PROVE EvidenceTypes
    BY DEF ServicesInit
  <2>1. Evidence!Idle \in Evidence!Asks
    BY DEF Evidence!Idle, Evidence!Asks
  <2>2. moved \in 1 .. MaxCommits /\ newest \in [Documents -> 1 .. MaxVersion]
    BY EvidenceBounds DEF Evidence!EvidenceInit
  <2> QED BY <2>1, <2>2 DEF EvidenceTypes, Evidence!EvidenceTypeOK, Evidence!EvidenceInit,
                            Evidence!References
<1>2. ASSUME EvidenceInv, EvidenceTypes, [ServicesNext]_servicesVars PROVE EvidenceTypes'
  <2>1. ASSUME NEW w \in Workers, Evidence!Review(w) PROVE EvidenceTypes'
    <3>1. CASE Evidence!Commit(w)
      BY <1>2, <3>1, LandedTypes
    <3>2. CASE Evidence!Refuse(w)
      <4>1. Evidence!Idle \in Evidence!Asks
        BY DEF Evidence!Idle, Evidence!Asks
      <4> QED BY <1>2, <3>2, <4>1, RefusedTypes
                 DEF Evidence!Refuse, Evidence!evidence, rows, EvidenceTypes,
                     Evidence!EvidenceTypeOK
    <3>3. CASE ~Evidence!Commit(w) /\ ~Evidence!Refuse(w)
      BY <1>2, <2>1, <3>3, RoutesKnow DEF Evidence!Review
    <3> QED BY <3>1, <3>2, <3>3
  <2>2. CASE InEvidence
    BY <1>2, <2>1, <2>2, NewerTypes DEF InEvidence, Evidence!EvidenceNext
  <2>3. CASE UNCHANGED evidenceVars
    BY <1>2, <2>3, RefusedTypes DEF evidenceVars, rows, EvidenceTypes, Evidence!EvidenceTypeOK
  <2> QED BY <1>2, <2>2, <2>3 DEF ServicesNext, servicesVars, InProposals, InPlay, InAccount,
                                  InLibrary, InContacts
<1> QED BY <1>1, <1>2, EvidenceKept, PTL DEF ServicesSpec

\* What no step takes back: the review of an anchor, the sources of an assertion and a decision on
\* it, a decided proposal, a link, a retirement with its replacement, and that a package was linked
\* or became stale.
DecisionsStand ==
    /\ \A a \in Evidence!Anchors :
          anchors[a] \in {"accepted", "rejected"} => anchors'[a] = anchors[a]
    /\ \A n \in DOMAIN assertions :
          /\ n \in DOMAIN assertions' /\ assertions'[n].sources = assertions[n].sources
          /\ NextStatus(assertions[n].status, assertions'[n].status)
    /\ \A n \in DOMAIN candidates :
          /\ n \in DOMAIN candidates'
          /\ candidates[n].state # "pending" => candidates'[n] = candidates[n]
    /\ links \subseteq links'
    /\ \A a \in DOMAIN retired : a \in DOMAIN retired' /\ retired'[a] = retired[a]
    /\ \A p \in Packages : /\ Evidence!Linked(p) => packages'[p].state # "unlinked"
                           /\ packages[p].state = "stale" => packages'[p] = packages[p]

\* No step of any service takes back a decision on the evidence of a Matter: not a later review,
\* not a batch that lands late, not the triggers, not a new version of a document (the routes under
\* api/dossiers/[dossierId] and the triggers of drizzle 0013, 0014, 0018, 0020 and 0021).
THEOREM EvidenceDecisionsStand == ServicesSpec => [][DecisionsStand]_evidenceVars
<1>1. ASSUME EvidenceInv, EvidenceTypes, [ServicesNext]_servicesVars
      PROVE  [DecisionsStand]_evidenceVars
  <2>1. ASSUME UNCHANGED <<anchors, assertions, links, candidates, retired, packages>>
        PROVE  DecisionsStand
    BY <2>1 DEF DecisionsStand, NextStatus, Evidence!Linked
  <2>2. ASSUME NEW c, Landing(c) PROVE DecisionsStand
    BY <1>1, <2>2, AnchorsEffect, AssertionsEffect, CandidatesEffect, LinksEffect, RetiredEffect,
       PackagesEffect DEF DecisionsStand, Landing
  <2> QED BY <1>1, <2>1, <2>2, EvidenceSteps DEF rows, Evidence!NewVersion
<1> QED BY <1>1, EvidenceKept, EvidenceTyped, PTL DEF ServicesSpec

-----------------------------------------------------------------------------
(* What the decisions rest on.                                             *)

\* The sources of an assertion are accepted anchors, and there are some.
SourcesAccepted ==
    \A n \in DOMAIN assertions :
        assertions[n].sources # {} /\ Evidence!Accepted(assertions[n].sources)

Decided(m) == m \in DOMAIN assertions /\ assertions[m].status \in {"accepted", "superseded"}

\* A link rests on an accepted anchor, an assertion that was accepted and a package that was linked.
LinksRest ==
    \A l \in links :
        /\ anchors[l.anchor] = "accepted"
        /\ l.assertion # 0 => Decided(l.assertion)
        /\ l.package # None => Evidence!Linked(l.package)

\* What an accepted proposal became, with the very anchors that were reviewed.
Became(c) ==
    /\ c.cites # {} /\ Evidence!Accepted(c.cites)
    /\ c.kind = "assertion" => \E m : Decided(m) /\ assertions[m].sources = c.cites
    /\ c.kind = "link" =>
          \E l \in links : l.anchor \in c.cites /\ l.assertion = 0 /\ l.package = c.package
    /\ c.kind = "graph" => c.package \in Packages /\ Evidence!Linked(c.package)

AcceptedBecame ==
    \A n \in DOMAIN candidates : candidates[n].state = "accepted" => Became(candidates[n])

\* An anchor is of a version that was uploaded; a retired one was accepted and is of an older
\* version, and so was accepted what replaces it.
RetiredRest ==
    /\ \A a \in Evidence!Anchors : anchors[a] # "absent" => Evidence!Stored(a)
    /\ \A a \in DOMAIN retired :
          /\ anchors[a] = "accepted" /\ a[2] < newest[a[1]]
          /\ retired[a] # None => anchors[retired[a]] = "accepted"

EvidenceFounded == SourcesAccepted /\ LinksRest /\ AcceptedBecame /\ RetiredRest

\* The order in which anchors were retired: one that replaced another was retired after it.
RetiredAt(at) ==
    \A a \in DOMAIN retired :
        /\ at[a] < moved
        /\ retired[a] # None /\ retired[a] \in DOMAIN retired => at[a] < at[retired[a]]

ReplacementsEnd == \E at \in [DOMAIN retired -> Nat] : RetiredAt(at)

LEMMA SourcesLand ==
    ASSUME EvidenceTypes, SourcesAccepted, NEW c, Landing(c) PROVE SourcesAccepted'
<1>1. ASSUME NEW S \in SUBSET Evidence!Anchors, Evidence!Accepted(S) PROVE Evidence!Accepted(S)'
  BY <1>1, AnchorsEffect DEF Landing, Evidence!Accepted
<1>2. ASSUME NEW n \in DOMAIN assertions'
      PROVE  assertions'[n].sources # {} /\ Evidence!Accepted(assertions[n].sources)'
  <2> PICK S : S = assertions'[n].sources
    OBVIOUS
  <2>1. S \in SUBSET Evidence!Anchors
    <3>1. assertions'[n] \in Evidence!Assertions
      BY <1>2, AssertionsEffect DEF Landing
    <3> QED BY <3>1 DEF Evidence!Assertions
  <2>2. S # {} /\ Evidence!Accepted(S)
    BY <1>2, AssertionsEffect DEF Landing, SourcesAccepted, Evidence!Sound
  <2> QED BY <1>1, <2>1, <2>2
<1> QED BY <1>2 DEF SourcesAccepted

LEMMA DecidedStays ==
    ASSUME EvidenceTypes, NEW c, Landing(c), NEW m, Decided(m)
    PROVE  Decided(m)' /\ assertions'[m].sources = assertions[m].sources
BY AssertionsEffect DEF Landing, Decided, NextStatus

LEMMA LinksLand ==
    ASSUME EvidenceTypes, LinksRest, NEW c, Landing(c) PROVE LinksRest'
<1>1. /\ \A a \in Evidence!Anchors : anchors[a] = "accepted" => anchors'[a] = "accepted"
      /\ \A p \in Packages : Evidence!Linked(p) => packages'[p].state # "unlinked"
      /\ links' \subseteq Evidence!EvidenceLinks
  BY AnchorsEffect, PackagesEffect, LinksEffect DEF Landing
<1>2. ASSUME NEW l \in links'
      PROVE  /\ anchors'[l.anchor] = "accepted"
             /\ l.assertion # 0 => Decided(l.assertion)'
             /\ l.package # None => Evidence!Linked(l.package)'
  <2>1. l.anchor \in Evidence!Anchors /\ l.package \in Packages \cup {None}
    BY <1>1, <1>2 DEF Evidence!EvidenceLinks
  <2>2. /\ anchors[l.anchor] = "accepted"
        /\ l.assertion # 0 => Decided(l.assertion)
        /\ l.package # None => Evidence!Linked(l.package)
    BY <1>2, LinksEffect DEF Landing, LinksRest, Decided, Evidence!CurrentPackages,
                             Evidence!Linked
  <2>3. l.assertion # 0 => Decided(l.assertion)'
    BY <2>2, DecidedStays
  <2> QED BY <1>1, <2>1, <2>2, <2>3 DEF Evidence!Linked
<1> QED BY <1>2 DEF LinksRest

LEMMA BecameStays ==
    ASSUME EvidenceTypes, NEW c, Landing(c), NEW d \in Evidence!Candidates, Became(d)
    PROVE  Became(d)'
<1>1. d.cites \in SUBSET Evidence!Anchors /\ d.package \in Packages \cup {None}
  BY DEF Evidence!Candidates
<1>2. Evidence!Accepted(d.cites)'
  BY <1>1, AnchorsEffect DEF Landing, Became, Evidence!Accepted
<1>3. d.kind = "assertion" => \E m : Decided(m)' /\ assertions'[m].sources = d.cites
  BY DecidedStays DEF Became
<1> QED BY <1>1, <1>2, <1>3, LinksEffect, PackagesEffect DEF Landing, Became, Evidence!Linked

LEMMA AcceptedLand ==
    ASSUME EvidenceTypes, AcceptedBecame, NEW c, Landing(c) PROVE AcceptedBecame'
<1>1. candidates' \in Seq(Evidence!Candidates) /\ c \in Evidence!Asks /\ Knows(c)
  BY CandidatesEffect DEF Landing, Lawful
<1>2. ASSUME NEW n \in DOMAIN candidates', candidates'[n].state = "accepted"
      PROVE  Became(candidates[n])'
  <2> PICK d : d = candidates'[n]
    OBVIOUS
  <2>1. d \in Evidence!Candidates
    BY <1>1
  <2>2. CASE n \in DOMAIN candidates /\ candidates'[n] = candidates[n]
    <3>1. Became(d)
      BY <1>2, <2>2 DEF AcceptedBecame
    <3>2. Became(d)'
      BY <2>1, <3>1, BecameStays
    <3> QED BY <3>2
  <2>3. CASE /\ c.op = "package" \/ (c.op = "reviewProposal" /\ c.accept)
             /\ Evidence!Sound(c.cites)
             /\ candidates'[n].cites = c.cites /\ candidates'[n].package = c.package
             /\ c.op = "package" => candidates'[n].kind = "graph"
             /\ c.op = "reviewProposal" => candidates'[n].kind = c.kind
    <3>1. c.cites \in SUBSET Evidence!Anchors
      BY <1>1, AskFields
    <3>2. d.cites # {} /\ Evidence!Accepted(d.cites)'
      BY <2>3, <3>1, AnchorsEffect DEF Landing, Evidence!Sound, Evidence!Accepted
    <3>3. d.kind = "assertion" => \E m : Decided(m)' /\ assertions'[m].sources = d.cites
      BY <2>3, AssertionsEffect DEF Landing, Decided
    <3>4. d.kind = "link" =>
             \E l \in links' : l.anchor \in d.cites /\ l.assertion = 0 /\ l.package = d.package
      BY <2>3, LinksEffect DEF Landing
    <3>5. d.kind = "graph" => c.op = "package" /\ c.package \in Packages
      BY <1>1, <2>3 DEF Knows
    <3>6. d.kind = "graph" => d.package \in Packages /\ Evidence!Linked(d.package)'
      BY <2>3, <3>5, PackagesEffect DEF Landing, Evidence!Linked
    <3> QED BY <3>2, <3>3, <3>4, <3>6 DEF Became
  <2> QED BY <1>2, <2>2, <2>3, CandidatesEffect DEF Landing
<1> QED BY <1>2 DEF AcceptedBecame

LEMMA RetiredLand ==
    ASSUME EvidenceTypes, RetiredRest, NEW c, Landing(c) PROVE RetiredRest'
<1>1. /\ newest' = newest /\ newest \in [Documents -> 1 .. MaxVersion]
      /\ \A a \in Evidence!Anchors : anchors[a] = "accepted" => anchors'[a] = "accepted"
      /\ DOMAIN retired \subseteq Evidence!Anchors
      /\ \A a \in DOMAIN retired : retired[a] \in Evidence!Anchors \cup {None}
  BY AnchorsEffect DEF Landing, EvidenceTypes, Evidence!EvidenceTypeOK
<1>2. \A a \in Evidence!Anchors : anchors'[a] # "absent" => Evidence!Stored(a)
  BY AnchorsEffect DEF Landing, RetiredRest
<1>3. ASSUME NEW a \in DOMAIN retired'
      PROVE  /\ anchors'[a] = "accepted" /\ a[2] < newest[a[1]]
             /\ retired'[a] # None => anchors'[retired'[a]] = "accepted"
  <2>1. CASE a \in DOMAIN retired
    BY <1>1, <2>1, RetiredEffect DEF Landing, RetiredRest
  <2>2. CASE a \notin DOMAIN retired
    <3>1. /\ a \in Evidence!Anchors /\ anchors[a] = "accepted" /\ ~Evidence!IsCurrent(a)
          /\ retired'[a] # None => retired'[a] \in Evidence!Anchors
                                   /\ anchors[retired'[a]] = "accepted"
      BY <1>3, <2>2, RetiredEffect DEF Landing
    <3>2. Evidence!Stored(a)
      BY <3>1 DEF RetiredRest
    <3>3. a[2] \in Int /\ newest[a[1]] \in Int
      BY <1>1, <3>1, EvidenceBounds DEF Evidence!Anchors
    <3>4. a[2] < newest[a[1]]
      BY <3>1, <3>2, <3>3 DEF Evidence!Stored, Evidence!IsCurrent
    <3> QED BY <1>1, <3>1, <3>4
  <2> QED BY <2>1, <2>2
<1> QED BY <1>1, <1>2, <1>3 DEF RetiredRest, Evidence!Stored

LEMMA NewerFounded ==
    ASSUME EvidenceTypes, EvidenceFounded, Evidence!NewVersion PROVE EvidenceFounded'
<1>1. UNCHANGED <<anchors, assertions, links, candidates, retired, packages>>
  BY DEF Evidence!NewVersion
<1>2. SourcesAccepted' /\ LinksRest' /\ AcceptedBecame'
  BY <1>1 DEF EvidenceFounded, SourcesAccepted, LinksRest, AcceptedBecame, Became, Decided,
              Evidence!Accepted, Evidence!Linked
<1>3. \A d \in Documents : newest[d] \in Int /\ newest'[d] \in Int /\ newest[d] <= newest'[d]
  BY EvidenceBounds DEF Evidence!NewVersion, EvidenceTypes, Evidence!EvidenceTypeOK
<1>4. \A a \in Evidence!Anchors : a[2] \in Int /\ a[1] \in Documents
  BY EvidenceBounds DEF Evidence!Anchors
<1>5. DOMAIN retired \subseteq Evidence!Anchors
  BY DEF EvidenceTypes, Evidence!EvidenceTypeOK
<1>6. RetiredRest'
  <2>1. ASSUME NEW a \in Evidence!Anchors, a[2] <= newest[a[1]] PROVE a[2] <= newest'[a[1]]
    BY <1>3, <1>4, <2>1
  <2>2. ASSUME NEW a \in Evidence!Anchors, a[2] < newest[a[1]] PROVE a[2] < newest'[a[1]]
    BY <1>3, <1>4, <2>2
  <2> QED BY <1>1, <1>5, <2>1, <2>2 DEF EvidenceFounded, RetiredRest, Evidence!Stored
<1> QED BY <1>2, <1>6 DEF EvidenceFounded

\* What is accepted rests on what was accepted: an assertion on accepted anchors, a link on an
\* accepted anchor, on an assertion that was accepted or on a package that was linked; an accepted
\* proposal became exactly the assertion, the link or the package it proposed, with the anchors
\* that were reviewed; a retired anchor was accepted and is outdated, as its replacement was
\* accepted (the routes under api/dossiers/[dossierId] with the triggers of drizzle 0013, 0014,
\* 0018, 0020 and 0021, whatever lands between a route's reads and its batch).
THEOREM EvidenceIsFounded == ServicesSpec => []EvidenceFounded
<1>1. ServicesInit => EvidenceFounded
  <2> SUFFICES ASSUME Evidence!EvidenceInit PROVE EvidenceFounded
    BY DEF ServicesInit
  <2>1. DOMAIN assertions = {} /\ DOMAIN candidates = {} /\ links = {} /\ DOMAIN retired = {}
    BY DEF Evidence!EvidenceInit
  <2>2. \A a \in Evidence!Anchors : anchors[a] = "absent"
    BY DEF Evidence!EvidenceInit
  <2> QED BY <2>1, <2>2 DEF EvidenceFounded, SourcesAccepted, LinksRest, AcceptedBecame, RetiredRest
<1>2. ASSUME EvidenceInv, EvidenceTypes, EvidenceFounded, [ServicesNext]_servicesVars
      PROVE  EvidenceFounded'
  <2>1. CASE UNCHANGED rows
    BY <1>2, <2>1 DEF rows, EvidenceFounded, SourcesAccepted, LinksRest, AcceptedBecame, Became,
                  Decided, RetiredRest, Evidence!Accepted, Evidence!Linked, Evidence!Stored
  <2>2. CASE Evidence!NewVersion
    BY <1>2, <2>2, NewerFounded
  <2>3. ASSUME NEW c, Landing(c) PROVE EvidenceFounded'
    BY <1>2, <2>3, SourcesLand, LinksLand, AcceptedLand, RetiredLand DEF EvidenceFounded
  <2> QED BY <1>2, <2>1, <2>2, <2>3, EvidenceSteps
<1> QED BY <1>1, <1>2, EvidenceKept, EvidenceTyped, PTL DEF ServicesSpec

\* Replacements of retired anchors never run in a circle: each retired anchor was retired before
\* whatever replaces it, so that following replacements ends at an anchor that still holds
\* (retirement route and trigger, which both ask that the replacement is not retired itself).
THEOREM ReplacementsAreOrdered == ServicesSpec => []ReplacementsEnd
<1>1. ServicesInit => ReplacementsEnd
  <2> SUFFICES ASSUME Evidence!EvidenceInit PROVE ReplacementsEnd
    BY DEF ServicesInit
  <2>1. DOMAIN retired = {}
    BY DEF Evidence!EvidenceInit
  <2>2. [a \in DOMAIN retired |-> 0] \in [DOMAIN retired -> Nat]
    OBVIOUS
  <2> QED BY <2>1, <2>2 DEF ReplacementsEnd, RetiredAt
<1>2. ASSUME EvidenceInv, EvidenceTypes, ReplacementsEnd, [ServicesNext]_servicesVars
      PROVE  ReplacementsEnd'
  <2> PICK at \in [DOMAIN retired -> Nat] : RetiredAt(at)
    BY <1>2 DEF ReplacementsEnd
  <2>0. moved \in Nat
    BY <1>2 DEF EvidenceInv
  <2>1. CASE UNCHANGED <<moved, retired>>
    BY <2>1 DEF ReplacementsEnd, RetiredAt
  <2>2. CASE moved' = moved + 1 /\ retired' = retired
    <3>1. RetiredAt(at)'
      BY <2>0, <2>2 DEF RetiredAt
    <3> QED BY <2>2, <3>1 DEF ReplacementsEnd
  <2>3. ASSUME NEW c, Landing(c) PROVE ReplacementsEnd'
    <3>1. /\ moved' = moved + 1
          /\ \A a \in DOMAIN retired : a \in DOMAIN retired' /\ retired'[a] = retired[a]
          /\ \A a \in DOMAIN retired' \ DOMAIN retired :
                retired'[a] # None => retired'[a] \notin DOMAIN retired'
      BY <1>2, <2>3, RetiredEffect DEF Landing
    <3> PICK then : then = [a \in DOMAIN retired' |-> IF a \in DOMAIN retired THEN at[a] ELSE moved]
      OBVIOUS
    <3>2. then \in [DOMAIN retired' -> Nat]
      BY <2>0
    <3>3. ASSUME NEW a \in DOMAIN retired'
          PROVE  /\ then[a] < moved'
                 /\ retired'[a] # None /\ retired'[a] \in DOMAIN retired' =>
                       then[a] < then[retired'[a]]
      <4>1. CASE a \in DOMAIN retired
        <5> PICK b : b = retired[a]
          OBVIOUS
        <5>1. at[a] \in Nat /\ at[a] < moved /\ then[a] = at[a] /\ retired'[a] = b
          BY <3>1, <4>1 DEF RetiredAt
        <5>2. b # None /\ b \in DOMAIN retired' => at[a] < then[b]
          BY <5>1, <4>1 DEF RetiredAt
        <5> QED BY <2>0, <3>1, <5>1, <5>2
      <4>2. CASE a \notin DOMAIN retired
        BY <2>0, <3>1, <3>3, <4>2
      <4> QED BY <4>1, <4>2
    <3>4. RetiredAt(then)'
      BY <3>3 DEF RetiredAt
    <3> QED BY <3>2, <3>4 DEF ReplacementsEnd
  <2> QED BY <1>2, <2>1, <2>2, <2>3, EvidenceSteps DEF rows, Evidence!NewVersion
<1> QED BY <1>1, <1>2, EvidenceKept, EvidenceTyped, PTL DEF ServicesSpec

-----------------------------------------------------------------------------
(* The firm's contacts: what their rows hold, and what stays.              *)

\* A person's company is there, and is one.
InFirm(p) ==
    p.company # None => /\ p.company \in Contacts!Present
                        /\ contacts[p.company].profile.kind = "company"

\* A contact that is there has a profile whose company is there, and is a company; the case is
\* linked to contacts that are there.
ProfilesRest ==
    /\ \A i \in Contacts!Present :
          /\ contacts[i].status \in {"active", "archived"}
          /\ contacts[i].profile \in Contacts!Profiles
          /\ InFirm(contacts[i].profile)
    /\ caseLinks \subseteq Contacts!Present
    /\ contactFaults \in 0 .. MaxContactFaults

\* No step takes a contact away, makes a company of a person or a person of a company, takes back
\* a revision, or changes a receipt.
ContactsStay ==
    /\ \A i \in Contacts!Present :
          /\ i \in Contacts!Present' /\ contacts'[i].profile.kind = contacts[i].profile.kind
          /\ contacts[i].revision <= contacts'[i].revision
    /\ \A k \in OpKeys : receipts[k] # None => receipts'[k] = receipts[k]

\* The profile a command writes is one.
LEMMA ProfileWritten ==
    ASSUME NEW k, NEW cmd, WellFormed(cmd), Writes(cmd), NEW i \in Contacts!Changed(k, cmd)
    PROVE  /\ Contacts!Written(k, cmd)[i] \in Contacts!Profiles
           /\ cmd.action = "edit" =>
                 i = cmd.id /\ Contacts!Written(k, cmd)[i] = cmd.profiles[1]
<1>1. \A n \in DOMAIN cmd.profiles : cmd.profiles[n] \in Contacts!Profiles
  BY DEF WellFormed, Contacts!Commands
<1>2. i \in DOMAIN Contacts!Written(k, cmd)
  BY DEF Writes, Contacts!Changed
<1>3. CASE cmd.action = "edit"
  BY <1>1, <1>2, <1>3 DEF Contacts!Written, WellFormed
<1>4. CASE cmd.action # "edit"
  BY <1>1, <1>2, <1>4 DEF Contacts!Written
<1> QED BY <1>3, <1>4

\* What a batch leaves of one contact.
LEMMA ProfileLeft ==
    ASSUME ContactRows, Appeared, ProfilesRest, NEW k, NEW cmd, SavedBy(k, cmd),
           NEW i \in Contacts!Ids
    PROVE  /\ i \in Contacts!Present => /\ i \in Contacts!Present'
                                        /\ contacts'[i].profile.kind = contacts[i].profile.kind
                                        /\ contacts[i].revision <= contacts'[i].revision
           /\ i \in Contacts!Present' => /\ contacts'[i].status \in {"active", "archived"}
                                         /\ contacts'[i].profile \in Contacts!Profiles
                                         /\ InFirm(contacts'[i].profile)
<1>1. CASE i \notin Contacts!Changed(k, cmd)
  <2>1. contacts'[i] = contacts[i] /\ contacts[i].revision \in Nat
    BY <1>1, SavedRevisions
  <2>2. i \in Contacts!Present' <=> i \in Contacts!Present
    BY <2>1 DEF Contacts!Present
  <2> PICK p : p = contacts[i].profile
    OBVIOUS
  <2>3. p = contacts'[i].profile
    BY <2>1
  <2>4. i \in Contacts!Present => /\ contacts[i].status \in {"active", "archived"}
                                  /\ p \in Contacts!Profiles /\ InFirm(p)
    BY DEF ProfilesRest
  <2> QED BY <2>1, <2>2, <2>3, <2>4
<1>2. CASE i \in Contacts!Changed(k, cmd)
  <2> PICK c : c = contacts'[i]
    OBVIOUS
  <2>1. /\ c = Contacts!After(k, cmd, i) /\ c.revision = contacts[i].revision + 1
        /\ contacts[i].revision \in Nat
    BY <1>2, SavedRevisions
  <2>2. /\ c.status \in {"active", "archived"}
        /\ Writes(cmd) => c.profile = Contacts!Written(k, cmd)[i]
        /\ ~Writes(cmd) => c.profile = contacts[i].profile
    <3>1. WellFormed(cmd)
      BY DEF SavedBy
    <3>2. /\ Contacts!After(k, cmd, i).status \in {"active", "archived"}
          /\ Writes(cmd) => Contacts!After(k, cmd, i).profile = Contacts!Written(k, cmd)[i]
          /\ ~Writes(cmd) => Contacts!After(k, cmd, i).profile = contacts[i].profile
      BY <3>1, LeftAs
    <3>3. c = Contacts!After(k, cmd, i)
      BY <2>1
    <3> QED BY <3>2, <3>3
  <2>3. i \in Contacts!Present'
    BY <2>2 DEF Contacts!Present
  <2>4. CASE ~Writes(cmd)
    <3>1. i \in Contacts!Present
      BY <1>2, <2>4, Guarded DEF Writes
    <3> PICK p : p = contacts[i].profile
      OBVIOUS
    <3>2. p \in Contacts!Profiles /\ InFirm(p)
      BY <3>1 DEF ProfilesRest
    <3>3. p = c.profile
      BY <2>2, <2>4
    <3> QED BY <2>1, <2>2, <2>3, <3>2, <3>3
  <2>5. CASE Writes(cmd)
    <3> PICK p : p = Contacts!Written(k, cmd)[i]
      OBVIOUS
    <3>1. p \in Contacts!Profiles /\ (cmd.action = "edit" => i = cmd.id /\ p = cmd.profiles[1])
      BY <1>2, <2>5, ProfileWritten DEF SavedBy
    <3>2. InFirm(p)
      BY <1>2, <2>5, Guarded DEF Contacts!MayWrite, InFirm
    <3>3. cmd.action = "edit" => contacts[i].profile.kind = p.kind
      BY <3>1 DEF SavedBy, Contacts!Guards
    <3>4. cmd.action # "edit" => i \notin Contacts!Present
      <4>1. cmd.action # "edit" => cmd.action \in {"create", "import"}
        BY <2>5 DEF Writes
      <4>2. cmd.action # "edit" => i[1] = k
        BY <1>2, <4>1, Guarded
      <4>3. receipts[k] = None
        BY DEF SavedBy
      <4> QED BY <4>2, <4>3 DEF Appeared
    <3>5. c.profile = p
      BY <2>2, <2>5
    <3>6. contacts[i].revision <= c.revision
      BY <2>1
    <3>7. i \in Contacts!Present => contacts[i].profile.kind = p.kind
      BY <3>3, <3>4
    <3> QED BY <2>2, <2>3, <3>1, <3>2, <3>5, <3>6, <3>7
  <2> QED BY <2>4, <2>5
<1> QED BY <1>1, <1>2

LEMMA BatchStays ==
    ASSUME ContactRows, Appeared, ProfilesRest, NEW k, NEW cmd, SavedBy(k, cmd)
    PROVE  /\ ContactsStay
           /\ \A i \in Contacts!Present' : /\ contacts'[i].status \in {"active", "archived"}
                                           /\ contacts'[i].profile \in Contacts!Profiles
                                           /\ InFirm(contacts[i].profile)'
<1>1. \A o \in OpKeys : receipts[o] # None => receipts'[o] = receipts[o]
  BY DEF ContactRows, SavedBy
<1>2. \A i \in Contacts!Present : i \in Contacts!Ids
  BY DEF Contacts!Present
<1>3. \A i \in Contacts!Present : /\ i \in Contacts!Present'
                                  /\ contacts'[i].profile.kind = contacts[i].profile.kind
                                  /\ contacts[i].revision <= contacts'[i].revision
  BY <1>2, ProfileLeft
<1>4. ASSUME NEW i \in Contacts!Present'
      PROVE  /\ contacts'[i].status \in {"active", "archived"}
             /\ contacts'[i].profile \in Contacts!Profiles
             /\ InFirm(contacts[i].profile)'
  <2> PICK p : p = contacts'[i].profile
    OBVIOUS
  <2>1. i \in Contacts!Ids
    BY DEF Contacts!Present
  <2>2. /\ contacts'[i].status \in {"active", "archived"} /\ p \in Contacts!Profiles
        /\ InFirm(p)
    BY <1>4, <2>1, ProfileLeft
  <2>3. p.company # None =>
           p.company \in Contacts!Present' /\ contacts'[p.company].profile.kind = "company"
    BY <1>3, <2>2 DEF InFirm
  <2> QED BY <2>2, <2>3 DEF InFirm
<1> QED BY <1>1, <1>3, <1>4 DEF ContactsStay

LEMMA LinksStay ==
    ASSUME Contacts!ContactsNext,
           \A h \in Workers : Contacts!Batch(h) =>
              ~Contacts!Guards(post[h].key, post[h].command)
    PROVE  UNCHANGED <<contacts, caseLinks, receipts>>
BY DEF Contacts!ContactsNext, Contacts!Save, Contacts!SaveAgain, Contacts!Send,
       Contacts!Operation, Contacts!Prior, Contacts!Batch, Contacts!Recheck, Contacts!PostFails,
       Contacts!Unheard, Contacts!Receive, Contacts!TimesOut, Contacts!Close, Contacts!Leave,
       Contacts!Exclude, Contacts!Tables

LEMMA FaultsCount ==
    ASSUME contactFaults \in 0 .. MaxContactFaults, Contacts!ContactsNext
    PROVE  contactFaults' \in 0 .. MaxContactFaults
<1>1. MaxContactFaults \in Nat
  BY ServicesConstants DEF ServicesConstants, Contacts!ContactsConstants
<1>2. \/ UNCHANGED contactFaults
      \/ contactFaults < MaxContactFaults /\ contactFaults' = contactFaults + 1
  BY DEF Contacts!ContactsNext, Contacts!Save, Contacts!SaveAgain, Contacts!Send,
       Contacts!Operation, Contacts!Prior, Contacts!Batch, Contacts!Recheck, Contacts!PostFails,
       Contacts!Unheard, Contacts!Receive, Contacts!TimesOut, Contacts!Close, Contacts!Leave,
       Contacts!Exclude
<1> QED BY <1>1, <1>2

\* A batch links the contact it was asked about, or unlinks it.
LEMMA LinkedStay ==
    ASSUME ContactRows, Appeared, ProfilesRest, NEW k, NEW cmd, SavedBy(k, cmd),
           caseLinks' = CASE cmd.action = "link"   -> caseLinks \cup {cmd.id}
                          [] cmd.action = "unlink" -> caseLinks \ {cmd.id}
                          [] OTHER                 -> caseLinks
    PROVE  caseLinks' \subseteq Contacts!Present'
<1>1. caseLinks \subseteq Contacts!Present'
  BY BatchStays DEF ProfilesRest, ContactsStay
<1>2. CASE cmd.action = "link"
  <2>1. cmd.id \in Contacts!Present'
    <3>1. cmd.id \in Contacts!Ids
      BY <1>2 DEF SavedBy, WellFormed
    <3>2. contacts[cmd.id].status = "active"
      BY <1>2 DEF SavedBy, Contacts!Guards, Contacts!Revises
    <3>3. cmd.id \in Contacts!Present
      BY <3>1, <3>2 DEF Contacts!Present
    <3> QED BY <3>3, BatchStays DEF ContactsStay
  <2> QED BY <1>1, <1>2, <2>1
<1>3. CASE cmd.action # "link"
  BY <1>1, <1>3
<1> QED BY <1>2, <1>3

\* What a step of the services does to the contacts.
LEMMA ContactsMove ==
    ASSUME ReviewInv, ProfilesRest, [ServicesNext]_servicesVars
    PROVE  ContactsStay /\ ProfilesRest'
<1> ContactRows /\ Appeared
  BY DEF ReviewInv, ContactsInv, ContactsKept, ReviewsKept
<1>1. ASSUME UNCHANGED <<contacts, caseLinks, receipts>>
      PROVE  ContactsStay /\ (contactFaults' \in 0 .. MaxContactFaults => ProfilesRest')
  <2>1. Contacts!Present' = Contacts!Present
    BY <1>1 DEF Contacts!Present
  <2>2. \A i \in Contacts!Present : contacts[i].revision <= contacts[i].revision
    BY DEF ContactRows, Contacts!Present
  <2> QED BY <1>1, <2>1, <2>2 DEF ContactsStay, ProfilesRest, InFirm
<1>2. ASSUME NEW h \in Workers, Contacts!Batch(h),
             Contacts!Guards(post[h].key, post[h].command)
      PROVE  ContactsStay /\ (contactFaults' \in 0 .. MaxContactFaults => ProfilesRest')
  <2> PICK asked : AskedBy(asked)
    BY DEF ReviewInv, ContactsInv
  <2> PICK k, cmd : k = post[h].key /\ cmd = post[h].command
    OBVIOUS
  <2>1. SavedBy(k, cmd)
    BY <1>2, BatchSaved DEF ReviewInv, ContactsInv
  <2>2. caseLinks' = CASE cmd.action = "link"   -> caseLinks \cup {cmd.id}
                       [] cmd.action = "unlink" -> caseLinks \ {cmd.id}
                       [] OTHER                 -> caseLinks
    BY <1>2 DEF Contacts!Batch
  <2>3. caseLinks' \subseteq Contacts!Present'
    BY <2>1, <2>2, LinkedStay
  <2> QED BY <2>1, <2>3, BatchStays DEF ProfilesRest
<1>3. CASE InContacts
  BY <1>1, <1>2, <1>3, LinksStay, FaultsCount DEF InContacts, ProfilesRest
<1>4. CASE UNCHANGED contactVars
  BY <1>1, <1>4 DEF contactVars, ProfilesRest
<1> QED BY <1>3, <1>4 DEF ServicesNext, servicesVars, InProposals, InPlay, InAccount, InEvidence,
                          InLibrary

LEMMA ProfilesStand == ServicesSpec => []ProfilesRest
<1>1. ServicesInit => ProfilesRest
  <2> SUFFICES ASSUME Contacts!ContactsInit PROVE ProfilesRest
    BY DEF ServicesInit
  <2>1. Contacts!Present = {}
    BY DEF Contacts!ContactsInit, Contacts!Present, Contacts!Absent
  <2>2. MaxContactFaults \in Nat
    BY ServicesConstants DEF ServicesConstants, Contacts!ContactsConstants
  <2> QED BY <2>1, <2>2 DEF Contacts!ContactsInit, ProfilesRest
<1>2. ReviewInv /\ ProfilesRest /\ [ServicesNext]_servicesVars => ProfilesRest'
  BY ContactsMove
<1> QED BY <1>1, <1>2, ReviewsStand, PTL DEF ServicesSpec

\* The rows of the contacts are well typed, and the contacts refer to contacts that are there: a
\* person's company to a company, the case to its participants (addProfile and the link command of
\* the contacts route, which look again in the batch).
THEOREM ContactsAreTyped ==
    ServicesSpec => [](Contacts!ContactsTypeOK
                       /\ \A i \in Contacts!Present : InFirm(contacts[i].profile))
<1>1. ReviewInv /\ ProfilesRest =>
         Contacts!ContactsTypeOK /\ \A i \in Contacts!Present : InFirm(contacts[i].profile)
  <2> SUFFICES ASSUME ReviewInv, ProfilesRest
               PROVE  /\ Contacts!ContactsTypeOK
                      /\ \A i \in Contacts!Present : InFirm(contacts[i].profile)
    OBVIOUS
  <2>1. ContactRows /\ Appeared
    BY DEF ReviewInv, ContactsInv, ContactsKept, ReviewsKept
  <2>2. \A i \in Contacts!Present : contacts[i].revision \in Nat \ {0}
    BY <2>1 DEF ContactRows, Appeared, Contacts!Present
  <2>3. \A d \in Tabs : desk[d].waits \in Workers \cup {None}
    BY <2>1 DEF ContactRows, Pendings
  <2>4. receipts \in [OpKeys -> Contacts!Commands \cup {None}]
    BY <2>1 DEF ContactRows
  <2> QED BY <2>2, <2>3, <2>4 DEF ProfilesRest, Contacts!ContactsTypeOK
<1> QED BY <1>1, ReviewsStand, ProfilesStand, PTL

\* Contacts stay: no command, retry, undo or late answer removes one, changes whether it is a
\* person or a company, takes back a revision or rewrites a receipt (the batch of the contacts
\* route; firm_contact_operations has one row per key for good).
THEOREM ContactsAreKept == ServicesSpec => [][ContactsStay]_contactVars
<1>1. ReviewInv /\ ProfilesRest /\ [ServicesNext]_servicesVars => [ContactsStay]_contactVars
  BY ContactsMove
<1> QED BY <1>1, ReviewsStand, ProfilesStand, PTL DEF ServicesSpec
=============================================================================
