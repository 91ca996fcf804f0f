------------------------------ MODULE Services ------------------------------
(***************************************************************************)
(* The services that share no state with one another.  A behaviour         *)
(* exercises one of them, its part, and the others rest; what holds of a   *)
(* service in such a behaviour holds of it beside the others, too.         *)
(***************************************************************************)
EXTENDS ProposalJobs

CONSTANTS
    Users, SessionKeys, EventIds, MaxEvents, MaxPlayFaults,          \* PlaySessions
    MaxChanges, MaxLinks,                                            \* LocalAccounts
    Documents, MaxVersion, Packages, Parent, MaxCommits,             \* MatterEvidence
    Tabs, LibraryKeys, Contents, Paths, MaxSends, MaxLibraryFaults,  \* FirmLibrary
    OpKeys, Names, MaxImport, MaxPosts, MaxContactFaults             \* FirmContacts

VARIABLES
    part,
    session, log, play, acked, playFaults,
    password, changedAt, codes, tokens, issued, mailed, promised, expired, sessions, auth,
    moved, newest, anchors, assertions, links, candidates, retired, packages, asks,
    upload, saved, stored, member, call, tab, told, sent, libraryFaults,
    contacts, caseLinks, receipts, access, current, post, desk, confirmed, posted, contactFaults

Play     == INSTANCE PlaySessions
Account  == INSTANCE LocalAccounts
Evidence == INSTANCE MatterEvidence
Firm     == INSTANCE FirmLibrary WITH Calls <- Workers, Keys <- LibraryKeys
Contacts == INSTANCE FirmContacts WITH Posts <- Workers, Desks <- Tabs

ASSUME ServicesConstants ==
    /\ Play!PlayConstants /\ Account!AccountConstants
    /\ Evidence!EvidenceConstants /\ Firm!LibraryConstants /\ Contacts!ContactsConstants

playVars == <<session, log, play, acked, playFaults>>
accountVars ==
    <<password, changedAt, codes, tokens, issued, mailed, promised, expired, sessions, auth>>
evidenceVars ==
    <<moved, newest, anchors, assertions, links, candidates, retired, packages, asks>>
libraryVars == <<upload, saved, stored, member, call, tab, told, sent, libraryFaults>>
contactVars == <<contacts, caseLinks, receipts, access, current, post, desk, confirmed,
                 posted, contactFaults>>

\* A part beside these, of which nothing is said here, rests in all of them.
Parts == {"proposals", "play", "account", "evidence", "library", "contacts", "scenario"}

ServicesInit ==
    /\ part \in Parts
    /\ ProposalInit /\ Play!PlayInit /\ Account!AccountInit /\ Evidence!EvidenceInit
    /\ Firm!LibraryInit /\ Contacts!ContactsInit

InProposals ==
    /\ part = "proposals" /\ ProposalNext
    /\ UNCHANGED <<playVars, accountVars, evidenceVars,
                   libraryVars, contactVars>>
InPlay ==
    /\ part = "play" /\ Play!PlayNext
    /\ UNCHANGED <<proposalVars, accountVars, evidenceVars,
                   libraryVars, contactVars>>
InAccount ==
    /\ part = "account" /\ Account!AccountNext
    /\ UNCHANGED <<proposalVars, playVars, evidenceVars,
                   libraryVars, contactVars>>
InEvidence ==
    /\ part = "evidence" /\ Evidence!EvidenceNext
    /\ UNCHANGED <<proposalVars, playVars, accountVars,
                   libraryVars, contactVars>>
InLibrary ==
    /\ part = "library" /\ Firm!LibraryNext
    /\ UNCHANGED <<proposalVars, playVars, accountVars, evidenceVars,
                   contactVars>>
InContacts ==
    /\ part = "contacts" /\ Contacts!ContactsNext
    /\ UNCHANGED <<proposalVars, playVars, accountVars, evidenceVars,
                   libraryVars>>

ServicesNext ==
    /\ InProposals \/ InPlay \/ InAccount \/ InEvidence \/ InLibrary \/ InContacts
    /\ UNCHANGED part

servicesVars == <<part, proposalVars, playVars, accountVars, evidenceVars,
                  libraryVars, contactVars>>

ServicesSpec == ServicesInit /\ [][ServicesNext]_servicesVars

-----------------------------------------------------------------------------

\* The properties of the services under names of their own; each is stated where it is defined.
StateIsLog             == part = "play" => Play!StateIsLog
AckedIsDone            == part = "play" => Play!AckedIsDone
OneWayBack             == part = "account" => Account!OneWayBack
SessionsOfThisPassword == part = "account" => Account!SessionsOfThisPassword
PromisedLinkLives      == part = "account" => Account!PromisedLinkLives
GuardsAgree            == part = "evidence" => Evidence!GuardsAgree
PackageLine            == part = "evidence" => Evidence!PackageLine
NoticesTrue            == part = "library" => Firm!NoticesTrue
VersionsBacked         == part = "library" => Firm!VersionsBacked
ReceiptsTellContacts   == part = "contacts" => Contacts!ReceiptsTellContacts
MatchesReviewed        == part = "contacts" => Contacts!MatchesReviewed
=============================================================================
