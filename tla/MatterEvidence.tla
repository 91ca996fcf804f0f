--------------------------- MODULE MatterEvidence ---------------------------
(***************************************************************************)
(* The reviewed evidence of one Matter: source anchors in its documents,   *)
(* the assertions and links that rest on them, AI proposals and what is    *)
(* made of them, retired citations, and the linked decision packages.      *)
(*                                                                         *)
(* Every route reads the Matter's revision and the rows it needs, checks   *)
(* them, and commits one D1 batch that compares the revision and moves it  *)
(* on.  The database checks the rows a second time, in triggers and unique *)
(* indexes written apart from the routes; whatever stops the batch, the    *)
(* route answers that the Matter changed.  Outputs, audit events and the   *)
(* receipt of the batch are in MatterGovernance.                           *)
(***************************************************************************)
EXTENDS Integers, Sequences

CONSTANTS
    Workers,        \* requests in flight
    Documents,
    MaxVersion,     \* bound: versions of a document
    Packages,       \* published decision packages
    Parent,         \* the published parent of a package, or None
    MaxCommits,     \* bound: the last revision of the Matter
    None

EvidenceConstants ==
    /\ Parent \in [Packages -> Packages \cup {None}]
    /\ MaxVersion \in Nat \ {0} /\ MaxCommits \in Nat \ {0}

VARIABLES
    moved,          \* dossiers.revision
    newest,         \* the current version of each document
    anchors,        \* the review state of dossier_source_anchors
    assertions,     \* dossier_professional_assertions with their sources
    links,          \* dossier_evidence_links
    candidates,     \* dossier_ai_proposals with their anchors
    retired,        \* dossier_source_anchor_retirements: anchor to replacement
    packages,       \* dossier_decision_package_references
    asks            \* what each request in flight holds in memory

evidence == <<moved, newest, anchors, assertions, links, candidates, retired, packages>>
evidenceVars == <<evidence, asks>>

-----------------------------------------------------------------------------
(* Records.                                                                *)

\* One citation into each version of a document; its checksum is its identity.
Anchors == Documents \X (1 .. MaxVersion)

Assertions == [status : {"needs_review", "accepted", "rejected", "superseded"},
               sources : SUBSET Anchors]

\* A link supports an assertion, or a part of a package's graph.
EvidenceLinks == [anchor : Anchors, assertion : Nat, package : Packages \cup {None}]

\* What a proposal would become; a link or a graph change is about a package.
Candidates == [state : {"pending", "accepted", "rejected"}, cites : SUBSET Anchors,
               kind : {"assertion", "link", "graph"}, package : Packages \cup {None}]

\* by: the package whose link made this one stale.
References == [state : {"unlinked", "current", "stale"}, by : Packages \cup {None}]

EvidenceOps == {"anchor", "reviewAnchor", "assertion", "reviewAssertion", "supersede", "link",
                "propose", "sources", "reviewProposal", "retire", "package"}

\* on: the assertion or proposal asked about, or 0.  with: the replacement of a retired anchor.
Asks == [op : EvidenceOps \cup {"none"}, seen : Nat, cites : SUBSET Anchors, on : Nat,
         kind : {"assertion", "link", "graph"}, package : Packages \cup {None},
         with : Anchors \cup {None}, accept : BOOLEAN]

Idle == [op |-> "none", seen |-> 0, cites |-> {}, on |-> 0, kind |-> "assertion",
         package |-> None, with |-> None, accept |-> FALSE]

-----------------------------------------------------------------------------
(* What the routes and the triggers look up.                               *)

Accepted(S) == \A a \in S : anchors[a] = "accepted"
hasRetiredCitation(S) == S \cap DOMAIN retired # {}
Sound(S) == S # {} /\ Accepted(S) /\ ~hasRetiredCitation(S)

IsCurrent(a) == a[2] = newest[a[1]]
Stored(a) == a[2] <= newest[a[1]]

CurrentPackages == {p \in Packages : packages[p].state = "current"}
Linked(p) == packages[p].state # "unlinked"

\* A command whose route let it through, with what it read; nothing is committed yet.
Hold(w, op, fields) ==
    /\ asks' = [asks EXCEPT ![w] =
            [f \in DOMAIN Idle |-> IF f = "op" THEN op ELSE IF f = "seen" THEN moved
                                   ELSE IF f \in DOMAIN fields THEN fields[f] ELSE Idle[f]]]
    /\ UNCHANGED evidence

-----------------------------------------------------------------------------
(* The routes: what each checks before its batch.                          *)

\* createSourceAnchor: a version that exists, and a checksum that does not.
CreateAnchor(w) ==
    \E a \in Anchors :
        /\ Stored(a) /\ anchors[a] = "absent"
        /\ Hold(w, "anchor", [cites |-> {a}])

ReviewAnchor(w) ==
    \E a \in Anchors, answer \in BOOLEAN :
        /\ anchors[a] = "pending"
        /\ Hold(w, "reviewAnchor", [cites |-> {a}, accept |-> answer])

CreateAssertion(w) ==
    \E S \in SUBSET Anchors : Sound(S) /\ Hold(w, "assertion", [cites |-> S])

\* A pending assertion may cite what was retired since: it can then only be rejected.
ReviewAssertion(w) ==
    \E n \in DOMAIN assertions, answer \in BOOLEAN :
        /\ assertions[n].status = "needs_review"
        /\ answer => Sound(assertions[n].sources)
        /\ Hold(w, "reviewAssertion", [on |-> n, accept |-> answer])

SupersedeAssertion(w) ==
    \E n \in DOMAIN assertions :
        /\ assertions[n].status = "accepted"
        /\ Hold(w, "supersede", [on |-> n])

\* An accepted anchor, an accepted assertion or a current graph, and no such link yet.  That
\* the anchor was retired is not asked.
LinkEvidence(w) ==
    \E a \in Anchors, n \in {0} \cup DOMAIN assertions, p \in CurrentPackages \cup {None} :
        /\ anchors[a] = "accepted"
        /\ (n = 0) # (p = None)
        /\ n # 0 => assertions[n].status = "accepted"
        /\ ~ \E l \in links : l.anchor = a /\ l.assertion = n /\ l.package = p
        /\ Hold(w, "link", [cites |-> {a}, on |-> n, package |-> p])

\* Anchors that are not rejected; neither this nor the next asks whether one was retired.
CreateProposal(w) ==
    \E S \in SUBSET Anchors, k \in {"assertion", "link", "graph"}, p \in Packages \cup {None} :
        /\ S # {} /\ \A a \in S : anchors[a] \in {"pending", "accepted"}
        /\ (k = "assertion") = (p = None)
        /\ Hold(w, "propose", [cites |-> S, kind |-> k, package |-> p])

UpdateSources(w) ==
    \E n \in DOMAIN candidates, S \in SUBSET Anchors :
        /\ candidates[n].state = "pending" /\ S # candidates[n].cites
        /\ S # {} /\ \A a \in S : anchors[a] \in {"pending", "accepted"}
        /\ Hold(w, "sources", [on |-> n, cites |-> S])

\* Mistaken: citations that were not retired, reviewed or not.
ReviewableIfNotRetired(S) == S # {} /\ ~hasRetiredCitation(S)

\* The citations with which a proposal can be reviewed.
Reviewable(S) == Sound(S)

\* What is accepted becomes an assertion, or a link to the graph of a current package; a
\* graph change is accepted by the package route only.
ReviewProposal(w) ==
    \E n \in DOMAIN candidates, answer \in BOOLEAN :
        LET c == candidates[n] IN
        /\ c.state = "pending" /\ Reviewable(c.cites)
        /\ answer => c.kind # "graph"
        /\ answer /\ c.kind = "link" =>
               /\ c.package \in CurrentPackages
               /\ \E a \in c.cites :
                      ~ \E l \in links : l.anchor = a /\ l.assertion = 0 /\ l.package = c.package
        /\ Hold(w, "reviewProposal",
                [on |-> n, cites |-> c.cites, kind |-> c.kind, package |-> c.package,
                 accept |-> answer])

\* An accepted citation of an older version, perhaps with a current one in its place.  The
\* retirement that may already exist is not read; a request repeated under its key is
\* answered with its row before all this.
RetireAnchor(w) ==
    \E a \in Anchors, b \in Anchors \cup {None} :
        /\ anchors[a] = "accepted" /\ ~IsCurrent(a)
        /\ b # None => /\ b # a /\ anchors[b] = "accepted" /\ IsCurrent(b)
                       /\ b \notin DOMAIN retired
        /\ Hold(w, "retire", [cites |-> {a}, with |-> b])

\* The graph proposal of a request: none, or one for this package whose anchors hold.
Applicable(n, p) ==
    n # 0 => /\ candidates[n].kind = "graph" /\ candidates[n].package = p
             /\ candidates[n].state = "pending" /\ Sound(candidates[n].cites)

\* Mistaken: the governed parent has been linked; that it still is current is not asked.
LinkPackageOfAnyParent(w) ==
    \E p \in Packages, n \in {0} \cup DOMAIN candidates :
        /\ Applicable(n, p)
        /\ IF Linked(p) THEN packages[p].state = "current" /\ n # 0
           ELSE /\ Parent[p] # None => Linked(Parent[p])
                /\ n # 0 /\ Parent[p] = None => CurrentPackages = {}
        /\ Hold(w, "package", [package |-> p, on |-> n,
                               cites |-> IF n = 0 THEN {} ELSE candidates[n].cites])

\* A new reference needs its governed parent to be the current one; a graph proposal without
\* a parent needs no current package at all.  A reference that is linked stays as it is, and
\* is asked for again to apply a proposal.
LinkPackage(w) ==
    \E p \in Packages, n \in {0} \cup DOMAIN candidates :
        /\ Applicable(n, p)
        /\ IF Linked(p) THEN packages[p].state = "current" /\ n # 0
           ELSE /\ Parent[p] # None => Parent[p] \in CurrentPackages
                /\ n # 0 /\ Parent[p] = None => CurrentPackages = {}
        /\ Hold(w, "package", [package |-> p, on |-> n,
                               cites |-> IF n = 0 THEN {} ELSE candidates[n].cites])

-----------------------------------------------------------------------------
(* The database: what its triggers and unique indexes admit.               *)

\* The batches that insert rows which name an anchor as a source.
CitesAnew(c) ==
    \/ c.op \in {"assertion", "link", "propose", "sources"}
    \/ c.op = "reviewProposal" /\ c.accept

SourceGuard(c) == CitesAnew(c) => ~hasRetiredCitation(c.cites)

AnchorGuard(c) ==
    /\ c.op = "anchor" => \A a \in c.cites : anchors[a] = "absent"
    /\ c.op = "reviewAnchor" => \A a \in c.cites : anchors[a] = "pending"

AssertionGuard(c) ==
    /\ c.op = "reviewAssertion" =>
           /\ assertions[c.on].status = "needs_review"
           /\ c.accept => Sound(assertions[c.on].sources)
    /\ c.op = "supersede" => assertions[c.on].status = "accepted"

LinkGuard(c) ==
    c.op = "link" => Accepted(c.cites) /\ (c.on # 0 => assertions[c.on].status = "accepted")

\* The object a proposal becomes has exactly its anchors, or one of them, and comes once.
ProposalGuard(c) ==
    /\ c.op = "sources" => candidates[c.on].state = "pending"
    /\ c.op = "reviewProposal" \/ (c.op = "package" /\ c.on # 0) =>
           /\ candidates[c.on].state = "pending" /\ candidates[c.on].cites # {}
           /\ c.accept \/ c.op = "package" =>
                  Sound(candidates[c.on].cites) /\ c.cites = candidates[c.on].cites

RetirementGuard(c) ==
    c.op = "retire" =>
        /\ \A a \in c.cites : anchors[a] = "accepted" /\ ~IsCurrent(a) /\ a \notin DOMAIN retired
        /\ c.with # None => /\ c.with \notin c.cites /\ anchors[c.with] = "accepted"
                            /\ IsCurrent(c.with) /\ c.with \notin DOMAIN retired

PackageGuard(c) ==
    c.op = "package" /\ ~Linked(c.package) /\ Parent[c.package] # None => Linked(Parent[c.package])

Admitted(c) ==
    /\ SourceGuard(c) /\ AnchorGuard(c) /\ AssertionGuard(c) /\ LinkGuard(c)
    /\ ProposalGuard(c) /\ RetirementGuard(c) /\ PackageGuard(c)

-----------------------------------------------------------------------------
(* The batches.                                                            *)

AnchorRows(c) ==
    /\ anchors' = [a \in Anchors |->
           IF a \notin c.cites THEN anchors[a]
           ELSE IF c.op = "anchor" THEN "pending"
           ELSE IF c.accept THEN "accepted" ELSE "rejected"]
    /\ UNCHANGED <<assertions, links, candidates, retired, packages>>

AssertionRows(c) ==
    /\ assertions' =
           IF c.op = "assertion"
           THEN Append(assertions, [status |-> "needs_review", sources |-> c.cites])
           ELSE [assertions EXCEPT ![c.on].status =
                     IF c.op = "supersede" THEN "superseded"
                     ELSE IF c.accept THEN "accepted" ELSE "rejected"]
    /\ UNCHANGED <<anchors, links, candidates, retired, packages>>

LinkRows(c) ==
    /\ links' = links \cup {[anchor |-> a, assertion |-> c.on, package |-> c.package] : a \in c.cites}
    /\ UNCHANGED <<anchors, assertions, candidates, retired, packages>>

ProposalRows(c) ==
    /\ candidates' =
           IF c.op = "propose"
           THEN Append(candidates, [state |-> "pending", cites |-> c.cites, kind |-> c.kind,
                                    package |-> c.package])
           ELSE [candidates EXCEPT ![c.on].cites = c.cites]
    /\ UNCHANGED <<anchors, assertions, links, retired, packages>>

\* An accepted assertion is inserted for review, given its sources, and accepted.
MaterialRows(c) ==
    IF ~c.accept THEN UNCHANGED <<assertions, links>>
    ELSE IF c.kind = "assertion"
    THEN /\ assertions' = Append(assertions, [status |-> "accepted", sources |-> c.cites])
         /\ UNCHANGED links
    ELSE /\ \E a \in c.cites :
               /\ ~ \E l \in links : l.anchor = a /\ l.assertion = 0 /\ l.package = c.package
               /\ links' = links \cup {[anchor |-> a, assertion |-> 0, package |-> c.package]}
         /\ UNCHANGED assertions

ReviewRows(c) ==
    /\ MaterialRows(c)
    /\ candidates' = [candidates EXCEPT ![c.on].state = IF c.accept THEN "accepted" ELSE "rejected"]
    /\ UNCHANGED <<anchors, retired, packages>>

RetirementRows(c) ==
    /\ retired' = [a \in DOMAIN retired \cup c.cites |->
                       IF a \in c.cites THEN c.with ELSE retired[a]]
    /\ UNCHANGED <<anchors, assertions, links, candidates, packages>>

\* A new reference makes every current one stale; a graph proposal is accepted with it.
PackageRows(c) ==
    /\ packages' = IF Linked(c.package) THEN packages
                   ELSE [p \in Packages |->
                            IF p = c.package THEN [state |-> "current", by |-> None]
                            ELSE IF p \in CurrentPackages
                            THEN [state |-> "stale", by |-> c.package] ELSE packages[p]]
    /\ candidates' = IF c.on = 0 THEN candidates
                     ELSE [candidates EXCEPT ![c.on].state = "accepted"]
    /\ UNCHANGED <<anchors, assertions, links, retired>>

Rows(c) ==
    \/ c.op \in {"anchor", "reviewAnchor"} /\ AnchorRows(c)
    \/ c.op \in {"assertion", "reviewAssertion", "supersede"} /\ AssertionRows(c)
    \/ c.op = "link" /\ LinkRows(c)
    \/ c.op \in {"propose", "sources"} /\ ProposalRows(c)
    \/ c.op = "reviewProposal" /\ ReviewRows(c)
    \/ c.op = "retire" /\ RetirementRows(c)
    \/ c.op = "package" /\ PackageRows(c)

Lands(c) == moved = c.seen /\ Admitted(c)

Commit(w) ==
    /\ asks[w] # Idle /\ Lands(asks[w])
    /\ Rows(asks[w])
    /\ moved' = moved + 1
    /\ asks' = [asks EXCEPT ![w] = Idle]
    /\ UNCHANGED newest

\* Any error of the batch is answered 409: the Matter changed.
Refuse(w) ==
    /\ asks[w] # Idle /\ ~Lands(asks[w])
    /\ asks' = [asks EXCEPT ![w] = Idle]
    /\ UNCHANGED evidence

\* An upload ends with a new current version of a document.
NewVersion ==
    /\ moved < MaxCommits
    /\ \E d \in Documents :
           /\ newest[d] < MaxVersion
           /\ newest' = [newest EXCEPT ![d] = @ + 1]
    /\ moved' = moved + 1
    /\ UNCHANGED <<anchors, assertions, links, candidates, retired, packages, asks>>

-----------------------------------------------------------------------------

\* A Matter whose documents were uploaded.
EvidenceInit ==
    /\ moved = 1
    /\ newest = [d \in Documents |-> 1]
    /\ anchors = [a \in Anchors |-> "absent"]
    /\ assertions = <<>> /\ candidates = <<>> /\ links = {}
    /\ retired = [a \in {} |-> None]
    /\ packages = [p \in Packages |-> [state |-> "unlinked", by |-> None]]
    /\ asks = [w \in Workers |-> Idle]

Review(w) ==
    \/ /\ asks[w] = Idle
       /\ moved < MaxCommits
       /\ \/ CreateAnchor(w) \/ ReviewAnchor(w)
          \/ CreateAssertion(w) \/ ReviewAssertion(w) \/ SupersedeAssertion(w)
          \/ LinkEvidence(w)
          \/ CreateProposal(w) \/ UpdateSources(w) \/ ReviewProposal(w)
          \/ RetireAnchor(w) \/ LinkPackage(w)
    \/ Commit(w) \/ Refuse(w)

EvidenceNext == NewVersion \/ \E w \in Workers : Review(w)

EvidenceSpec == EvidenceInit /\ [][EvidenceNext]_evidenceVars

-----------------------------------------------------------------------------
(* Properties.                                                             *)

\* The variables hold what their columns and locals can hold.
EvidenceTypeOK ==
    /\ moved \in 1 .. MaxCommits
    /\ newest \in [Documents -> 1 .. MaxVersion]
    /\ anchors \in [Anchors -> {"absent", "pending", "accepted", "rejected"}]
    /\ assertions \in Seq(Assertions) /\ candidates \in Seq(Candidates)
    /\ links \subseteq EvidenceLinks
    /\ DOMAIN retired \subseteq Anchors /\ \A a \in DOMAIN retired : retired[a] \in Anchors \cup {None}
    /\ packages \in [Packages -> References]
    /\ asks \in [Workers -> Asks]

\* What the database refuses though the route let it through, and says so to nobody: new
\* work that cites a retired anchor, and a second retirement.
RefusedUnasked(c) ==
    c.op \in {"link", "propose", "sources", "retire"} /\ hasRetiredCitation(c.cites)

\* The routes and the triggers state the rules of review twice.  Whatever a route lets
\* through, the triggers admit as long as the Matter has not moved, but for the commands
\* whose route does not look for retired anchors: a 409 "the Matter changed" is else true.
\* (Routes under api/dossiers/[dossierId]; triggers of drizzle 0013, 0014, 0018, 0020, 0021.)
GuardsAgree ==
    \A w \in Workers :
        asks[w] # Idle /\ moved = asks[w].seen => Admitted(asks[w]) \/ RefusedUnasked(asks[w])

\* One package at most is current, and a package with a governed parent took the place of
\* that parent: no two children of one package are linked one after the other, and none
\* after its parent was replaced.  (decision-packages/route.ts.)
PackageLine ==
    /\ \A p, q \in CurrentPackages : p = q
    /\ \A p \in Packages :
           Linked(p) /\ Parent[p] # None => packages[Parent[p]] = [state |-> "stale", by |-> p]
=============================================================================
