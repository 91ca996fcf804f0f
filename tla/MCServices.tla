----------------------------- MODULE MCServices -----------------------------
(***************************************************************************)
(* The services and the runtime of the scenarios, on small instances: one  *)
(* run, of which each behaviour exercises one part.                        *)
(***************************************************************************)
EXTENDS Services, Sequences, Functions, TLC

CONSTANTS
    w1, w2, k1, k2, s1, s2,                       \* Requests
    p1, p2, p3,                                   \* Parent
    Scenarios, MaxAdvance, Horizon                \* ScenarioRuntime

VARIABLES scenario, state

MCRequests ==
    {[key |-> k1, job |-> <<1, s1>>, retry |-> TRUE],
     [key |-> k2, job |-> <<1, s1>>, retry |-> FALSE],
     [key |-> k2, job |-> <<1, s2>>, retry |-> TRUE]}

MCParent == (p1 :> None) @@ (p2 :> p1) @@ (p3 :> p1)

Library  == INSTANCE MCScenarios
MCPlayedScenarios == Library!PlayedScenarios

Scenario == INSTANCE ScenarioRuntime WITH MaxEvents <- 8

Init ==
    /\ ServicesInit
    /\ Scenario!ScenarioInit
    /\ part # "scenario" => scenario = Library!DebtClaim

InScenario ==
    /\ part = "scenario" /\ Scenario!ScenarioNext
    /\ UNCHANGED servicesVars

Next == \/ ServicesNext /\ UNCHANGED <<scenario, state>>
        \/ InScenario

vars == <<servicesVars, scenario, state>>
Spec == Init /\ [][Next]_vars

Symmetry == Permutations(Workers) \cup Permutations(EventIds)

Started(j) == jobs[j].attempt > 0
Total(f)   == FoldFunction(+, 0, f)

\* Faults strike proposals while one selection was asked for; one assertion or proposal, one
\* link, three packages or anchors; three requests to the library, and faults there before the
\* second key is drawn; three requests for contacts, one fewer after a fault, and no second
\* handler of contacts at work after the last key is drawn.
Small ==
    /\ faults = 0 \/ ~(Started(<<1, s1>>) /\ Started(<<1, s2>>))
    /\ Len(assertions) + Len(candidates) <= 1
    /\ Cardinality(links) <= 1
    /\ Cardinality({p \in Packages : packages[p].state # "unlinked"})
         + Cardinality({a \in Evidence!Anchors : anchors[a] # "absent"}) <= 3
    /\ Total(sent) <= 3 /\ (libraryFaults = 0 \/ sent[2] = 0)
    /\ Total(posted) <= 3 - contactFaults
    /\ posted[3] = 0 \/ (contactFaults = 0 /\ \E w \in Workers : post[w].pc = "free")

-----------------------------------------------------------------------------

\* Every component keeps to its types.
ServicesTypeOK ==
    /\ ProposalTypeOK
    /\ part = "play" => Play!PlayTypeOK
    /\ part = "account" => Account!AccountTypeOK
    /\ part = "evidence" => Evidence!EvidenceTypeOK
    /\ part = "scenario" => Scenario!ScenarioTypeOK
    /\ part = "library" => Firm!LibraryTypeOK
    /\ part = "contacts" => Contacts!ContactsTypeOK

\* Stated where it is defined.
ChunksAgree == part = "scenario" => Scenario!ChunksAgree
=============================================================================
