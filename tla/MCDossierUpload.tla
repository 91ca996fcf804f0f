-------------------------- MODULE MCDossierUpload --------------------------
EXTENDS DossierUpload, TLC

CONSTANTS small, large

\* Two sizes of file: the larger takes what two small ones do.
MCSize == [c \in Contents |-> IF c = small THEN 1 ELSE 2]

\* Slots, drawn ids and keys are interchangeable.
Symmetry == Permutations(Requests) \cup Permutations(UploadIds \ {Base}) \cup Permutations(Keys)

\* The uploads of a behaviour all make documents, at the first revision and before any of
\* them is overdue, or are all small versions of the first document.
Sent ==
    ({req[r].form : r \in Requests}
        \cup {intent[i].form : i \in {j \in UploadIds : intent[j].state # "unused"}}) \ {NoForm}
OfOneKind ==
    \/ /\ \A f \in Sent : f.target = NewDocument
       /\ revision = BaseRevision
       /\ \A i \in Pending : ~Overdue(i)
    \/ \A f \in Sent : f.target # NewDocument /\ f.content = small
=============================================================================
