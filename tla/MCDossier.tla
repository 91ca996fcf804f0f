----------------------------- MODULE MCDossier -----------------------------
(***************************************************************************)
(* What is settled in the end: the reservations of uploads and the jobs of *)
(* extraction, in one run of which each behaviour exercises one part.      *)
(***************************************************************************)
EXTENDS DossierExtraction

CONSTANTS
    UploadIds, Base, Keys, BaseKey, Contents, Targets, NewDocument, None, TTL, MaxCleanups,
    MaxPending, MaxDocuments, MaxVersions, MaxMatterVersions, MaxBytes, MaxRevision,
    MaxUploadFaults

VARIABLES
    part,       \* "upload" or "extraction"
    revision, intent, docs, current, version, bucket, req, uploadFaults

Upload == INSTANCE DossierUpload WITH
    Requests <- Workers, Size <- [c \in Contents |-> 1], faults <- uploadFaults,
    MaxFaults <- MaxUploadFaults

uploadVars == <<revision, intent, docs, current, version, bucket, req, uploadFaults>>
dossierVars == <<part, vars, uploadVars>>

DossierInit ==
    /\ part \in {"upload", "extraction"}
    /\ Upload!Init
    /\ Init

\* One action of either part.
Either(Uploading, Extracting) ==
    \/ part = "upload" /\ Uploading /\ UNCHANGED <<part, vars>>
    \/ part = "extraction" /\ Extracting /\ UNCHANGED <<part, uploadVars>>

DossierNext == Either(Upload!Next, Next)

DossierFairness ==
    /\ WF_dossierVars(Either(Upload!Tick, Tick))
    /\ \A w \in Workers :
        /\ WF_dossierVars(Either(Upload!Progress(w), Progress(w)))
        /\ WF_dossierVars(Either(Upload!Arrive(w), Arrive(w)))

DossierSpec == DossierInit /\ [][DossierNext]_dossierVars /\ DossierFairness

-----------------------------------------------------------------------------

\* Stated where it is defined.
ReservationsSettle == Upload!ReservationsSettle
=============================================================================
