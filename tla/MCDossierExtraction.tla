------------------------ MODULE MCDossierExtraction ------------------------
(* Instances of DossierExtraction for TLC. *)
EXTENDS DossierExtraction, TLC

Symmetry == Permutations(Workers)
=============================================================================
