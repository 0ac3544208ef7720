--------------------------- MODULE MCReleasePipeline ---------------------------
(***************************************************************************)
(* A stable version, its surface edited before or after it was signed, and *)
(* every state of its tree committed that has a manifest.                  *)
(***************************************************************************)
EXTENDS ReleasePipeline

CONSTANTS rc, stable, firstSrc, editedSrc

MCVersionOf == [s \in Surfaces |-> stable]

MCInitialTrust == [id \in KeyIds |-> "owner key"]

(* What is committed has a manifest of the stable version that rc_digest.py
   wrote and one line for it, good or bad; a payload of the candidate can have
   got there through a manifest first written under the wrong name. *)
MCTaggedCommits ==
    [surface : Surfaces,
     manifests : {[c \in Candidates |-> IF c = stable THEN BuildManifest(s, stable) ELSE None] :
                     s \in Surfaces},
     signatures : {[c \in Candidates |-> IF c = stable THEN {line} ELSE {}] :
                     line \in SignatureLines},
     trusted : {MCInitialTrust}]
=============================================================================
