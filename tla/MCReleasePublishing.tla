-------------------------- MODULE MCReleasePublishing --------------------------
(***************************************************************************)
(* Commits a tag may be pushed with: the release as it was signed, the     *)
(* tree as it was before the signature, and an edit after it.              *)
(***************************************************************************)
EXTENDS ReleasePublishing

CONSTANTS rc, stable, candidateSrc, stableSrc, editedSrc

MCVersionOf == [s \in Surfaces |-> IF s = candidateSrc THEN rc ELSE stable]

Owner == [id \in {"release-owner"} |-> "owner key"]

Signature(m) == [key_id |-> "release-owner", by |-> "owner key", payload |-> Payload(m)]

Ready(s) ==
    LET c == MCVersionOf[s]
        m == BuildManifest(s, c)
    IN  [surface |-> s,
         manifests |-> [d \in Candidates |-> IF d = c THEN m ELSE None],
         signatures |-> [d \in Candidates |-> IF d = c THEN {Signature(m)} ELSE {}],
         trusted |-> Owner]

Unsigned(commit) == [commit EXCEPT !.signatures = [d \in Candidates |-> {}]]

MCTaggedCommits ==
    {Ready(stableSrc), Unsigned(Ready(stableSrc)),
     [Ready(stableSrc) EXCEPT !.surface = editedSrc],
     Unsigned(Ready(candidateSrc))}
=============================================================================
