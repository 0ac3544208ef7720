---------------------------- MODULE ReleaseSigning ----------------------------
(***************************************************************************)
(* Preparing a release, as docs/release-signing.md lays it out.  A working *)
(* tree changes under the release owner's hands: the surface is edited,    *)
(* manifests are written, edited and given a locator, bytes are taken for  *)
(* signing and signed later, possibly for another candidate or after the   *)
(* tree has moved on, keys are rotated, strangers add lines.  A tag may be *)
(* cut at any state of the tree, so what it would ship is judged there.    *)
(***************************************************************************)
EXTENDS ReleaseManifest, Integers

CONSTANTS InitialTrust,   \* signing-keys.json at the start
          MaxLines        \* bound: lines in all signature files together

ASSUME InitialTrustAssumption ==
    InitialTrust \in UNION {[ids -> OwnerKeys] : ids \in SUBSET KeyIds}

ASSUME SigningBoundsAssumption == MaxLines \in Nat

VARIABLES tree,         \* the working tree, a commit to be
          bin,          \* candidate.bin on the signing machine
          ownerSigned   \* history: every payload an owner's key has signed

signingVars == <<tree, bin, ownerSigned>>

LinesOf(c) == {[file |-> c, line |-> line] : line \in tree.signatures[c]}

LineCount == Cardinality(UNION {LinesOf(c) : c \in Candidates})

SigningInit ==
    /\ tree \in [surface : Surfaces,
                 manifests : {[c \in Candidates |-> None]},
                 signatures : {[c \in Candidates |-> {}]},
                 trusted : {InitialTrust}]
    /\ bin = None
    /\ ownerSigned = {}

EditSurface(s) ==
    /\ s # tree.surface
    /\ tree' = [tree EXCEPT !.surface = s]
    /\ UNCHANGED <<bin, ownerSigned>>

(* rc_digest.py --candidate name --out release/<c>.digest.json: nothing ties
   the name to the file or to the version. *)
WriteManifest(c, name) ==
    /\ tree' = [tree EXCEPT !.manifests[c] = BuildManifest(tree.surface, name)]
    /\ UNCHANGED <<bin, ownerSigned>>

(* A manifest is edited, or merged, by hand; its declared digest is left. *)
EditManifest(c, s) ==
    /\ tree.manifests[c] # None
    /\ tree' = [tree EXCEPT !.manifests[c].files = s]
    /\ UNCHANGED <<bin, ownerSigned>>

AddLocator(c) ==
    /\ tree.manifests[c] # None
    /\ tree' = [tree EXCEPT !.manifests[c].signature_ref = TRUE]
    /\ UNCHANGED <<bin, ownerSigned>>

(* rc_signature.py --signable > candidate.bin reads the manifest file only. *)
TakePayload(c) ==
    /\ tree.manifests[c] # None
    /\ bin' = Payload(tree.manifests[c])
    /\ UNCHANGED <<tree, ownerSigned>>

(* The owner signs candidate.bin and commits the line under any candidate. *)
Sign(c, id, k) ==
    /\ bin # None
    /\ LineCount < MaxLines
    /\ tree' = [tree EXCEPT !.signatures[c] = @ \cup {[key_id |-> id, by |-> k, payload |-> bin]}]
    /\ ownerSigned' = ownerSigned \cup {bin}
    /\ UNCHANGED bin

(* Somebody else signs what the manifest says, under an id of their choice. *)
AddForeignLine(c, id, k) ==
    /\ tree.manifests[c] # None
    /\ LineCount < MaxLines
    /\ tree' = [tree EXCEPT !.signatures[c] =
                   @ \cup {[key_id |-> id, by |-> k, payload |-> Payload(tree.manifests[c])]}]
    /\ UNCHANGED <<bin, ownerSigned>>

TrustKey(id, k) ==
    /\ tree' = [tree EXCEPT !.trusted =
                   [i \in DOMAIN @ \cup {id} |-> IF i = id THEN k ELSE @[i]]]
    /\ UNCHANGED <<bin, ownerSigned>>

DropKey(id) ==
    /\ id \in DOMAIN tree.trusted
    /\ tree' = [tree EXCEPT !.trusted = [i \in DOMAIN @ \ {id} |-> @[i]]]
    /\ UNCHANGED <<bin, ownerSigned>>

SigningNext ==
    \/ \E s \in Surfaces : EditSurface(s)
    \/ \E c, name \in Candidates : WriteManifest(c, name)
    \/ \E c \in Candidates, s \in Surfaces : EditManifest(c, s)
    \/ \E c \in Candidates : AddLocator(c) \/ TakePayload(c)
    \/ \E c \in Candidates, id \in KeyIds, k \in OwnerKeys : Sign(c, id, k)
    \/ \E c \in Candidates, id \in KeyIds, k \in Keys \ OwnerKeys : AddForeignLine(c, id, k)
    \/ \E id \in KeyIds, k \in OwnerKeys : TrustKey(id, k)
    \/ \E id \in KeyIds : DropKey(id)

SigningSpec == SigningInit /\ [][SigningNext]_signingVars

-----------------------------------------------------------------------------
(* The tree is a commit to be, what was signed were payloads. *)
SigningTypeOK ==
    /\ tree \in Commits
    /\ bin \in Payloads \cup {None}
    /\ ownerSigned \subseteq Payloads

(* A stable tag that gets through release.yml's checks ships bytes an owner
   signed under that very tag's name: not another candidate's payload, not
   the same candidate's before the last edit, not a stranger's say-so. *)
ReleasableIsOwnerSigned ==
    \A c \in StableCandidates :
        ReleaseChecksPass(tree, c) =>
            [candidate |-> c, version |-> c, files |-> tree.surface] \in ownerSigned

(* Adding the locator after signing leaves the signature as it was. *)
LocatorKeepsSignature ==
    [][\A c \in Candidates :
          AddLocator(c) => \A d \in Candidates : Verifies(tree, d) <=> Verifies(tree, d)']_signingVars

(* A signer the tree does not trust makes a release neither more nor less
   signed, as long as no trusted id is claimed. *)
StrangersDoNotCount ==
    [][\A c \in Candidates, id \in KeyIds \ DOMAIN tree.trusted, k \in Keys \ OwnerKeys :
          AddForeignLine(c, id, k) =>
             \A d \in Candidates : Verifies(tree, d) <=> Verifies(tree, d)']_signingVars
=============================================================================
