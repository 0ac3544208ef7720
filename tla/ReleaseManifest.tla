---------------------------- MODULE ReleaseManifest ----------------------------
(***************************************************************************)
(* The files of a release and the two tools that judge them:               *)
(* tools/rc_digest.py ties a manifest to the tree, tools/rc_signature.py   *)
(* ties it to a release owner.  A commit is what the tools can read of one *)
(* tree: the installable surface (src/ and pyproject.toml), and under      *)
(* release/ one manifest and one signature file per candidate and the map  *)
(* of trusted keys.  A digest is represented by the payload it is taken    *)
(* of, a signature by the key that made it and the payload it was made of. *)
(***************************************************************************)
EXTENDS FiniteSets

CONSTANTS Candidates,        \* tag names; release/<candidate>.digest.json
          StableCandidates,  \* those that match ^v[0-9]+\.[0-9]+\.[0-9]+$
          Surfaces,          \* contents of the installable surface
          VersionOf,         \* VersionOf[s]: the tag name of surface s's version.py
          KeyIds, Keys,      \* names in signing-keys.json, and key pairs
          OwnerKeys,         \* the key pairs a release owner holds
          None               \* no such file

ASSUME ReleaseAssumption ==
    /\ StableCandidates \subseteq Candidates
    /\ VersionOf \in [Surfaces -> Candidates]
    /\ OwnerKeys \subseteq Keys

Payloads == [candidate : Candidates, version : Candidates, files : Surfaces]

Manifests == [candidate : Candidates, version : Candidates, files : Surfaces,
              content_digest : Payloads, signature_ref : BOOLEAN]

(* One line <key_id>:<hex> of a signature file. *)
SignatureLines == [key_id : KeyIds, by : Keys, payload : Payloads]

TrustMaps == UNION {[ids -> Keys] : ids \in SUBSET KeyIds}

Commits == [surface : Surfaces,
            manifests : [Candidates -> Manifests \cup {None}],
            signatures : [Candidates -> SUBSET SignatureLines],
            trusted : TrustMaps]

ASSUME NoneAssumption == None \notin Manifests \cup Payloads \cup Commits

(* digest_payload: all but the digest itself and the locator. *)
Payload(m) == [candidate |-> m.candidate, version |-> m.version, files |-> m.files]

BuildManifest(surface, candidate) ==
    LET payload == [candidate |-> candidate, version |-> VersionOf[surface], files |-> surface]
    IN  [candidate |-> candidate, version |-> VersionOf[surface], files |-> surface,
         content_digest |-> payload, signature_ref |-> FALSE]

(* rc_digest.py --check, with --candidate left at its default: the recorded
   manifest, whole, against one rebuilt from the tree. *)
DigestPresent(commit, c) ==   \* faulty: the tree is not consulted
    /\ commit.manifests[c] # None
    /\ commit.manifests[c].content_digest = Payload(commit.manifests[c])

DigestMatches(commit, c) ==
    commit.manifests[c] = BuildManifest(commit.surface, VersionOf[commit.surface])

(* rc_signature.py --check.  Lines of keys that are not trusted are skipped,
   one that claims a trusted key and fails to verify is fatal, and at least
   one has to verify.  The tree is not consulted, nor the declared digest. *)
Verifies(commit, c) ==
    LET evidence == {line \in commit.signatures[c] : line.key_id \in DOMAIN commit.trusted} IN
    /\ commit.manifests[c] # None
    /\ evidence # {}
    /\ \A line \in evidence :
          /\ line.by = commit.trusted[line.key_id]
          /\ line.payload = Payload(commit.manifests[c])

(* The steps of release.yml before the tests, in the checkout of one tag. *)
TagMatchesVersion(commit, c) == VersionOf[commit.surface] = c

SignatureOptional(commit, c) ==   \* faulty: a warning for every tag
    TagMatchesVersion(commit, c) /\ DigestMatches(commit, c)

ReleaseChecksPass(commit, c) ==
    /\ TagMatchesVersion(commit, c)
    /\ DigestMatches(commit, c)
    /\ c \in StableCandidates => Verifies(commit, c)
=============================================================================
