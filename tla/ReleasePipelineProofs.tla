------------------------- MODULE ReleasePipelineProofs -------------------------
(***************************************************************************)
(* Proofs about a release, in three parts.                                 *)
(*                                                                         *)
(* Preparing (ReleaseSigning): what is signed cannot be read off the tree, *)
(* so the invariant follows every signature line back to the moment it was *)
(* made: a line by an owner's key carries a payload the owner signed, and  *)
(* only owners' keys are ever trusted.                                     *)
(*                                                                         *)
(* Publishing (ReleasePublishing): a Release that is public and quiet can  *)
(* have got there in three ways: release.yml created it, release.yml       *)
(* updated one made by hand, or a person published again a draft that      *)
(* release.yml had created.  The invariant keeps what all three need:      *)
(* every run past its checks is recorded in passed, the commit a tag names *)
(* has passed or has a run that says it has not, and what release.yml      *)
(* authored was checked, and classified unless a person has edited it.     *)
(*                                                                         *)
(* Both together (ReleasePipeline): what holds of the tree holds of every  *)
(* commit that was ever made of it, so what passed at a commit was signed. *)
(***************************************************************************)
EXTENDS ReleasePipeline, TLAPS

-----------------------------------------------------------------------------
(* Preparing. *)
OnlyOwnersTrusted ==
    \A id \in DOMAIN tree.trusted : tree.trusted[id] \in OwnerKeys

OwnerLinesWereSigned ==
    \A c \in Candidates : \A line \in tree.signatures[c] :
        line.by \in OwnerKeys => line.payload \in ownerSigned

SigningInv == SigningTypeOK /\ OnlyOwnersTrusted /\ OwnerLinesWereSigned

-----------------------------------------------------------------------------
(* The shapes the actions build. *)

(* A payload taken of a manifest is a payload. *)
LEMMA PayloadTyped == \A m \in Manifests : Payload(m) \in Payloads
BY DEF Payload, Manifests, Payloads

(* rc_digest.py writes manifests. *)
LEMMA BuildTyped ==
    \A s \in Surfaces, name \in Candidates : BuildManifest(s, name) \in Manifests
<1> SUFFICES ASSUME NEW s \in Surfaces, NEW name \in Candidates
             PROVE  BuildManifest(s, name) \in Manifests
  OBVIOUS
<1>1. VersionOf[s] \in Candidates
  BY ReleaseAssumption
<1> QED
  BY <1>1 DEF BuildManifest, Manifests, Payloads

(* The fields of a commit, and a commit from its fields. *)
LEMMA CommitFields ==
    ASSUME NEW t, t \in Commits
    PROVE  /\ t.surface \in Surfaces
           /\ t.manifests \in [Candidates -> Manifests \cup {None}]
           /\ t.signatures \in [Candidates -> SUBSET SignatureLines]
           /\ t.trusted \in TrustMaps
           /\ t = [surface |-> t.surface, manifests |-> t.manifests,
                   signatures |-> t.signatures, trusted |-> t.trusted]
BY DEF Commits

(* A trust map is a function from some key ids to keys. *)
LEMMA TrustMapForm ==
    /\ \A f \in TrustMaps : DOMAIN f \subseteq KeyIds /\ f \in [DOMAIN f -> Keys]
    /\ \A ids \in SUBSET KeyIds : \A f : f \in [ids -> Keys] => f \in TrustMaps
BY DEF TrustMaps

-----------------------------------------------------------------------------
LEMMA SigningInitInv == SigningInit => SigningInv
<1> SUFFICES ASSUME SigningInit PROVE SigningInv
  OBVIOUS
<1>1. InitialTrust \in TrustMaps /\ \A id \in DOMAIN InitialTrust : InitialTrust[id] \in OwnerKeys
  BY InitialTrustAssumption, ReleaseAssumption DEF TrustMaps
<1>2. tree \in Commits
  BY <1>1 DEF SigningInit, Commits
<1>3. SigningTypeOK
  BY <1>2 DEF SigningInit, SigningTypeOK
<1>4. OnlyOwnersTrusted /\ OwnerLinesWereSigned
  BY <1>1 DEF SigningInit, OnlyOwnersTrusted, OwnerLinesWereSigned
<1> QED BY <1>3, <1>4 DEF SigningInv

(* Steps that write the surface or a manifest leave lines and keys alone. *)
LEMMA ManifestsOnly ==
    ASSUME SigningInv, tree'.signatures = tree.signatures, tree'.trusted = tree.trusted,
           tree' \in Commits, bin' \in Payloads \cup {None}, ownerSigned' = ownerSigned
    PROVE  SigningInv'
BY DEF SigningInv, SigningTypeOK, OnlyOwnersTrusted, OwnerLinesWereSigned

LEMMA SurfaceStep ==
    ASSUME SigningInv, NEW s \in Surfaces, EditSurface(s)
    PROVE  SigningInv'
<1>1. tree' \in Commits /\ tree'.signatures = tree.signatures /\ tree'.trusted = tree.trusted
  BY DEF SigningInv, SigningTypeOK, EditSurface, Commits
<1> QED BY <1>1, ManifestsOnly DEF SigningInv, SigningTypeOK, EditSurface

(* A manifest written, edited or located is a manifest again. *)
LEMMA ManifestStep ==
    ASSUME SigningInv, NEW c \in Candidates, NEW m \in Manifests,
           tree' = [tree EXCEPT !.manifests[c] = m], UNCHANGED <<bin, ownerSigned>>
    PROVE  SigningInv'
<1>1. tree' \in Commits /\ tree'.signatures = tree.signatures /\ tree'.trusted = tree.trusted
  BY DEF SigningInv, SigningTypeOK, Commits
<1> QED BY <1>1, ManifestsOnly DEF SigningInv, SigningTypeOK

LEMMA WriteStep ==
    ASSUME SigningInv, NEW c \in Candidates, NEW name \in Candidates, WriteManifest(c, name)
    PROVE  SigningInv'
<1>1. BuildManifest(tree.surface, name) \in Manifests
  BY BuildTyped DEF SigningInv, SigningTypeOK, Commits
<1> QED BY <1>1, ManifestStep DEF WriteManifest

LEMMA EditStep ==
    ASSUME SigningInv, NEW c \in Candidates, NEW s \in Surfaces, EditManifest(c, s)
    PROVE  SigningInv'
<1> DEFINE m == [tree.manifests[c] EXCEPT !.files = s]
<1>1. tree.manifests[c] \in Manifests
  BY DEF SigningInv, SigningTypeOK, Commits, EditManifest
<1>2. m \in Manifests
  BY <1>1 DEF Manifests
<1>3. tree' = [tree EXCEPT !.manifests[c] = m] /\ UNCHANGED <<bin, ownerSigned>>
  BY DEF EditManifest, SigningInv, SigningTypeOK, Commits
<1> QED BY <1>2, <1>3, ManifestStep

LEMMA LocatorStep ==
    ASSUME SigningInv, NEW c \in Candidates, AddLocator(c)
    PROVE  SigningInv'
<1> DEFINE m == [tree.manifests[c] EXCEPT !.signature_ref = TRUE]
<1>1. tree.manifests[c] \in Manifests
  BY DEF SigningInv, SigningTypeOK, Commits, AddLocator
<1>2. m \in Manifests
  BY <1>1 DEF Manifests
<1>3. tree' = [tree EXCEPT !.manifests[c] = m] /\ UNCHANGED <<bin, ownerSigned>>
  BY DEF AddLocator, SigningInv, SigningTypeOK, Commits
<1> QED BY <1>2, <1>3, ManifestStep

LEMMA TakeStep ==
    ASSUME SigningInv, NEW c \in Candidates, TakePayload(c)
    PROVE  SigningInv'
<1>1. tree.manifests[c] \in Manifests
  BY DEF SigningInv, SigningTypeOK, Commits, TakePayload
<1>2. bin' \in Payloads /\ tree' = tree /\ ownerSigned' = ownerSigned
  BY <1>1, PayloadTyped DEF TakePayload
<1> QED BY <1>2, ManifestsOnly DEF SigningInv, SigningTypeOK

(* A line added to one file. *)
LEMMA LineStep ==
    ASSUME SigningInv, NEW c \in Candidates, NEW line \in SignatureLines,
           tree' = [tree EXCEPT !.signatures[c] = @ \cup {line}],
           bin' = bin, ownerSigned \subseteq ownerSigned', ownerSigned' \subseteq Payloads,
           line.by \in OwnerKeys => line.payload \in ownerSigned'
    PROVE  SigningInv'
<1>1. tree' \in Commits /\ tree'.trusted = tree.trusted
  BY DEF SigningInv, SigningTypeOK, Commits
<1>2. tree'.signatures = [tree.signatures EXCEPT ![c] = @ \cup {line}]
  BY DEF SigningInv, SigningTypeOK, Commits
<1>3. tree.signatures \in [Candidates -> SUBSET SignatureLines]
  BY DEF SigningInv, SigningTypeOK, Commits
<1>4. SigningTypeOK'
  BY <1>1 DEF SigningInv, SigningTypeOK
<1>5. OnlyOwnersTrusted'
  BY <1>1 DEF SigningInv, OnlyOwnersTrusted
<1>6. OwnerLinesWereSigned'
  BY <1>2, <1>3 DEF SigningInv, OwnerLinesWereSigned
<1> QED BY <1>4, <1>5, <1>6 DEF SigningInv

LEMMA SignStep ==
    ASSUME SigningInv, NEW c \in Candidates, NEW id \in KeyIds, NEW k \in OwnerKeys, Sign(c, id, k)
    PROVE  SigningInv'
<1> DEFINE line == [key_id |-> id, by |-> k, payload |-> bin]
<1>1. bin \in Payloads
  BY DEF SigningInv, SigningTypeOK, Sign
<1>2. line \in SignatureLines
  BY <1>1, ReleaseAssumption DEF SignatureLines
<1>3. /\ tree' = [tree EXCEPT !.signatures[c] = @ \cup {line}] /\ bin' = bin
      /\ ownerSigned' = ownerSigned \cup {bin}
  BY DEF Sign
<1>4. line.payload \in ownerSigned' /\ ownerSigned' \subseteq Payloads
  BY <1>1, <1>3 DEF SigningInv, SigningTypeOK
<1> QED BY <1>2, <1>3, <1>4, LineStep

LEMMA ForeignStep ==
    ASSUME SigningInv, NEW c \in Candidates, NEW id \in KeyIds, NEW k \in Keys \ OwnerKeys,
           AddForeignLine(c, id, k)
    PROVE  SigningInv'
<1> DEFINE line == [key_id |-> id, by |-> k, payload |-> Payload(tree.manifests[c])]
<1>1. tree.manifests[c] \in Manifests
  BY DEF SigningInv, SigningTypeOK, Commits, AddForeignLine
<1>2. line \in SignatureLines
  BY <1>1, PayloadTyped DEF SignatureLines
<1>3. /\ tree' = [tree EXCEPT !.signatures[c] = @ \cup {line}]
      /\ bin' = bin /\ ownerSigned' = ownerSigned
  BY DEF AddForeignLine
<1>4. line.by \notin OwnerKeys /\ ownerSigned' \subseteq Payloads
  BY <1>3 DEF SigningInv, SigningTypeOK
<1> QED BY <1>2, <1>3, <1>4, LineStep

(* Keys come and go, lines stay. *)
LEMMA KeyStep ==
    ASSUME SigningInv, NEW trust \in TrustMaps,
           \A id \in DOMAIN trust : trust[id] \in OwnerKeys,
           tree' = [tree EXCEPT !.trusted = trust], UNCHANGED <<bin, ownerSigned>>
    PROVE  SigningInv'
<1>1. tree' \in Commits /\ tree'.trusted = trust /\ tree'.signatures = tree.signatures
  BY DEF SigningInv, SigningTypeOK, Commits
<1> QED BY <1>1 DEF SigningInv, SigningTypeOK, OnlyOwnersTrusted, OwnerLinesWereSigned

LEMMA TrustStep ==
    ASSUME SigningInv, NEW id \in KeyIds, NEW k \in OwnerKeys, TrustKey(id, k)
    PROVE  SigningInv'
<1> DEFINE ids == DOMAIN tree.trusted \cup {id}
           trust == [i \in ids |-> IF i = id THEN k ELSE tree.trusted[i]]
<1>1. ids \subseteq KeyIds
  BY TrustMapForm DEF SigningInv, SigningTypeOK, Commits
<1>2. \A i \in ids : trust[i] \in OwnerKeys
  BY DEF SigningInv, OnlyOwnersTrusted
<1>3. trust \in [ids -> Keys]
  BY <1>2, ReleaseAssumption
<1>4. trust \in TrustMaps
  BY <1>1, <1>3, TrustMapForm
<1>5. tree' = [tree EXCEPT !.trusted = trust] /\ UNCHANGED <<bin, ownerSigned>>
  BY DEF TrustKey
<1> QED BY <1>2, <1>4, <1>5, KeyStep

LEMMA DropStep ==
    ASSUME SigningInv, NEW id \in KeyIds, DropKey(id)
    PROVE  SigningInv'
<1> DEFINE ids == DOMAIN tree.trusted \ {id}
           trust == [i \in ids |-> tree.trusted[i]]
<1>1. ids \subseteq KeyIds
  BY TrustMapForm DEF SigningInv, SigningTypeOK, Commits
<1>2. \A i \in ids : trust[i] \in OwnerKeys
  BY DEF SigningInv, OnlyOwnersTrusted
<1>3. trust \in [ids -> Keys]
  BY <1>2, ReleaseAssumption
<1>4. trust \in TrustMaps
  BY <1>1, <1>3, TrustMapForm
<1>5. tree' = [tree EXCEPT !.trusted = trust] /\ UNCHANGED <<bin, ownerSigned>>
  BY DEF DropKey
<1> QED BY <1>2, <1>4, <1>5, KeyStep

LEMMA SigningNextInv == SigningInv /\ [SigningNext]_signingVars => SigningInv'
<1> SUFFICES ASSUME SigningInv, [SigningNext]_signingVars PROVE SigningInv'
  OBVIOUS
<1>1. CASE \E s \in Surfaces : EditSurface(s)
  BY <1>1, SurfaceStep
<1>2. CASE \E c, name \in Candidates : WriteManifest(c, name)
  BY <1>2, WriteStep
<1>3. CASE \E c \in Candidates, s \in Surfaces : EditManifest(c, s)
  BY <1>3, EditStep
<1>4. CASE \E c \in Candidates : AddLocator(c) \/ TakePayload(c)
  BY <1>4, LocatorStep, TakeStep
<1>5. CASE \E c \in Candidates, id \in KeyIds, k \in OwnerKeys : Sign(c, id, k)
  BY <1>5, SignStep
<1>6. CASE \E c \in Candidates, id \in KeyIds, k \in Keys \ OwnerKeys : AddForeignLine(c, id, k)
  BY <1>6, ForeignStep
<1>7. CASE \E id \in KeyIds, k \in OwnerKeys : TrustKey(id, k)
  BY <1>7, TrustStep
<1>8. CASE \E id \in KeyIds : DropKey(id)
  BY <1>8, DropStep
<1>9. CASE UNCHANGED signingVars
  BY <1>9 DEF signingVars, SigningInv, SigningTypeOK, OnlyOwnersTrusted, OwnerLinesWereSigned
<1> QED BY <1>1, <1>2, <1>3, <1>4, <1>5, <1>6, <1>7, <1>8, <1>9 DEF SigningNext

(* The strengthened invariant holds throughout. *)
THEOREM SigningInductive == SigningSpec => []SigningInv
BY SigningInitInv, SigningNextInv, PTL DEF SigningSpec

(* The tree stays a commit to be, and only payloads are signed: never the
   manifest file as it sits on disk. *)
THEOREM SigningTypeCorrect == SigningSpec => []SigningTypeOK
BY SigningInductive, PTL DEF SigningInv

-----------------------------------------------------------------------------
(* What the invariant says of the tree, said of any commit. *)
Traced(t) ==
    /\ \A id \in DOMAIN t.trusted : t.trusted[id] \in OwnerKeys
    /\ \A c \in Candidates : \A line \in t.signatures[c] :
          line.by \in OwnerKeys => line.payload \in ownerSigned

(* A passing tag's evidence is a line of a trusted key over the manifest; the
   key is an owner's, the manifest is the tree's, so the owner signed it. *)
LEMMA TracedIsSigned ==
    ASSUME NEW t, Traced(t), NEW c \in StableCandidates, ReleaseChecksPass(t, c)
    PROVE  [candidate |-> c, version |-> c, files |-> t.surface] \in ownerSigned
<1>1. c \in Candidates
  BY ReleaseAssumption
<1>2. PICK line \in t.signatures[c] :
         /\ line.key_id \in DOMAIN t.trusted
         /\ line.by = t.trusted[line.key_id]
         /\ line.payload = Payload(t.manifests[c])
  BY DEF ReleaseChecksPass, Verifies
<1>3. t.manifests[c] = BuildManifest(t.surface, c) /\ VersionOf[t.surface] = c
  BY DEF ReleaseChecksPass, DigestMatches, TagMatchesVersion
<1>4. Payload(t.manifests[c]) = [candidate |-> c, version |-> c, files |-> t.surface]
  BY <1>3 DEF Payload, BuildManifest
<1>5. line.by \in OwnerKeys
  BY <1>2 DEF Traced
<1> QED BY <1>1, <1>2, <1>4, <1>5 DEF Traced

LEMMA TreeIsTraced == SigningInv => Traced(tree)
BY DEF SigningInv, OnlyOwnersTrusted, OwnerLinesWereSigned, Traced

LEMMA ReleasableFromInv == SigningInv => ReleasableIsOwnerSigned
BY TreeIsTraced, TracedIsSigned DEF ReleasableIsOwnerSigned

(* However the tree and the signatures were arrived at, a stable tag that
   passes release.yml ships what an owner signed under its own name. *)
THEOREM StableIsOwnerSigned == SigningSpec => []ReleasableIsOwnerSigned
BY SigningInductive, ReleasableFromInv, PTL

(* Adding the locator changes no verdict of rc_signature.py. *)
THEOREM LocatorIsNotCovered == SigningSpec => LocatorKeepsSignature
<1>1. ASSUME SigningInv, NEW c \in Candidates, AddLocator(c), NEW d \in Candidates
      PROVE  Verifies(tree, d) <=> Verifies(tree, d)'
  <2> DEFINE m == [tree.manifests[c] EXCEPT !.signature_ref = TRUE]
  <2>1. tree.manifests[c] \in Manifests
    BY <1>1 DEF SigningInv, SigningTypeOK, Commits, AddLocator
  <2>2. m \in Manifests /\ Payload(m) = Payload(tree.manifests[c]) /\ m # None
    BY <2>1, NoneAssumption DEF Manifests, Payload
  <2>3. /\ tree'.manifests = [tree.manifests EXCEPT ![c] = m]
        /\ tree'.signatures = tree.signatures /\ tree'.trusted = tree.trusted
        /\ tree.manifests[c] # None
        /\ tree.manifests \in [Candidates -> Manifests \cup {None}]
    BY <1>1 DEF AddLocator, SigningInv, SigningTypeOK, Commits
  <2>4. CASE d = c
    <3>1. tree'.manifests[d] # None /\ Payload(tree'.manifests[d]) = Payload(tree.manifests[d])
      BY <2>2, <2>3, <2>4
    <3> QED BY <3>1, <2>3, <2>4 DEF Verifies
  <2>5. CASE d # c
    <3>1. tree'.manifests[d] = tree.manifests[d]
      BY <2>3, <2>5
    <3> QED BY <3>1, <2>3 DEF Verifies
  <2> QED BY <2>4, <2>5
<1>2. SigningInv /\ [SigningNext]_signingVars =>
        [\A c \in Candidates :
           AddLocator(c) => \A d \in Candidates : Verifies(tree, d) <=> Verifies(tree, d)']_signingVars
  BY <1>1
<1> QED BY <1>2, SigningInductive, PTL DEF SigningSpec, LocatorKeepsSignature

(* A line nobody here trusts changes no verdict of rc_signature.py either. *)
THEOREM ForeignLinesDoNotCount == SigningSpec => StrangersDoNotCount
<1>1. ASSUME SigningInv, NEW c \in Candidates, NEW id \in KeyIds \ DOMAIN tree.trusted,
             NEW k \in Keys \ OwnerKeys, AddForeignLine(c, id, k), NEW d \in Candidates
      PROVE  Verifies(tree, d) <=> Verifies(tree, d)'
  <2> DEFINE line == [key_id |-> id, by |-> k, payload |-> Payload(tree.manifests[c])]
             evidence == {l \in tree.signatures[d] : l.key_id \in DOMAIN tree.trusted}
  <2>1. /\ tree'.signatures = [tree.signatures EXCEPT ![c] = @ \cup {line}]
        /\ tree'.manifests = tree.manifests /\ tree'.trusted = tree.trusted
        /\ tree.signatures \in [Candidates -> SUBSET SignatureLines]
    BY <1>1 DEF AddForeignLine, SigningInv, SigningTypeOK, Commits
  <2>2. line.key_id \notin DOMAIN tree.trusted
    BY <1>1
  <2>3. {l \in tree'.signatures[d] : l.key_id \in DOMAIN tree'.trusted} = evidence
    BY <2>1, <2>2
  <2> QED BY <2>1, <2>3 DEF Verifies
<1>2. SigningInv /\ [SigningNext]_signingVars =>
        [\A c \in Candidates, id \in KeyIds \ DOMAIN tree.trusted, k \in Keys \ OwnerKeys :
           AddForeignLine(c, id, k) =>
              \A d \in Candidates : Verifies(tree, d) <=> Verifies(tree, d)']_signingVars
  BY <1>1
<1> QED BY <1>2, SigningInductive, PTL DEF SigningSpec, StrangersDoNotCount

-----------------------------------------------------------------------------
(* Publishing. *)

(* passed tells the truth, and no run is past its checks without it. *)
ChecksRecorded ==
    /\ \A x \in passed : ReleaseChecksPass(x.commit, x.tag)
    /\ \A run \in runs : run.stage \in {"checked", "published"} =>
          [tag |-> run.tag, commit |-> run.commit] \in passed

(* While a tag has not moved, its runs and records have the tag's commit. *)
UnmovedTagsAgree ==
    \A c \in Candidates : moves[c] = 0 =>
        /\ \A run \in runs : run.tag = c => run.commit = tags[c]
        /\ \A x \in passed : x.tag = c => x.commit = tags[c]

(* Only a cut tag has runs or a Release, and only a Release has guards. *)
CutTagsOnly ==
    /\ \A run \in runs : tags[run.tag] # None
    /\ \A x \in passed : tags[x.tag] # None
    /\ \A c \in Candidates : releases[c] # None => tags[c] # None
    /\ \A c \in Candidates : guards[c] # 0 => releases[c] # None

(* The commit a tag names has passed, or has a run that did not let it pass. *)
NamedCommitsHaveRuns ==
    \A c \in Candidates :
        tags[c] # None => [tag |-> c, commit |-> tags[c]] \in passed \/ Unproven(c)

Vetted(c) ==
    /\ Checked(c)
    /\ c \notin remarked => releases[c].prerelease = (c \notin StableCandidates)

(* What is public and quiet, or was authored by release.yml, is vetted. *)
ReleasesVetted ==
    \A c \in Candidates :
        /\ Public(c) /\ Quiet(c) => Vetted(c)
        /\ releases[c] # None /\ releases[c].author = "workflow" => Vetted(c)

PublishingInv ==
    /\ PublishingTypeOK
    /\ ChecksRecorded
    /\ UnmovedTagsAgree
    /\ NamedCommitsHaveRuns
    /\ CutTagsOnly
    /\ ReleasesVetted

-----------------------------------------------------------------------------
LEMMA PublishingInitInv == PublishingInit => PublishingInv
<1> SUFFICES ASSUME PublishingInit PROVE PublishingInv
  OBVIOUS
<1>1. PublishingTypeOK
  BY PublishingAssumption DEF PublishingInit, PublishingTypeOK
<1>2. ChecksRecorded /\ UnmovedTagsAgree /\ NamedCommitsHaveRuns /\ CutTagsOnly
  BY DEF PublishingInit, ChecksRecorded, UnmovedTagsAgree, NamedCommitsHaveRuns, CutTagsOnly
<1>3. ReleasesVetted
  BY DEF PublishingInit, ReleasesVetted, Public, Quiet
<1> QED BY <1>1, <1>2, <1>3 DEF PublishingInv

LEMMA QueuedTyped ==
    ASSUME NEW c \in Candidates, NEW commit \in TaggedCommits
    PROVE  Queued(c, commit) \in Runs
BY DEF Queued, Runs, Stages

(* A run that moves to another stage keeps its tag and its checkout. *)
LEMMA AtForm ==
    ASSUME PublishingTypeOK, NEW run \in runs, NEW stage \in Stages
    PROVE  /\ At(run, stage) \subseteq Runs
           /\ \A r \in At(run, stage) :
                 \/ r \in runs
                 \/ r.tag = run.tag /\ r.commit = run.commit /\ r.stage = stage
BY DEF PublishingTypeOK, At, Runs

(* A tag that is cut at a commit has a run of it queued. *)
LEMMA CutHasRun ==
    ASSUME PublishingInv, NEW c \in Candidates, NEW commit \in TaggedCommits,
           tags' = [tags EXCEPT ![c] = commit], runs' = runs \cup {Queued(c, commit)},
           passed' = passed
    PROVE  NamedCommitsHaveRuns'
<1>1. Queued(c, commit) \in runs'
  OBVIOUS
<1>2. /\ Queued(c, commit).tag = c /\ Queued(c, commit).commit = commit
      /\ Queued(c, commit).stage = "queued"
  BY DEF Queued
<1>3. \A d \in Candidates : tags'[d] = IF d = c THEN commit ELSE tags[d]
  BY DEF PublishingInv, PublishingTypeOK
<1>4. runs \subseteq runs'
  OBVIOUS
<1> SUFFICES ASSUME NEW d \in Candidates, tags'[d] # None
             PROVE  [tag |-> d, commit |-> tags'[d]] \in passed' \/ Unproven(d)'
  BY DEF NamedCommitsHaveRuns
<1>5. CASE d = c
  BY <1>1, <1>2, <1>3, <1>5 DEF Unproven
<1>6. CASE d # c
  BY <1>3, <1>4, <1>6 DEF PublishingInv, NamedCommitsHaveRuns, Unproven
<1> QED BY <1>5, <1>6

(* A run that moves on leaves its commit passed, or goes on showing that it is not. *)
LEMMA RunMoves ==
    ASSUME PublishingInv, NEW run \in runs, NEW stage \in Stages, runs' = At(run, stage),
           tags' = tags, passed \subseteq passed',
           stage \in {"queued", "failed"} \/ [tag |-> run.tag, commit |-> run.commit] \in passed'
    PROVE  NamedCommitsHaveRuns'
<1> DEFINE moved == [run EXCEPT !.stage = stage]
<1>1. /\ moved \in runs' /\ \A r \in runs : r # run => r \in runs'
      /\ moved.tag = run.tag /\ moved.commit = run.commit /\ moved.stage = stage
  BY DEF At, PublishingInv, PublishingTypeOK, Runs
<1> SUFFICES ASSUME NEW c \in Candidates, tags[c] # None,
                    [tag |-> c, commit |-> tags[c]] \notin passed'
             PROVE  Unproven(c)'
  BY DEF NamedCommitsHaveRuns
<1>2. PICK r \in runs : /\ r.tag = c /\ r.commit = tags[c]
                        /\ r.stage \in {"queued", "failed"}
  BY DEF PublishingInv, NamedCommitsHaveRuns, Unproven
<1>3. CASE r = run
  <2>1. stage \in {"queued", "failed"}
    BY <1>2, <1>3
  <2> QED BY <1>1, <1>2, <1>3, <2>1 DEF Unproven
<1>4. CASE r # run
  BY <1>1, <1>2, <1>4 DEF Unproven
<1> QED BY <1>3, <1>4

(* None is no commit and no Release can be mistaken for it where it matters. *)
LEMMA CommitsAreNotNone == \A commit \in TaggedCommits : commit # None
BY PublishingAssumption, NoneAssumption

-----------------------------------------------------------------------------
(* People. *)
LEMMA PushTagInv ==
    ASSUME PublishingInv, NEW c \in Candidates, NEW commit \in TaggedCommits, PushTag(c, commit)
    PROVE  PublishingInv'
<1>1. PublishingTypeOK'
  BY QueuedTyped DEF PublishingInv, PublishingTypeOK, PushTag
<1>2. ChecksRecorded'
  BY DEF PublishingInv, ChecksRecorded, PushTag, Queued
<1>3. UnmovedTagsAgree' /\ CutTagsOnly'
  BY CommitsAreNotNone
     DEF PublishingInv, PublishingTypeOK, UnmovedTagsAgree, CutTagsOnly, PushTag, MayCut,
         Queued, Runs, Checkouts
<1>4. ReleasesVetted'
  BY DEF PublishingInv, ReleasesVetted, Vetted, Checked, Public, Quiet, PushTag
<1>5. NamedCommitsHaveRuns'
  BY CutHasRun DEF PushTag
<1> QED BY <1>1, <1>2, <1>3, <1>4, <1>5 DEF PublishingInv

LEMMA MoveTagInv ==
    ASSUME PublishingInv, NEW c \in Candidates, NEW commit \in TaggedCommits, MoveTag(c, commit)
    PROVE  PublishingInv'
<1>1. PublishingTypeOK'
  BY QueuedTyped, PublishingAssumption DEF PublishingInv, PublishingTypeOK, MoveTag
<1>2. ChecksRecorded'
  BY DEF PublishingInv, ChecksRecorded, MoveTag, Queued
<1>3. UnmovedTagsAgree' /\ CutTagsOnly'
  BY CommitsAreNotNone
     DEF PublishingInv, PublishingTypeOK, UnmovedTagsAgree, CutTagsOnly, MoveTag, Queued, Runs,
         Checkouts
<1>4. ReleasesVetted'
  BY DEF PublishingInv, ReleasesVetted, Vetted, Checked, Public, Quiet, MoveTag
<1>5. NamedCommitsHaveRuns'
  BY CutHasRun DEF MoveTag
<1> QED BY <1>1, <1>2, <1>3, <1>4, <1>5 DEF PublishingInv

(* A hand-made Release is born with a guard on its way. *)
LEMMA HandReleaseInv ==
    ASSUME PublishingInv, NEW c \in Candidates, NEW commit \in TaggedCommits, NEW mark \in BOOLEAN,
           HandRelease(c, commit, mark)
    PROVE  PublishingInv'
<1> DEFINE made == [state |-> "public", author |-> "person", prerelease |-> mark]
<1>1. made \in Releases
  BY DEF Releases
<1>2. /\ releases' = [releases EXCEPT ![c] = made]
      /\ guards' = [guards EXCEPT ![c] = @ + 1]
      /\ guards[c] < MaxGuards
      /\ UNCHANGED <<moves, failed, passed, withdrawn, remarked>>
  BY DEF HandRelease
<1>3. guards'[c] # 0 /\ guards' \in [Candidates -> 0 .. MaxGuards]
  BY <1>2, PublishingAssumption DEF PublishingInv, PublishingTypeOK
<1>4. /\ ReleasesVetted'
      /\ \A d \in Candidates : releases'[d] # None <=> d = c \/ releases[d] # None
      /\ \A d \in Candidates : d # c => guards'[d] = guards[d]
  BY <1>1, <1>2, <1>3, NoneIsNoRelease
     DEF PublishingInv, PublishingTypeOK, ReleasesVetted, Vetted, Checked, Public, Quiet
<1>5. CASE /\ MayCut(c)
           /\ tags' = [tags EXCEPT ![c] = commit]
           /\ runs' = runs \cup {Queued(c, commit)}
  <2>1. PublishingTypeOK'
    BY <1>1, <1>2, <1>3, <1>5, QueuedTyped DEF PublishingInv, PublishingTypeOK
  <2>2. ChecksRecorded'
    BY <1>2, <1>5 DEF PublishingInv, ChecksRecorded, Queued
  <2>3. UnmovedTagsAgree'
    BY <1>2, <1>5 DEF PublishingInv, PublishingTypeOK, UnmovedTagsAgree, CutTagsOnly, MayCut,
                      Queued
  <2>4. CutTagsOnly'
    BY <1>2, <1>4, <1>5, CommitsAreNotNone DEF PublishingInv, PublishingTypeOK, CutTagsOnly, Queued
  <2>5. NamedCommitsHaveRuns'
    BY <1>2, <1>5, CutHasRun
  <2> QED BY <1>4, <2>1, <2>2, <2>3, <2>4, <2>5 DEF PublishingInv
<1>6. CASE tags[c] = commit /\ UNCHANGED <<tags, runs>>
  <2>1. PublishingTypeOK'
    BY <1>1, <1>2, <1>3, <1>6 DEF PublishingInv, PublishingTypeOK
  <2>2. ChecksRecorded' /\ UnmovedTagsAgree' /\ NamedCommitsHaveRuns' /\ CutTagsOnly'
    BY <1>2, <1>4, <1>6, CommitsAreNotNone
       DEF PublishingInv, PublishingTypeOK, ChecksRecorded, UnmovedTagsAgree,
           NamedCommitsHaveRuns, Unproven, CutTagsOnly
  <2> QED BY <1>4, <2>1, <2>2 DEF PublishingInv
<1> QED BY <1>5, <1>6 DEF HandRelease

(* Steps on the Releases and their guards alone. *)
LEMMA ReleaseOnly ==
    ASSUME PublishingInv, UNCHANGED <<tags, moves, runs, passed>>,
           releases' \in [Candidates -> Releases \cup {None}],
           \A c \in Candidates : releases'[c] # None => tags[c] # None,
           \A c \in Candidates : guards'[c] # 0 => releases'[c] # None,
           guards' \in [Candidates -> 0 .. MaxGuards], withdrawn' \subseteq Candidates,
           failed' \subseteq Candidates, remarked' \subseteq Candidates,
           ReleasesVetted'
    PROVE  PublishingInv'
BY DEF PublishingInv, PublishingTypeOK, ChecksRecorded, UnmovedTagsAgree, NamedCommitsHaveRuns,
       Unproven, CutTagsOnly

(* A Release whose state alone changes stays as vetted as it was. *)
LEMMA RestatedRelease ==
    ASSUME PublishingTypeOK, NEW c \in Candidates, releases[c] # None, NEW state \in {"draft", "public"}
    PROVE  /\ [releases EXCEPT ![c].state = state] \in [Candidates -> Releases \cup {None}]
           /\ [releases[c] EXCEPT !.state = state] \in Releases
           /\ [releases[c] EXCEPT !.state = state].state = state
           /\ [releases[c] EXCEPT !.state = state].author = releases[c].author
           /\ [releases[c] EXCEPT !.state = state].prerelease = releases[c].prerelease
           /\ \A d \in Candidates :
                 [releases EXCEPT ![c].state = state][d] # None <=> releases[d] # None
<1>1. releases[c] \in Releases
  BY DEF PublishingTypeOK
<1>2. [releases[c] EXCEPT !.state = state] \in Releases
  BY <1>1 DEF Releases
<1>3. \A d \in Candidates :
        [releases EXCEPT ![c].state = state][d] # None <=> releases[d] # None
  BY <1>2, NoneIsNoRelease DEF PublishingTypeOK
<1> QED BY <1>1, <1>2, <1>3 DEF PublishingTypeOK, Releases

LEMMA WithdrawInv ==
    ASSUME PublishingInv, NEW c \in Candidates, Withdraw(c)
    PROVE  PublishingInv'
<1>1. releases[c] # None /\ PublishingTypeOK
  BY DEF Withdraw, PublishingInv
<1>2. ReleasesVetted'
  BY <1>1, RestatedRelease DEF PublishingInv, PublishingTypeOK, ReleasesVetted, Vetted, Checked,
                               Public, Quiet, Withdraw
<1> QED BY <1>1, <1>2, RestatedRelease, ReleaseOnly DEF Withdraw, PublishingInv,
                                                        PublishingTypeOK, CutTagsOnly

LEMMA GuardInv ==
    ASSUME PublishingInv, NEW c \in Candidates, Guard(c)
    PROVE  PublishingInv'
<1>1. PublishingTypeOK /\ releases[c] # None
  BY PublishingAssumption DEF PublishingInv, PublishingTypeOK, CutTagsOnly, Guard
<1>2. /\ guards' \in [Candidates -> 0 .. MaxGuards]
      /\ guards' = [guards EXCEPT ![c] = @ - 1]
  BY <1>1, PublishingAssumption DEF PublishingTypeOK, Guard
<1>3. ReleasesVetted'
  BY <1>1, <1>2, RestatedRelease DEF PublishingInv, PublishingTypeOK, ReleasesVetted, Vetted,
                                     Checked, Public, Quiet, Guard
<1> QED BY <1>1, <1>2, <1>3, RestatedRelease, ReleaseOnly DEF Guard, PublishingInv,
                                                            PublishingTypeOK, CutTagsOnly

(* A guard that fails leaves the Release as it was, or hidden; either way its
   tag is no longer quiet. *)
LEMMA GuardFailsInv ==
    ASSUME PublishingInv, NEW c \in Candidates, GuardFails(c)
    PROVE  PublishingInv'
<1>1. PublishingTypeOK /\ releases[c] # None
  BY PublishingAssumption DEF PublishingInv, PublishingTypeOK, CutTagsOnly, GuardFails
<1>2. /\ guards' \in [Candidates -> 0 .. MaxGuards]
      /\ guards' = [guards EXCEPT ![c] = @ - 1]
  BY <1>1, PublishingAssumption DEF PublishingTypeOK, GuardFails
<1>3. \A d \in Candidates : d # c => (Quiet(d)' <=> Quiet(d))
  BY <1>1, <1>2 DEF PublishingTypeOK, Quiet, GuardFails
<1>4. ~Quiet(c)'
  BY DEF Quiet, GuardFails
<1>5. CASE releases' = [releases EXCEPT ![c].state = "draft"]
  <2>1. ReleasesVetted'
    BY <1>1, <1>3, <1>4, <1>5, RestatedRelease
       DEF PublishingInv, PublishingTypeOK, ReleasesVetted, Vetted, Checked, Public, GuardFails
  <2> QED BY <1>1, <1>2, <1>5, <2>1, RestatedRelease, ReleaseOnly
             DEF GuardFails, PublishingInv, PublishingTypeOK, CutTagsOnly
<1>6. CASE UNCHANGED releases
  <2>1. ReleasesVetted'
    BY <1>3, <1>4, <1>6 DEF PublishingInv, ReleasesVetted, Vetted, Checked, Public, GuardFails
  <2> QED BY <1>1, <1>2, <1>6, <2>1, ReleaseOnly DEF GuardFails, PublishingInv,
                                                     PublishingTypeOK, CutTagsOnly
<1> QED BY <1>5, <1>6 DEF GuardFails

LEMMA RerunGuardInv ==
    ASSUME PublishingInv, NEW c \in Candidates, RerunGuard(c)
    PROVE  PublishingInv'
<1>1. /\ guards' = [guards EXCEPT ![c] = 1]
      /\ guards' \in [Candidates -> 0 .. MaxGuards]
      /\ \A d \in Candidates : guards'[d] = (IF d = c THEN 1 ELSE guards[d])
  BY PublishingAssumption DEF PublishingInv, PublishingTypeOK, RerunGuard
<1>2. ReleasesVetted'
  BY <1>1 DEF PublishingInv, ReleasesVetted, Vetted, Checked, Public, Quiet, RerunGuard
<1> QED BY <1>1, <1>2, ReleaseOnly DEF RerunGuard, PublishingInv, PublishingTypeOK, CutTagsOnly

(* The same of a Release that is published or edited with another mark. *)
LEMMA RemarkedRelease ==
    ASSUME PublishingTypeOK, NEW c \in Candidates, releases[c] # None,
           NEW state \in {"draft", "public"}, NEW mark \in BOOLEAN, NEW new,
           new = [state |-> state, author |-> releases[c].author, prerelease |-> mark],
           releases' = [releases EXCEPT ![c] = new]
    PROVE  /\ new \in Releases /\ releases' \in [Candidates -> Releases \cup {None}]
           /\ \A d \in Candidates : releases'[d] = IF d = c THEN new ELSE releases[d]
           /\ \A d \in Candidates : releases'[d] # None <=> releases[d] # None
<1>1. releases[c] \in Releases
  BY DEF PublishingTypeOK
<1>2. new \in Releases
  BY <1>1 DEF Releases
<1>3. \A d \in Candidates : releases'[d] = IF d = c THEN new ELSE releases[d]
  BY DEF PublishingTypeOK
<1> QED BY <1>2, <1>3, NoneIsNoRelease DEF PublishingTypeOK

(* Publishing and editing write such a Release. *)
LEMMA RemarkingForm ==
    ASSUME PublishingTypeOK, NEW c \in Candidates, releases[c] # None, NEW mark \in BOOLEAN
    PROVE  /\ PublishDraft(c, mark) =>
                 releases' = [releases EXCEPT ![c] =
                    [state |-> "public", author |-> releases[c].author, prerelease |-> mark]]
           /\ EditMark(c, mark) =>
                 releases' = [releases EXCEPT ![c] =
                    [state |-> releases[c].state, author |-> releases[c].author,
                     prerelease |-> mark]]
<1> DEFINE r == releases[c]
<1>1. r \in Releases /\ DOMAIN releases = Candidates
  BY DEF PublishingTypeOK
<1>2. r = [state |-> r.state, author |-> r.author, prerelease |-> r.prerelease]
  BY <1>1 DEF Releases
<1>3. [r EXCEPT !.prerelease = mark]
        = [state |-> r.state, author |-> r.author, prerelease |-> mark]
  BY <1>2
<1>4. PublishDraft(c, mark) =>
        releases' = [releases EXCEPT ![c] =
                       [state |-> "public", author |-> r.author, prerelease |-> mark]]
  BY <1>1 DEF PublishDraft
<1>5. EditMark(c, mark) => releases' = [releases EXCEPT ![c] = [r EXCEPT !.prerelease = mark]]
  BY <1>1 DEF EditMark
<1> QED BY <1>3, <1>4, <1>5

(* A draft by the bot was checked; a draft by a person comes with a guard. *)
LEMMA PublishDraftInv ==
    ASSUME PublishingInv, NEW c \in Candidates, NEW mark \in BOOLEAN, PublishDraft(c, mark)
    PROVE  PublishingInv'
<1> DEFINE new == [state |-> "public", author |-> releases[c].author, prerelease |-> mark]
<1>1. /\ releases[c] # None /\ PublishingTypeOK
      /\ releases' = [releases EXCEPT ![c] = new]
  BY RemarkingForm DEF PublishDraft, PublishingInv
<1>2. /\ releases' \in [Candidates -> Releases \cup {None}]
      /\ \A d \in Candidates : releases'[d] = IF d = c THEN new ELSE releases[d]
      /\ \A d \in Candidates : releases'[d] # None <=> releases[d] # None
  BY <1>1, RemarkedRelease
<1>3. CASE releases[c].author = "person"
  <2>1. /\ guards' = [guards EXCEPT ![c] = @ + 1]
        /\ guards' \in [Candidates -> 0 .. MaxGuards]
        /\ guards'[c] # 0 /\ remarked' = remarked
    BY <1>1, <1>3, PublishingAssumption DEF PublishDraft, PublishingTypeOK
  <2>2. ReleasesVetted'
    BY <1>1, <1>2, <1>3, <2>1
       DEF PublishingInv, PublishingTypeOK, ReleasesVetted, Vetted, Checked, Public, Quiet,
           PublishDraft
  <2> QED BY <1>1, <1>2, <2>1, <2>2, ReleaseOnly
             DEF PublishDraft, PublishingInv, PublishingTypeOK, CutTagsOnly
<1>4. CASE releases[c].author # "person"
  <2>1. guards' = guards /\ releases[c].author = "workflow" /\ remarked' = remarked \cup {c}
    BY <1>4 DEF PublishDraft
  <2>2. ReleasesVetted'
    BY <1>1, <1>2, <2>1
       DEF PublishingInv, PublishingTypeOK, ReleasesVetted, Vetted, Checked, Public, Quiet,
           PublishDraft
  <2> QED BY <1>1, <1>2, <2>1, <2>2, ReleaseOnly
             DEF PublishDraft, PublishingInv, PublishingTypeOK, CutTagsOnly
<1> QED BY <1>3, <1>4

(* An edited mark is on record, and who made the Release stays who made it. *)
LEMMA EditMarkInv ==
    ASSUME PublishingInv, NEW c \in Candidates, NEW mark \in BOOLEAN, EditMark(c, mark)
    PROVE  PublishingInv'
<1> DEFINE new == [state |-> releases[c].state, author |-> releases[c].author,
                   prerelease |-> mark]
<1>1. /\ releases[c] # None /\ PublishingTypeOK
      /\ releases[c].state \in {"draft", "public"}
      /\ releases' = [releases EXCEPT ![c] = new]
  <2>1. releases[c] # None /\ PublishingTypeOK
    BY DEF EditMark, PublishingInv
  <2>2. releases[c].state \in {"draft", "public"}
    BY <2>1 DEF PublishingTypeOK, Releases
  <2> QED BY <2>1, <2>2, RemarkingForm
<1>2. /\ releases' \in [Candidates -> Releases \cup {None}]
      /\ \A d \in Candidates : releases'[d] = IF d = c THEN new ELSE releases[d]
      /\ \A d \in Candidates : releases'[d] # None <=> releases[d] # None
  BY <1>1, RemarkedRelease
<1>3. ReleasesVetted'
  BY <1>1, <1>2
     DEF PublishingInv, PublishingTypeOK, ReleasesVetted, Vetted, Checked, Public, Quiet, EditMark
<1> QED BY <1>1, <1>2, <1>3, ReleaseOnly
           DEF EditMark, PublishingInv, PublishingTypeOK, CutTagsOnly

-----------------------------------------------------------------------------
(* release.yml. *)
LEMMA RerunInv ==
    ASSUME PublishingInv, NEW run \in runs, Rerun(run)
    PROVE  PublishingInv'
<1>1. PublishingTypeOK /\ "queued" \in Stages
  BY DEF PublishingInv, Stages
<1>2. runs' \subseteq Runs /\ \A r \in runs' : r \in runs \/ (r.tag = run.tag /\ r.commit = run.commit /\ r.stage = "queued")
  BY <1>1, AtForm DEF Rerun
<1>3. PublishingTypeOK' /\ ChecksRecorded'
  BY <1>2 DEF PublishingInv, PublishingTypeOK, ChecksRecorded, Rerun
<1>4. UnmovedTagsAgree' /\ CutTagsOnly' /\ ReleasesVetted'
  BY <1>2 DEF PublishingInv, UnmovedTagsAgree, CutTagsOnly, ReleasesVetted, Vetted, Checked,
              Public, Quiet, Rerun
<1>5. NamedCommitsHaveRuns'
  BY <1>1, RunMoves DEF Rerun
<1> QED BY <1>3, <1>4, <1>5 DEF PublishingInv

LEMMA RunChecksInv ==
    ASSUME PublishingInv, NEW run \in runs, RunChecks(run)
    PROVE  PublishingInv'
<1> DEFINE record == [tag |-> run.tag, commit |-> run.commit]
<1>1. PublishingTypeOK /\ {"checked", "failed"} \subseteq Stages /\ record \in Checkouts
  BY DEF PublishingInv, PublishingTypeOK, Stages, Runs, Checkouts
<1>2. CASE /\ ReleaseChecksPass(run.commit, run.tag)
           /\ runs' = At(run, "checked") /\ passed' = passed \cup {record}
  <2>1. runs' \subseteq Runs /\ \A r \in runs' : r \in runs \/ (r.tag = run.tag /\ r.commit = run.commit /\ r.stage = "checked")
    BY <1>1, <1>2, AtForm
  <2>2. PublishingTypeOK'
    BY <1>1, <1>2, <2>1 DEF PublishingTypeOK, RunChecks
  <2>3. ChecksRecorded'
    BY <1>2, <2>1 DEF PublishingInv, ChecksRecorded
  <2>4. UnmovedTagsAgree' /\ CutTagsOnly'
    BY <1>2, <2>1 DEF PublishingInv, UnmovedTagsAgree, CutTagsOnly, RunChecks
  <2>5. ReleasesVetted'
    BY <1>2 DEF PublishingInv, ReleasesVetted, Vetted, Checked, Public, Quiet, RunChecks
  <2>6. NamedCommitsHaveRuns'
    BY <1>1, <1>2, RunMoves DEF RunChecks
  <2> QED BY <2>2, <2>3, <2>4, <2>5, <2>6 DEF PublishingInv
<1>3. CASE runs' = At(run, "failed") /\ UNCHANGED passed
  <2>1. runs' \subseteq Runs /\ \A r \in runs' : r \in runs \/ (r.tag = run.tag /\ r.commit = run.commit /\ r.stage = "failed")
    BY <1>1, <1>3, AtForm
  <2>2. PublishingTypeOK' /\ ChecksRecorded'
    BY <1>1, <1>3, <2>1 DEF PublishingInv, PublishingTypeOK, ChecksRecorded, RunChecks
  <2>3. UnmovedTagsAgree' /\ CutTagsOnly' /\ ReleasesVetted'
    BY <1>3, <2>1 DEF PublishingInv, UnmovedTagsAgree, CutTagsOnly, ReleasesVetted, Vetted,
                      Checked, Public, Quiet, RunChecks
  <2>4. NamedCommitsHaveRuns'
    BY <1>1, <1>3, RunMoves DEF RunChecks
  <2> QED BY <2>2, <2>3, <2>4 DEF PublishingInv
<1> QED BY <1>2, <1>3 DEF RunChecks

LEMMA CreateReleaseInv ==
    ASSUME PublishingInv, NEW run \in runs, CreateRelease(run)
    PROVE  PublishingInv'
<1> DEFINE c == run.tag
           made == [state |-> "public", prerelease |-> c \notin StableCandidates,
                    author |-> IF releases[c] = None THEN "workflow" ELSE releases[c].author]
<1>1. /\ PublishingTypeOK /\ "published" \in Stages /\ c \in Candidates
      /\ [tag |-> run.tag, commit |-> run.commit] \in passed
  BY DEF PublishingInv, PublishingTypeOK, Stages, Runs, ChecksRecorded, CreateRelease
<1>2. made \in Releases
  BY <1>1 DEF PublishingTypeOK, Releases
<1>3. /\ runs' \subseteq Runs
      /\ \A r \in runs' : r \in runs \/ (r.tag = run.tag /\ r.commit = run.commit /\ r.stage = "published")
  BY <1>1, AtForm DEF CreateRelease
<1>4. /\ releases' = [releases EXCEPT ![c] = made]
      /\ remarked' = remarked \ {c}
      /\ UNCHANGED <<tags, moves, guards, failed, passed, withdrawn>>
  BY <1>1 DEF CreateRelease, PublishingTypeOK
<1>5. PublishingTypeOK' /\ ChecksRecorded'
  BY <1>1, <1>2, <1>3, <1>4 DEF PublishingInv, PublishingTypeOK, ChecksRecorded
<1>6. tags[c] # None
  BY DEF PublishingInv, CutTagsOnly
<1>7. guards[c] # 0 => releases'[c] # None
  BY <1>1, <1>2, <1>4, NoneIsNoRelease DEF PublishingInv, PublishingTypeOK, CutTagsOnly
<1>8. UnmovedTagsAgree' /\ CutTagsOnly'
  BY <1>1, <1>3, <1>4, <1>6, <1>7 DEF PublishingInv, PublishingTypeOK, UnmovedTagsAgree,
                                      CutTagsOnly
<1>9. ReleasesVetted'
  BY <1>1, <1>4 DEF PublishingInv, PublishingTypeOK, ReleasesVetted, Vetted, Checked, Public, Quiet
<1>10. NamedCommitsHaveRuns'
  BY <1>1, RunMoves DEF CreateRelease
<1> QED BY <1>5, <1>8, <1>9, <1>10 DEF PublishingInv

LEMMA CreateFailsInv ==
    ASSUME PublishingInv, NEW run \in runs, CreateFails(run)
    PROVE  PublishingInv'
<1>1. PublishingTypeOK /\ "failed" \in Stages
  BY DEF PublishingInv, Stages
<1>2. /\ runs' \subseteq Runs
      /\ \A r \in runs' : r \in runs \/ (r.tag = run.tag /\ r.commit = run.commit /\ r.stage = "failed")
  BY <1>1, AtForm DEF CreateFails
<1>3. PublishingTypeOK' /\ ChecksRecorded'
  BY <1>2 DEF PublishingInv, PublishingTypeOK, ChecksRecorded, CreateFails
<1>4. UnmovedTagsAgree' /\ CutTagsOnly' /\ ReleasesVetted'
  BY <1>2 DEF PublishingInv, UnmovedTagsAgree, CutTagsOnly, ReleasesVetted, Vetted, Checked,
              Public, Quiet,
              CreateFails
<1>5. NamedCommitsHaveRuns'
  BY <1>1, RunMoves DEF CreateFails
<1> QED BY <1>3, <1>4, <1>5 DEF PublishingInv

LEMMA PublishingNextInv == PublishingInv /\ [PublishingNext]_publishingVars => PublishingInv'
<1> SUFFICES ASSUME PublishingInv, [PublishingNext]_publishingVars PROVE PublishingInv'
  OBVIOUS
<1>1. ASSUME NEW c \in Candidates, NEW commit \in TaggedCommits,
             \/ PushTag(c, commit)
             \/ MoveTag(c, commit)
             \/ \E mark \in BOOLEAN : HandRelease(c, commit, mark)
      PROVE  PublishingInv'
  BY <1>1, PushTagInv, MoveTagInv, HandReleaseInv
<1>2. ASSUME NEW c \in Candidates,
             \/ \E mark \in BOOLEAN : PublishDraft(c, mark) \/ EditMark(c, mark)
             \/ Withdraw(c) \/ RerunGuard(c) \/ Guard(c) \/ GuardFails(c)
      PROVE  PublishingInv'
  BY <1>2, WithdrawInv, PublishDraftInv, EditMarkInv, RerunGuardInv, GuardInv, GuardFailsInv
<1>3. ASSUME NEW run \in runs,
             Rerun(run) \/ RunChecks(run) \/ CreateRelease(run) \/ CreateFails(run)
      PROVE  PublishingInv'
  BY <1>3, RerunInv, RunChecksInv, CreateReleaseInv, CreateFailsInv
<1>4. CASE UNCHANGED publishingVars
  BY <1>4 DEF publishingVars, PublishingInv, PublishingTypeOK, ChecksRecorded, UnmovedTagsAgree,
              NamedCommitsHaveRuns, Unproven, CutTagsOnly,
              ReleasesVetted, Vetted, Checked, Public, Quiet
<1> QED BY <1>1, <1>2, <1>3, <1>4 DEF PublishingNext, Cut, Proceed

(* The strengthened invariant holds throughout. *)
THEOREM PublishingInductive == PublishingSpec => []PublishingInv
BY PublishingInitInv, PublishingNextInv, PTL DEF PublishingSpec

(* Everything published has its shape, and no guard runs without its event. *)
THEOREM PublishingTypeCorrect == PublishingSpec => []PublishingTypeOK
BY PublishingInductive, PTL DEF PublishingInv

-----------------------------------------------------------------------------
LEMMA CheckedFromInv == PublishingInv => QuietReleaseWasChecked
<1> SUFFICES ASSUME PublishingInv, NEW c \in Candidates, Public(c), Quiet(c)
             PROVE  \E x \in passed :
                       /\ x.tag = c
                       /\ x.commit = tags[c] \/ (moves[c] > 0 /\ Unproven(c))
  BY DEF QuietReleaseWasChecked
<1>1. PICK x \in passed : x.tag = c
  BY DEF PublishingInv, ReleasesVetted, Vetted, Checked
<1>2. CASE moves[c] = 0
  BY <1>1, <1>2 DEF PublishingInv, UnmovedTagsAgree
<1>3. CASE moves[c] # 0 /\ [tag |-> c, commit |-> tags[c]] \in passed
  BY <1>3
<1>4. CASE moves[c] # 0 /\ [tag |-> c, commit |-> tags[c]] \notin passed
  <2>1. tags[c] # None
    BY <1>1 DEF PublishingInv, CutTagsOnly
  <2>2. Unproven(c)
    BY <1>4, <2>1 DEF PublishingInv, NamedCommitsHaveRuns
  <2>3. moves[c] > 0
    BY <1>4, PublishingAssumption DEF PublishingInv, PublishingTypeOK
  <2> QED BY <1>1, <2>2, <2>3
<1> QED BY <1>2, <1>3, <1>4

(* Whoever made, withdrew or republished it, and in whatever order the jobs
   ran: a public Release no guard is after passed the checks of its tag, at the
   commit its tag names unless a run of that commit waits or failed. *)
THEOREM PublicWasChecked == PublishingSpec => []QuietReleaseWasChecked
BY CheckedFromInv, PublishingInductive, PTL

(* A public Release no guard is after has the mark its version calls for, except
   where a person edited the mark, or published again a draft release.yml had
   authored, since release.yml last published it. *)
THEOREM WrongMarksWereEdited == PublishingSpec => []WrongMarkIsAnEdit
<1>1. PublishingInv => WrongMarkIsAnEdit
  BY DEF PublishingInv, ReleasesVetted, Vetted, WrongMarkIsAnEdit
<1> QED BY <1>1, PublishingInductive, PTL

(* A public stable Release of an unmoved tag has a trusted signature over the
   very surface the tag ships. *)
THEOREM PublicStableIsSigned == PublishingSpec => []QuietStableIsSigned
<1>1. ASSUME PublishingInv, NEW c \in StableCandidates, Public(c), Quiet(c), moves[c] = 0
      PROVE  \E line \in tags[c].signatures[c] :
                /\ line.key_id \in DOMAIN tags[c].trusted
                /\ line.by = tags[c].trusted[line.key_id]
                /\ line.payload = [candidate |-> c, version |-> c, files |-> tags[c].surface]
  <2>1. c \in Candidates
    BY ReleaseAssumption
  <2>2. PICK x \in passed : x.tag = c
    BY <1>1, <2>1 DEF PublishingInv, ReleasesVetted, Vetted, Checked
  <2>3. x.commit = tags[c] /\ ReleaseChecksPass(tags[c], c)
    BY <1>1, <2>1, <2>2 DEF PublishingInv, UnmovedTagsAgree, ChecksRecorded
  <2>4. Verifies(tags[c], c)
    BY <1>1, <2>3 DEF ReleaseChecksPass
  <2>5. PICK line \in tags[c].signatures[c] :
           /\ line.key_id \in DOMAIN tags[c].trusted
           /\ line.by = tags[c].trusted[line.key_id]
           /\ line.payload = Payload(tags[c].manifests[c])
    BY <2>4 DEF Verifies
  <2>6. tags[c].manifests[c] = BuildManifest(tags[c].surface, c) /\ VersionOf[tags[c].surface] = c
    BY <2>3 DEF ReleaseChecksPass, DigestMatches, TagMatchesVersion
  <2>7. Payload(tags[c].manifests[c]) = [candidate |-> c, version |-> c, files |-> tags[c].surface]
    BY <2>6 DEF Payload, BuildManifest
  <2> QED BY <2>5, <2>7
<1>2. PublishingInv => QuietStableIsSigned
  BY <1>1 DEF QuietStableIsSigned
<1> QED BY <1>2, PublishingInductive, PTL

-----------------------------------------------------------------------------
(* The workflows implement SafePublishing.  Each step is one of its steps or a
   stutter; what is shown by a person's draft comes with a watch, and what
   release.yml shows or authored is cleared. *)
LEMMA SafeInit == PublishingInit => Safe!Init
BY PublishingAssumption DEF PublishingInit, Safe!Init, Public, Checked

(* Steps that touch neither Releases, guards nor records are stutters. *)
LEMMA SafeStutter ==
    ASSUME UNCHANGED <<releases, guards, failed, passed>>
    PROVE  UNCHANGED Safe!vars
BY DEF Safe!vars, Public, Checked

LEMMA SafeShown ==
    ASSUME PublishingTypeOK, NEW c \in Candidates, NEW r \in Releases, releases' = [releases EXCEPT ![c] = r]
    PROVE  {d \in Candidates : Public(d)'} =
             IF r.state = "public" THEN {d \in Candidates : Public(d)} \cup {c}
                                   ELSE {d \in Candidates : Public(d)} \ {c}
<1>1. \A d \in Candidates : releases'[d] = IF d = c THEN r ELSE releases[d]
  BY DEF PublishingTypeOK
<1> QED BY <1>1, NoneIsNoRelease DEF Public

(* One more guard for c, or one less. *)
LEMMA SafeWatched ==
    ASSUME PublishingTypeOK, NEW c \in Candidates, NEW n \in Nat, guards' = [guards EXCEPT ![c] = n]
    PROVE  {d \in Candidates : guards'[d] > 0} =
             IF n > 0 THEN {d \in Candidates : guards[d] > 0} \cup {c}
                      ELSE {d \in Candidates : guards[d] > 0} \ {c}
<1>1. \A d \in Candidates : guards'[d] = IF d = c THEN n ELSE guards[d]
  BY DEF PublishingTypeOK
<1> QED BY <1>1

LEMMA SafePeople ==
    ASSUME PublishingInv, NEW c \in Candidates,
           \/ \E commit \in TaggedCommits :
                 \/ PushTag(c, commit) \/ MoveTag(c, commit)
                 \/ \E mark \in BOOLEAN : HandRelease(c, commit, mark)
           \/ \E mark \in BOOLEAN : PublishDraft(c, mark) \/ EditMark(c, mark)
           \/ Withdraw(c) \/ RerunGuard(c)
    PROVE  Safe!Next \/ UNCHANGED Safe!vars
<1>1. PublishingTypeOK
  BY DEF PublishingInv
<1>2. ASSUME NEW commit \in TaggedCommits, PushTag(c, commit) \/ MoveTag(c, commit)
      PROVE  UNCHANGED Safe!vars
  BY <1>2, SafeStutter DEF PushTag, MoveTag
<1>3. ASSUME NEW commit \in TaggedCommits, NEW mark \in BOOLEAN, HandRelease(c, commit, mark)
      PROVE  Safe!Show(c)
  <2> DEFINE made == [state |-> "public", author |-> "person", prerelease |-> mark]
  <2>1. /\ made \in Releases /\ releases' = [releases EXCEPT ![c] = made]
        /\ guards[c] + 1 \in Nat /\ guards[c] + 1 > 0
        /\ guards' = [guards EXCEPT ![c] = guards[c] + 1]
        /\ UNCHANGED <<failed, passed>>
    BY <1>1, <1>3, PublishingAssumption DEF Releases, HandRelease, PublishingTypeOK
  <2>2. {d \in Candidates : Public(d)'} = {d \in Candidates : Public(d)} \cup {c}
    BY <1>1, <2>1, SafeShown
  <2>3. {d \in Candidates : guards'[d] > 0} = {d \in Candidates : guards[d] > 0} \cup {c}
    BY <1>1, <2>1, SafeWatched
  <2> QED BY <2>1, <2>2, <2>3 DEF Safe!Show, Checked
<1>4. ASSUME Withdraw(c) PROVE Safe!Hide(c)
  <2>1. releases[c] # None /\ releases' = [releases EXCEPT ![c] = [releases[c] EXCEPT !.state = "draft"]]
    BY <1>1, <1>4 DEF Withdraw, PublishingTypeOK
  <2>2. {d \in Candidates : Public(d)'} = {d \in Candidates : Public(d)} \ {c}
    BY <1>1, <2>1, SafeShown, RestatedRelease
  <2> QED BY <1>4, <2>2 DEF Withdraw, Safe!Hide, Checked
<1>5. ASSUME NEW mark \in BOOLEAN, PublishDraft(c, mark) PROVE Safe!Show(c)
  <2> DEFINE new == [state |-> "public", author |-> releases[c].author, prerelease |-> mark]
  <2>1. /\ releases[c] # None /\ UNCHANGED <<failed, passed>>
        /\ releases' = [releases EXCEPT ![c] = new]
    BY <1>1, <1>5, RemarkingForm DEF PublishDraft
  <2>2. {d \in Candidates : Public(d)'} = {d \in Candidates : Public(d)} \cup {c}
    <3>1. new \in Releases /\ new.state = "public"
      BY <1>1, <2>1, RemarkedRelease
    <3> QED BY <1>1, <2>1, <3>1, SafeShown
  <2>3. CASE releases[c].author = "person"
    <3>1. /\ guards[c] + 1 \in Nat /\ guards[c] + 1 > 0
          /\ guards' = [guards EXCEPT ![c] = guards[c] + 1]
      <4>1. guards' = [guards EXCEPT ![c] = @ + 1]
        BY <1>5, <2>3 DEF PublishDraft
      <4>2. guards[c] \in Nat /\ DOMAIN guards = Candidates
        BY <1>1, PublishingAssumption DEF PublishingTypeOK
      <4> QED BY <4>1, <4>2
    <3>2. {d \in Candidates : guards'[d] > 0} = {d \in Candidates : guards[d] > 0} \cup {c}
      BY <1>1, <3>1, SafeWatched
    <3> QED BY <2>1, <2>2, <3>2 DEF Safe!Show, Checked
  <2>4. CASE releases[c].author # "person"
    <3>1. releases[c].author = "workflow" /\ guards' = guards
      BY <1>5, <2>4 DEF PublishDraft
    <3>2. Checked(c)
      BY <2>1, <3>1 DEF PublishingInv, ReleasesVetted, Vetted
    <3> QED BY <2>1, <2>2, <3>1, <3>2 DEF Safe!Show, Checked
  <2> QED BY <2>3, <2>4
<1>7. ASSUME NEW mark \in BOOLEAN, EditMark(c, mark) PROVE UNCHANGED Safe!vars
  <2>1. releases[c] \in Releases /\ UNCHANGED <<guards, failed, passed>>
    BY <1>1, <1>7 DEF EditMark, PublishingTypeOK
  <2>2. \A d \in Candidates : Public(d)' <=> Public(d)
    <3> DEFINE new == [state |-> releases[c].state, author |-> releases[c].author,
                       prerelease |-> mark]
    <3>1. releases' = [releases EXCEPT ![c] = new] /\ releases[c] # None
      BY <1>1, <1>7, RemarkingForm DEF EditMark
    <3>2. releases[c].state \in {"draft", "public"}
      BY <2>1 DEF Releases
    <3>3. /\ \A d \in Candidates : releases'[d] = IF d = c THEN new ELSE releases[d]
          /\ \A d \in Candidates : releases'[d] # None <=> releases[d] # None
      BY <1>1, <3>1, <3>2, RemarkedRelease
    <3> QED BY <3>1, <3>3 DEF Public
  <2> QED BY <2>1, <2>2 DEF Safe!vars, Checked
<1>6. ASSUME RerunGuard(c) PROVE Safe!Watch(c)
  <2>1. {d \in Candidates : guards'[d] > 0} = {d \in Candidates : guards[d] > 0} \cup {c}
    <3>1. 1 \in Nat /\ 1 > 0 /\ guards' = [guards EXCEPT ![c] = 1]
      BY <1>6 DEF RerunGuard
    <3> QED BY <1>1, <3>1, SafeWatched
  <2> QED BY <1>6, <2>1 DEF RerunGuard, Safe!Watch, Checked, Public
<1> QED BY <1>2, <1>3, <1>4, <1>5, <1>6, <1>7 DEF Safe!Next

(* A guard hides, or fails and says so; it stays watched when another waits. *)
LEMMA SafeGuards ==
    ASSUME PublishingInv, NEW c \in Candidates, Guard(c) \/ GuardFails(c)
    PROVE  Safe!Next
<1> DEFINE watched == {d \in Candidates : guards[d] > 0}
<1>1. /\ PublishingTypeOK /\ releases[c] # None /\ c \in watched
      /\ guards[c] - 1 \in Nat /\ guards' = [guards EXCEPT ![c] = guards[c] - 1]
  BY PublishingAssumption DEF PublishingInv, PublishingTypeOK, CutTagsOnly, Guard, GuardFails
<1>2. {d \in Candidates : guards'[d] > 0} \in {watched, watched \ {c}}
  BY <1>1, SafeWatched
<1>3. ASSUME releases' = [releases EXCEPT ![c].state = "draft"]
      PROVE  {d \in Candidates : Public(d)'} = {d \in Candidates : Public(d)} \ {c}
  <2>1. releases' = [releases EXCEPT ![c] = [releases[c] EXCEPT !.state = "draft"]]
    BY <1>1, <1>3 DEF PublishingTypeOK
  <2> QED BY <1>1, <2>1, SafeShown, RestatedRelease
<1>4. CASE Guard(c)
  <2>1. Safe!Hide(c)
    BY <1>1, <1>2, <1>3, <1>4 DEF Guard, Safe!Hide, Checked
  <2> QED BY <2>1 DEF Safe!Next
<1>5. CASE GuardFails(c)
  <2>1. {d \in Candidates : Public(d)'}
          \in {{d \in Candidates : Public(d)}, {d \in Candidates : Public(d)} \ {c}}
    BY <1>3, <1>5 DEF GuardFails, Public
  <2>2. Safe!Fail(c)
    BY <1>1, <1>2, <1>5, <2>1 DEF GuardFails, Safe!Fail, Checked
  <2> QED BY <2>2 DEF Safe!Next
<1> QED BY <1>4, <1>5

LEMMA SafeRuns ==
    ASSUME PublishingInv, NEW run \in runs,
           Rerun(run) \/ RunChecks(run) \/ CreateRelease(run) \/ CreateFails(run)
    PROVE  Safe!Next \/ UNCHANGED Safe!vars
<1> DEFINE c == run.tag
<1>1. PublishingTypeOK /\ c \in Candidates
  BY DEF PublishingInv, PublishingTypeOK, Runs
<1>2. CASE Rerun(run) \/ CreateFails(run)
  BY <1>2, SafeStutter DEF Rerun, CreateFails
<1>3. CASE RunChecks(run)
  <2>1. CASE passed' = passed \cup {[tag |-> c, commit |-> run.commit]}
    <3>1. {d \in Candidates : Checked(d)'} = {d \in Candidates : Checked(d)} \cup {c}
      <4>1. \A d \in Candidates : Checked(d)' <=> Checked(d) \/ d = c
        <5> TAKE d \in Candidates
        <5>1. CASE d = c
          <6>1. [tag |-> c, commit |-> run.commit] \in passed'
            BY <2>1
          <6> QED BY <5>1, <6>1 DEF Checked
        <5>2. CASE d # c
          BY <2>1, <5>2 DEF Checked
        <5> QED BY <5>1, <5>2
      <4> QED BY <1>1, <4>1
    <3>2. Safe!Clear(c)
      BY <1>3, <3>1 DEF RunChecks, Safe!Clear, Public
    <3> QED BY <1>1, <3>2 DEF Safe!Next
  <2>2. CASE UNCHANGED passed
    BY <1>3, <2>2, SafeStutter DEF RunChecks
  <2> QED BY <1>3, <2>1, <2>2 DEF RunChecks
<1>4. CASE CreateRelease(run)
  <2> DEFINE made == [state |-> "public", prerelease |-> c \notin StableCandidates,
                      author |-> IF releases[c] = None THEN "workflow" ELSE releases[c].author]
  <2>1. made \in Releases /\ releases' = [releases EXCEPT ![c] = made]
    BY <1>1, <1>4 DEF CreateRelease, PublishingTypeOK, Releases
  <2>2. {d \in Candidates : Public(d)'} = {d \in Candidates : Public(d)} \cup {c}
    BY <1>1, <2>1, SafeShown
  <2>3. Checked(c)
    BY <1>4 DEF PublishingInv, ChecksRecorded, CreateRelease, Checked
  <2>4. Safe!Show(c)
    BY <1>1, <1>4, <2>2, <2>3 DEF CreateRelease, Safe!Show, Checked
  <2> QED BY <1>1, <2>4 DEF Safe!Next
<1> QED BY <1>2, <1>3, <1>4

(* ReleasePublishing implements SafePublishing: what the workflows promise
   holds for every number of tags, moves, runs, guards and failures. *)
THEOREM PublishingRefines == PublishingSpec => ImplementsSafePublishing
<1>1. ASSUME PublishingInv, [PublishingNext]_publishingVars PROVE [Safe!Next]_(Safe!vars)
  <2>1. CASE UNCHANGED publishingVars
    BY <2>1, SafeStutter DEF publishingVars
  <2>2. CASE PublishingNext
    BY <1>1, <2>2, SafePeople, SafeGuards, SafeRuns DEF PublishingNext, Cut, Proceed
  <2> QED BY <1>1, <2>1, <2>2
<1>2. PublishingInv /\ [PublishingNext]_publishingVars => [Safe!Next]_(Safe!vars)
  BY <1>1
<1> QED BY <1>2, SafeInit, PublishingInductive, PTL DEF PublishingSpec, Safe!Spec,
                                                        ImplementsSafePublishing

-----------------------------------------------------------------------------
(* Both together. *)

(* Every commit there is was traced when it was made, and stays so. *)
CommitsTraced ==
    /\ committed \subseteq TaggedCommits
    /\ \A t \in committed : Traced(t)

(* Tags, runs and records name commits that were made. *)
CommitsAreMade ==
    /\ \A c \in Candidates : tags[c] \in committed \cup {None}
    /\ \A run \in runs : run.commit \in committed
    /\ \A x \in passed : x.commit \in committed

Inv == SigningInv /\ PublishingInv /\ CommitsTraced /\ CommitsAreMade

(* A step of the pipeline is a step of each half, or leaves that half alone. *)
LEMMA StepsOfBoth ==
    ASSUME committed \subseteq TaggedCommits, [Next]_vars
    PROVE  [SigningNext]_signingVars /\ [PublishingNext]_publishingVars
<1>1. CASE Commit
  BY <1>1 DEF Commit, signingVars, publishingVars
<1>2. CASE Prepare
  BY <1>2 DEF Prepare, publishingVars
<1>3. CASE Publish
  <2>1. Cut(committed) => Cut(TaggedCommits)
    BY DEF Cut
  <2> QED BY <1>3, <2>1 DEF Publish, PublishingNext, signingVars
<1>4. CASE UNCHANGED vars
  BY <1>4 DEF vars
<1> QED BY <1>1, <1>2, <1>3, <1>4 DEF Next

(* What was signed stays signed. *)
LEMMA SignedForGood == SigningNext => ownerSigned \subseteq ownerSigned'
BY DEF SigningNext, EditSurface, WriteManifest, EditManifest, AddLocator, TakePayload, Sign,
       AddForeignLine, TrustKey, DropKey

LEMMA TracedForGood ==
    ASSUME NEW t, Traced(t), ownerSigned \subseteq ownerSigned'
    PROVE  Traced(t)'
BY DEF Traced

(* Publishing makes no commits: a tag or a run gets one that is there. *)
LEMMA PublishKeepsCommits ==
    ASSUME PublishingInv, CommitsAreMade, committed' = committed, Cut(committed) \/ Proceed
    PROVE  CommitsAreMade'
<1>1. /\ tags \in [Candidates -> TaggedCommits \cup {None}]
      /\ runs \subseteq Runs
  BY DEF PublishingInv, PublishingTypeOK
<1>2. ASSUME NEW c \in Candidates, NEW commit \in committed,
             \/ PushTag(c, commit)
             \/ MoveTag(c, commit)
             \/ \E prerelease \in BOOLEAN : HandRelease(c, commit, prerelease)
      PROVE  CommitsAreMade'
  <2>1. /\ tags' \in {tags, [tags EXCEPT ![c] = commit]}
        /\ runs' \in {runs, runs \cup {Queued(c, commit)}}
        /\ passed' = passed
    BY <1>2 DEF PushTag, MoveTag, HandRelease
  <2>2. Queued(c, commit).commit = commit
    BY DEF Queued
  <2> QED BY <1>1, <2>1, <2>2 DEF CommitsAreMade
<1>3. ASSUME NEW c \in Candidates,
             \/ \E mark \in BOOLEAN : PublishDraft(c, mark) \/ EditMark(c, mark)
             \/ Withdraw(c) \/ RerunGuard(c) \/ Guard(c) \/ GuardFails(c)
      PROVE  CommitsAreMade'
  BY <1>3 DEF Withdraw, PublishDraft, EditMark, RerunGuard, Guard, GuardFails, CommitsAreMade
<1>4. ASSUME NEW run \in runs,
             Rerun(run) \/ RunChecks(run) \/ CreateRelease(run) \/ CreateFails(run)
      PROVE  CommitsAreMade'
  <2>1. PICK stage \in Stages : runs' = At(run, stage)
    BY <1>4 DEF Rerun, RunChecks, CreateRelease, CreateFails, Stages
  <2>2. \A r \in runs' : r \in runs \/ r.commit = run.commit
    BY <2>1, AtForm DEF PublishingInv
  <2>3. tags' = tags /\ passed' \in {passed, passed \cup {[tag |-> run.tag, commit |-> run.commit]}}
    BY <1>4 DEF Rerun, RunChecks, CreateRelease, CreateFails
  <2> QED BY <2>2, <2>3 DEF CommitsAreMade
<1> QED BY <1>2, <1>3, <1>4 DEF Cut, Proceed

LEMMA InitInv == Init => Inv
BY SigningInitInv, PublishingInitInv
   DEF Init, SigningInit, PublishingInit, Inv, CommitsTraced, CommitsAreMade

LEMMA NextInv == Inv /\ [Next]_vars => Inv'
<1> SUFFICES ASSUME Inv, [Next]_vars PROVE Inv'
  OBVIOUS
<1>1. SigningInv' /\ PublishingInv'
  BY StepsOfBoth, SigningNextInv, PublishingNextInv DEF Inv, CommitsTraced
<1>2. CASE Commit
  <2>1. CommitsTraced'
    BY <1>2, TreeIsTraced, TracedForGood DEF Inv, CommitsTraced, Commit, signingVars
  <2>2. CommitsAreMade'
    BY <1>2 DEF Inv, CommitsAreMade, Commit, publishingVars
  <2> QED BY <1>1, <2>1, <2>2 DEF Inv
<1>3. CASE Prepare
  <2>1. CommitsTraced'
    BY <1>3, SignedForGood, TracedForGood DEF Inv, CommitsTraced, Prepare
  <2>2. CommitsAreMade'
    BY <1>3 DEF Inv, CommitsAreMade, Prepare, publishingVars
  <2> QED BY <1>1, <2>1, <2>2 DEF Inv
<1>4. CASE Publish
  <2>1. CommitsTraced'
    BY <1>4, TracedForGood DEF Inv, CommitsTraced, Publish, signingVars
  <2>2. CommitsAreMade'
    BY <1>4, PublishKeepsCommits DEF Inv, Publish
  <2> QED BY <1>1, <2>1, <2>2 DEF Inv
<1>5. CASE UNCHANGED vars
  <2>1. CommitsTraced' /\ CommitsAreMade'
    BY <1>5, TracedForGood
       DEF Inv, CommitsTraced, CommitsAreMade, vars, signingVars, publishingVars
  <2> QED BY <1>1, <2>1 DEF Inv
<1> QED BY <1>2, <1>3, <1>4, <1>5 DEF Next

(* The strengthened invariant holds throughout. *)
THEOREM Inductive == Spec => []Inv
BY InitInv, NextInv, PTL DEF Spec

(* The pipeline is both halves: whatever is proved of a tree being prepared, or
   of tags being published without regard to time, holds of a whole release. *)
THEOREM PipelineIsBoth ==
    Spec => SigningSpec /\ PublishingInit /\ [][PublishingNext]_publishingVars
<1>1. Init => SigningInit /\ PublishingInit
  BY DEF Init
<1>2. Inv /\ [Next]_vars => [SigningNext]_signingVars /\ [PublishingNext]_publishingVars
  BY StepsOfBoth DEF Inv, CommitsTraced
<1> QED BY <1>1, <1>2, Inductive, PTL DEF Spec, SigningSpec

(* Any state of the tree that would pass as a stable tag was signed. *)
THEOREM ReleasableWasSigned == Spec => []ReleasableIsOwnerSigned
BY Inductive, ReleasableFromInv, PTL DEF Inv

(* From the owner's key to the reader of a Release.  The Release was checked at
   some commit; the commit was a state of the tree, and what passes there was
   signed by then; what was signed stays signed. *)
THEOREM ShippedIsSigned == Spec => []ShippedWasOwnerSigned
<1>1. ASSUME Inv, NEW c \in StableCandidates, Public(c), Quiet(c)
      PROVE  \E x \in passed :
                /\ x.tag = c
                /\ x.commit = tags[c] \/ (moves[c] > 0 /\ Unproven(c))
                /\ [candidate |-> c, version |-> c, files |-> x.commit.surface] \in ownerSigned
  <2>1. c \in Candidates
    BY ReleaseAssumption
  <2>2. PICK x \in passed :
           /\ x.tag = c
           /\ x.commit = tags[c] \/ (moves[c] > 0 /\ Unproven(c))
    BY <1>1, <2>1, CheckedFromInv DEF Inv, QuietReleaseWasChecked
  <2>3. ReleaseChecksPass(x.commit, c)
    BY <1>1, <2>2 DEF Inv, PublishingInv, ChecksRecorded
  <2>4. Traced(x.commit)
    BY <1>1 DEF Inv, CommitsTraced, CommitsAreMade
  <2> QED BY <2>2, <2>3, <2>4, TracedIsSigned
<1>2. Inv => ShippedWasOwnerSigned
  BY <1>1 DEF ShippedWasOwnerSigned
<1> QED BY <1>2, Inductive, PTL
=============================================================================
