# TLA+ models of Azazel-Fabric

Azazel-Fabric is the contract library shared by the Azazel products (Edge, Gateway/Nexus,
Deception, Knowledge, M.I.O.).  It has no server, no thread and no store: it is a set of frozen
pydantic records, the validators that decide which mappings become records, and pure guards
with which a *consumer* relates one record to another.  Around it stand two tools and two GitHub
workflows that decide which version of the library may be published as a Release.

Its hard behaviour is therefore of two kinds:

* **Sequences of records.**  Producers are remote, several, and not trusted to be careful.
  Their records arrive late, twice, altered, out of order, or from the wrong tenant.  Each
  validator sees one record and each guard two; what matters is what a consumer ends up holding
  after an arbitrary sequence.
* **The release.**  A tree changes while it is being signed; tags, workflow runs, hand-made
  Releases and the guard job race each other.

Paths below are relative to the package `src/azazel_fabric/` unless they start with `tools/`,
`.github/` or `docs/`.

## Inventory

| Component | State | Operations | Correct when | Modelled by |
|---|---|---|---|---|
| External security: exposure proposals and device reports (`external_security_contracts`) | the consumer's ledgers of proposals and reports; its clock | construct a proposal or a report (a before-validator rewrites unknown statuses); `assert_privacy_admitted`, `assert_not_expired`, `assert_no_replay_extension`, `assert_device_observation_within_proposal` | one content per proposal id; reports under one id span no more than one window; no evidence crosses tenants; every exposure has a known end | `ExternalRecords`, `ExposureIngest`, abstract `BoundedExposure` |
| External security: facts, advice, privacy (same package) | envelopes held | construct, wording rules | advice never reads as fact | single-record rules |
| Release: manifest and signature (`tools/rc_digest.py`, `tools/rc_signature.py`, `provisioning_contracts/integrity.py`) | the working tree: surface, manifests, signature files, trusted keys | build and check a manifest, take the signable bytes, verify, rotate keys | a stable tag that passes ships what an owner signed under that name | `ReleaseManifest`, `ReleaseSigning`, `ReleasePipeline` |
| Release: workflow and guard (`.github/workflows/release.yml`, `release-guard.yml`) | tags, queued runs, GitHub Releases, waiting guard jobs | push or move a tag, check, create the Release, publish by hand, withdraw, edit its mark, re-run, guard; any job may fail half way | no Release stays public unchecked or unsigned, and a guard that fails, or a moved tag whose new commit did not pass, leaves a trace; a wrong mark can only be a person's edit | `ReleasePublishing`, `ReleasePipeline`, abstract `SafePublishing` |
| Effect contracts (`effect_contracts`) | chains: an effect with its observations, envelope, terrain | construct the four records; `assert_effect_chain_consistent`, `assert_observation_within_effect_window` | what names its incident stays in it; a terrain has one origin; advice never shares a decided terrain; nothing runs past its expiry | `EffectRecords`, `EffectChain` |
| Provisioning: inventory, assignment, commissioning (`provisioning_contracts`) | inventories, confirmed assignments, profile, record | collect, confirm, profile, commission, `resolve_interface_assignment` | a role stays on the interface the operator confirmed or is nowhere | `InterfaceIdentity`, `Commissioning` |
| Provisioning: generations, receipts, artifact manifests, projections | a node's generations and receipts | construct descriptor and receipt, project the security state | a receipt belongs to its descriptor; projections add no claim | single-record rules |
| Deception: packages, transition catalogs, environment decisions (`deception_contracts`, `deception_integrity.py`) | packages and catalogs a host holds (mutable), its environment | construct, take and check digests, `select_transition`, `is_within`, decide | an environment moves only as decided, inside the package that was named, along transitions the digest fixes | `DeceptionRecords`, `DecoyEnvironment` |
| Deception: decision signing (`decision_signing.py`) | the shared key | convert the key, sign and verify canonical bytes | a changed, re-keyed or degenerate signature does not verify | `DeceptionRecords`, `DecoyEnvironment` |
| Payload walks (`*/validation.py` of seven families, `knowledge_context.py`) | - | refuse or find banned names, secrets and excess anywhere in a payload | nothing is hidden by nesting, company or spelling; what is clean passes up to the bound | `PayloadWalks` |
| Deception: interaction observations, advisories (`observation.py`) | - | construct | an interaction carries no reaction | single-record rules |
| Knowledge context (`knowledge_context.py`) | open requests, answers | construct, canonicalise, `assert_response_correlates` | an answer speaks only of what was asked, when it was asked, and cites its own facts; nothing invalid is signed | `KnowledgeContext`, `KnowledgeExchange`, abstract `AskedOnly` |
| Outcome contracts (`outcome_contracts`) | chains: an execution with its mechanism, outcomes, assessment | construct the four records; `assert_evidence_chain_consistent` | evidence belongs to one execution; an assessment keeps what it rests on | `EvidenceRecords`, `EvidenceChain` |
| M.I.O. contracts (`mio_contracts`) | what the remote model was sent; the answers held; the merges shown | construct frames, results and merges; `assert_frame_sanitized_for_egress`, `assert_advisory_inert`, `assert_claim_provenance_preserved` | a contradiction keeps both its sides, with their authors (what may leave the node is one guard's verdict) | `CognitionRecords`, `Cognition` |
| Engagement contracts | - | construct | an observation carries no directive | single-record rules |
| CTI contracts | - | construct advisories and reactions | vocabulary rules | single-record rules |
| Shared schema, API roles, status view, paths | - | coerce, compare, merge, plan | unknown input never escalates; a plan is not applied | pure functions on small enumerations |
| Notify, audit, testing, version, CI | - | format, fixtures, constants | - | not modelled: formatting, fixtures and a test job without state |

**How components interact.**  They do not call each other: the products put records on a wire
and the consumer brings two of them to a guard.  What is shared is vocabulary (an id inherited
from `outcome_contracts` may be untyped in `effect_contracts`; `deception_contracts.validation`
is called by every constructor of `effect_contracts`; `digest_payload` is used by provisioning
records and by the release tools).  The release components do interact: `rc_digest.py` writes
what `rc_signature.py` covers, `release.yml` runs both on the commit it checked out, and
`release-guard.yml` undoes what people do behind `release.yml`'s back.

**Which behaviours are hard.**  Replays and altered copies, arrival order, id collisions between
incidents and tenants, clocks that one guard reads and another does not, hardware that changes
between an observation and its use, jobs that start late, and tags that move.  `PROJECT.json`
lists each at its line, with the properties that would catch it.

## Plan

Done in this order, the exposure guards first because they bound what is reachable from outside:

1. `ExternalRecords` - `BoundedExposure` - `ExposureIngest` - `ExposureIngestProofs`
2. `ReleaseManifest` - `ReleaseSigning`, `ReleasePublishing` - `ReleasePipeline`, which composes them -
   `ReleasePipelineProofs`
3. `EffectRecords` - `EffectChain` - `EffectChainProofs`
4. `InterfaceIdentity` - `Commissioning` - `CommissioningProofs`
5. `KnowledgeContext` - `AskedOnly` - `KnowledgeExchange` - `KnowledgeExchangeProofs`
6. `DeceptionRecords` - `DecoyEnvironment` - `DecoyEnvironmentProofs`
7. `PayloadWalks`, the algorithms every constructor calls, against a reference - `EgressProofs`
8. `EvidenceRecords` - `EvidenceChain` - `EvidenceChainProofs`, the producers of the ids `EffectChain`
   refers to
9. `CognitionRecords` - `Cognition` - `EgressProofs`
10. `SafePublishing`, the abstraction of `ReleasePublishing`, with jobs that fail and are run again

Looked at and not continued: the generations of a node and the external facts and advice.  Their
validators constrain one record each, and no function of the library compares a receipt with its
descriptor or an advisory with the facts it cites, so that a model of several of them would have
to invent the rules it checks.

No module uses a RECURSIVE operator: the one recursive algorithm, `Walk`, is a recursive function,
so that it can be proved about.  Bounds are CONSTANTS with named assumptions, and proofs are in
modules of their own: one per component, except that the two halves of a release and their
composition share `ReleasePipelineProofs`, and the two models of what may leave a node, the walks
and the M.I.O. guards, share `EgressProofs`.

## The modules

### Exposure: `ExternalRecords`, `ExposureIngest`, `BoundedExposure`

`ExternalRecords` is one operator per validator and guard: `ProposalOK` is
`ExposureChangeProposal`, `CoerceStatus` the before-validator that turns a status outside the
vocabulary into `unknown`, `DeviceObservationWithinProposal` the guard that binds a report to a
proposal.  Instants are naturals; provenance is the chain of [tenant, system] it names; what the
payload walks would find is a field.  `ExposureIngest` is a consumer: `AdmitProposal` passes a
mapping through construction, privacy, expiry and the replay check against every copy held, and
`AdmitReport` binds a report to a proposal held.  The consumer and its clock are not in the
repository; they are the environment the guards are written for, and add nothing to a guard.
`BoundedExposure` knows no records: an id is opened once with a window no longer than the bound,
and covered only inside it.  `ImplementsBoundedExposure` maps a held proposal to its window and
the in-place reports to the instants they cover.

### Release: `ReleaseManifest`, `ReleaseSigning`, `ReleasePublishing`, `ReleasePipeline`, `SafePublishing`

`ReleaseManifest` holds the files and the tools' verdicts.  A digest is represented by the
payload it is taken of and a signature by the key and the payload, so neither can be forged or
collide.  `ReleaseSigning` lets the tree change under the owner's hands: `Sign` signs whatever was
last taken, for any candidate; strangers add lines; keys are replaced and dropped.
`ReleasePublishing` takes finished commits and lets tags, runs, people and guard jobs race.  The
commit a tag names is judged by the same `ReleaseChecksPass` the signing model ends with.
`ReleasePipeline` puts the two together: `Commit` makes a commit of the tree as it stands, `Prepare`
is a step of the signing model, `Publish` one of the publishing model whose tags name commits that
were made.  The halves share the commits and nothing else, because no workflow reads the working
tree and nothing a workflow does changes it.  GitHub is external: a Release keeps its first author, an
event caused by the workflow's own token starts no workflow, publishing for a tag that has a Release
updates it.  A person may set the prerelease mark whenever they like: with a new Release (`HandRelease`), when
publishing a draft (`PublishDraft`), or by editing what is there (`EditMark`).  The guard starts on
"published" only, and not for Releases the bot authored; `remarked` remembers the marks that were
set where it does not look, until `CreateRelease` sets the mark again.
Any step may fail: `CreateFails` ends a checked run without a Release; `GuardFails` ends a guard
before its PATCH or after it, when the issue cannot be opened, and `failed` remembers it, as the
red job does.  `RerunGuard` is a person who runs the job again with its old event.
`SafePublishing` knows none of this: a tag is shown only when it is cleared or watched, and a watch
over one that is shown ends by hiding it or with an alarm.

### Effects: `EffectRecords`, `EffectChain`

`EffectRecords` translates the four constructors and three guards.  A ref is [kind, id], untyped
where an inherited id does not announce itself.  `EffectChain` keeps one chain per effect;
`AddObservation`, `SetEnvelope` and `SetTerrain` judge the addition together with the whole
chain, which is how `assert_effect_chain_consistent` is to be called.  Envelope and terrain may be
replaced, observations accumulate.  No guard reads a clock, so the model has none: when a record
arrives makes no difference to what is done with it.

### Outcomes: `EvidenceRecords`, `EvidenceChain`

`EvidenceRecords` translates the four constructors and `assert_evidence_chain_consistent`: three
ids bind a record to its execution, the producers are not compared, and mechanisms are compared
once the chain has one.  `EvidenceChain` keeps one chain per execution mapping.  `AddOutcome`,
`SetMechanism` and `SetAssessment` judge the addition together with the whole chain, in whatever
order things arrive; a mechanism or an assessment may be replaced, outcomes accumulate.  The
consumer is external, as in `EffectChain`.

### Commissioning: `InterfaceIdentity`, `Commissioning`

An interface's identity maps the nine composite fields to what was read; its kernel name and key
are outside it.  A selector maps the same fields to what it pins.  An inventory carries a number
for its id and time of collection, so it is its own digest.  `Collect` reads any hardware,
`Confirm` is an operator's act on an interface of some inventory with any choice of pinned
fields, `Profile` and `Commission` bind confirmations to an inventory.  `confirmed`, the
interface the operator was looking at, is a history field used by the properties only.

### Knowledge: `KnowledgeContext`, `KnowledgeExchange`, `AskedOnly`

`KnowledgeContext` translates the two constructors, `canonical_knowledge_context_bytes` and
`assert_response_correlates`.  `exact` stands for the class checks, `carries` for what the walks
and patterns would refuse; canonical bytes are represented by the object they are taken of, in the
order of its lists, because sorting keys and writing UTC loses nothing.  `KnowledgeExchange` is a
consumer adapter: requests are open until given up, responses arrive whenever they like, and
`CopyRequest` and `CopyResponse` are pydantic's `model_copy(update=...)`, by which invalid objects
and other requests under the same ids come to be; subclasses are constructed like their parents.
`Accept` and `Sign` are the two guards.  `AskedOnly` knows questions and answers: an answer is
told only for one open question, and only within it.

### Deception: `DeceptionRecords`, `DecoyEnvironment`

`DeceptionRecords` translates budgets, packages, catalogs, their digests, `select_transition` and
the signing of decisions.  A digest is represented by the payload it is taken of, a signature by
the converted key and the canonical bytes.  Pydantic does not freeze packages and catalogs, so
`DecoyEnvironment` has `AssignPackage` and `AssignCatalog` besides the actions that hold a
constructed one.  `signatures` only grows and any decision may be delivered under any of them:
that is a transport which loses, repeats and mixes up.  `Degenerate` is the signature of a sender
that lets `bytes(n)` make a key of a number, which is what `AsKey` exists to refuse.  The host is
external.  It verifies before it acts and checks the package's digest before it activates.  Checking
a catalog and selecting from it are two calls, and so two actions: `CheckCatalog` is
`assert_catalog_content_digest`, and `vouched` remembers the catalog as it was then; `Transit`
selects from the catalog as it is by now, checked or not, because `select_transition` looks at no
digest.  Between the two `AssignCatalog` may change it.  Windows against a clock, environment
status, and which catalog belongs to which package are left to the host.

### Cognition: `CognitionRecords`, `Cognition`

`CognitionRecords` translates frames, redactions, claims, results and merges with their three
guards.  `Get` is the `_get` by which a guard reads a model or a mapping alike, an absent field
being None, because that is how unvalidated things get past a check.  `Cognition` is a node:
`Send` hands anything to the egress guard, constructed or not, and what gets past it is in `sent`
(no property is stated of it: it would repeat the guard's conjuncts); `Receive` takes a result of either
model, in any order; `Merge` combines some of the results, keeps some of their claims, possibly
restated (`Restatements`) without the model or without its generation, and records a contradiction
between two of them.  A merger that rewords a statement, gives another source or names another model
is not modelled: no function compares a merge with the results it names, and the constructor
(`mio_contracts/models.py:285`) looks at the merge alone.  That a claim which is kept keeps its words
and its source is therefore an assumption about the merger, and not a result.

### Walks: `PayloadWalks`

Seven families walk payloads with walks of their own; a guard here is a record of what
distinguishes them: bound, first depth, names and their normalisation, widths, and what else is
refused.  A payload is a function from cells to nodes whose entries lead to cells below, with the
root on top; plain numbers under harmless keys are counted in a node's width and otherwise left out.
`Walk` is the recursion the families share, as a recursive function of a cell and a depth; `Finds`
is the public predicates, `KeysOnly` the skeleton that knowledge contexts hand to the M.I.O. walk.
A name stands for every name of a table that the guards treat alike, in the four spellings the
normalisations tell apart; the bounds are the code's own.  The machine is a series of relays: `Envelop`
puts the payload under a key, `Nest` into harmless containers, `Annotate` adds a key beside it and
`Fill` adds harmless company.  `made` records what was put in, and `Due` judges by that record alone,
which is the reference the recursion is compared with.

## What the runs show

Definitions marked *faulty* are single plausible bugs in a mapped definition.  No specification
uses them; each shows that a property can be broken by the code it is about.

| Run | Question | Result |
|---|---|---|
| `exposure` | replayed, altered, early, late and cross-tenant proposals and reports | all properties hold, and the ledgers implement `BoundedExposure` |
| `pipeline` | two candidates, two surfaces, an owner and a stranger, every order of edit, take, sign, commit, tag, release by hand, publish and guard | a tree that would pass as a stable tag, and a stable Release that is public, ship what the owner signed under that name |
| `publishing` | tags pushed and moved twice, hand-made and edited Releases, withdrawals, re-runs, late, failing and repeated guards | once no guard is waiting and none failed, a public Release passed the checks of its tag, at the commit the tag names unless a run of that commit waits or failed; a mark that is wrong was edited where no guard looks; an unchecked Release is withdrawn or its guard fails visibly; the workflows implement `SafePublishing` |
| `effect_chain` | two incidents that mint the same ids; decided, shadow and advisory effects | no record that names its trace is in two incidents, a terrain has one decision id or one effect behind it, advice shares no decided terrain, and every order of arrival would have done |
| `evidence` | three executions under one trace, two of one decision, whose producers number alike; every order, with replacements | no record is evidence of two executions; an assessment keeps the outcomes it cites and the mechanism it names, and every order that has it follow them would have done |
| `commissioning` | a card renamed, flashed, replaced, moved, cloned, impersonated, listed twice | a role stays where the operator put it or is nowhere |
| `knowledge` | requests asked again wider, narrower or later under the same ids, altered answers, unvalidated copies | an accepted answer fits one open question, and the exchange implements `AskedOnly`; nothing invalid is signed |
| `decoys` | decisions replayed, mixed up, for another host or under an unusable key; packages and catalogs assigned to in place | an environment moves only as decided, within its package, and a step in a catalog that is still as it was checked is fixed by the digest |
| `cognition` | two models that contradict each other under their own or one id; a merger that drops, repeats or restates claims | a reported contradiction keeps both its sides, with their authors |
| `walks` | names of every table in every spelling, nested, enveloped, annotated and filled up to and past every bound | sixteen guards refuse exactly what they must, the predicates agree, nothing is laundered |
| `guard_after_checks` | does a tag that passes its checks end public, as `docs/release-signing.md:177` says? | no: a guard that starts after publication returns the checked Release to draft |
| `changed_identity` | does a changed NIC identity invalidate an assignment (`docs/provisioning-contracts.md:136`)? | no: fields the selector leaves out, and the digest, are not compared |

### Divergences noted without a run

Met while modelling; each is a comparison the code does not make, seen by reading it.

* `rc_signature.py --check` reads the manifest and its `.sig` only, so it still verifies after a byte
  of `src/` has changed, where `docs/release-signing.md:243` has the edit invalidate "both the digest
  and the signature".  `rc_digest.py --check` notices, and release.yml runs both.
* A report that an effect is running, written before the expiry, is accepted whenever it arrives
  (`effect_contracts/validation.py:349`).
* `assert_effect_chain_consistent` says "Every record in a chain must name the same trace and the same
  effect" and calls itself the guard against a cross-trace collision of identifiers
  (`effect_contracts/validation.py:242`).  A terrain need not name a trace, and one that does not is
  bound by its decision id alone: where the decision ids of two incidents collide it is accepted in
  the chains of both.  The inputs of `effect_chain` contain the case; `TracedRecordsStayApart` says
  that nothing else crosses over, and `TerrainHasOneOrigin` can speak of equal decision ids only.
* `DefensiveEffectRef.decision_ref` is "Present only when `authority_class` is `producer_decision_ref`"
  (`effect_contracts/models.py:200`), but the validator refuses it for advice only: a
  `planned_shadow` or `stale_or_unknown` effect with a `decision_ref` constructs and takes a terrain
  under it, and likewise with the `advisory_ref` of models.py:202.  `AdviceActivatesNothing` is
  therefore about advice, and not about shadow effects.
* release.yml holds that a candidate "must not appear in the place a consumer looks for the latest stable
  release" (`release.yml:9`).  Nothing sees to it after publication: a person who edits the mark, or
  publishes again a draft the bot authored with another mark, starts no guard (`release-guard.yml:18-26`).
  `WrongMarkIsAnEdit` says that these are the only two ways.
* A Release stays public when its tag is moved: until the run of the new commit ends, and for good
  if that fails, the Release's tag names a commit that did not pass.  `QuietReleaseWasChecked` and
  `ShippedWasOwnerSigned` say that such a run is there to be seen.
* `TransitionCatalog` calls itself "A frozen, signed set of transitions"
  (`deception_contracts/transitions.py:75`) and is not frozen; `select_transition` looks at no digest, so
  that a step selected after an assignment follows the changed list under the old digest.  With
  `intact` taken to mean only that a catalog was once checked, TLC finds `DigestFixesTheStep` violated.
* Until a chain has a mechanism, its assessment and its outcomes may name different ones
  (`outcome_contracts/validation.py:144`), and then no mechanism can be added any more.
* Two outcomes of one execution may carry one `observation_id`; a citation of it is ambiguous.
* `assert_frame_sanitized_for_egress` accepts a local `SituationFrame` that is classified internal, and
  a mapping without a class, while `mio_contracts/models.py:102` says of a `SituationFrame` that it "Never
  leaves the node as-is" and `mio_contracts/models.py:131` calls `SanitizedRemoteFrame` "the only
  shape that may be sent to a remote model".
* The same guard compares a frame's class with two of the library's four, so that a mapping whose class
  is none of them passes (`mio_contracts/validation.py:209`).
* `assert_claim_provenance_preserved` says a model claim keeps "that model's reference and generation"
  (`mio_contracts/validation.py:224`), but only the reference is required; and a claim whose source is
  not a model can lose a `model_ref` unnoticed.
* When two models use one `claim_id` for contradicting claims, a merge can keep one of them and report
  the disagreement as `("c1", "c1")`; `docs/provisioning-contracts.md:173` says a merge cannot drop a claim
  it reports a disagreement about.  `NoContradictionIsDropped` is therefore stated for answers whose
  ids differ.

### Bounds, and why they are enough

* `exposure`: windows of length 2 in a clock of 5, so that two disjoint windows, both ends of each
  and instants outside both occur; two reports at once, since every property relates two.
  Deadlock is not checked: the consumer stops when the clock does.
* `pipeline`: two candidates (a payload taken for one can be signed for the other), two surfaces
  (before and after an edit), two lines, one owner's key and a stranger's (a rotation between two
  owners' keys is covered by the proof only).  Two commits, so that a tag
  can be moved from one to another, of trees that have a stable manifest `rc_digest.py` wrote and
  one line for it, good or bad; one step of preparation after the first commit, which is enough to
  make the second; one tag, one move and one waiting guard, since the property is about one Release,
  and `publishing` has more of each.
* `publishing`: one tag at a time because tags share nothing but the commits; two moves so that a
  run of the first push can outlive a second one; two waiting guards so that a guard can follow a
  guard.  Two candidates, one of them stable, and either mark, so that each can be marked as the other.
  The commits are a signed stable one, the same unsigned, the same edited after
  signature, and an unsigned candidate.
* `effect_chain`: two chains and two observations per chain, since every property relates two
  chains or two parts of one; times 0, 1, 2 around an expiry of 1.
* `evidence`: two chains, since every property relates two or the parts of one, of five execution
  mappings (two of one execution, one refused); two outcomes per chain, so that an assessment can
  cite one of several or both.
* `cognition`: two answers held and two claims in a merge, the least with which a contradiction can be
  reported, kept, halved or repeated.
* `commissioning`: two inventories (before and after a change) and two assignments; five choices of
  pinned fields, of which two are refused; an impostor that copies slot and address but not the
  serial number and `pci_id`, the case in which only a discriminator read on both cards can tell.
* `knowledge`: two requests and two responses held, and two pairs or payloads passed on, since
  every property relates two; instants 1 to 5 around a request at 2, its retry at 4 and an answer
  at 3.  Deadlock is checked: giving up always remains possible, or asking.
* `decoys`: one host with decisions for it and for another; two steps remembered, since the
  property relates two; a package as authored and as assigned to; catalogs with one or two entries
  for a pair, in both orders; budgets with and without a bandwidth.
* `walks`: three changes to a payload (put in, bury, add company), which is for TLC alone, since
  the invariants are proved for any number; depths and widths on both sides
  of every bound: 4, 6, 8, 12, 32 levels, 32 to 512 entries, 1024 to 8192 characters.  Deadlock is
  not checked: the relays stop at the bound.

### Fairness

Only `publishing` states fairness: weak fairness of `Guard(c) \/ GuardFails(c)`, because GitHub
starts every job it has queued, which is not to say that the job succeeds.  Runs of `release.yml`
are given none, people are given none, and `UncheckedIsWithdrawn` needs neither.  The library has
no scheduler, so its other models state safety only.

## What is proved

TLAPS checks the following for all values of the constants, under the named assumptions of each
module (bounds are naturals; instants are naturals; owner keys are keys; absent values are not
records; what may be pinned are composite fields; decisions have the fields of their kind and keys
made of numbers are not secrets).

* **`ExposureIngestProofs`.**  `IInv` adds to `TypeOK` and `OneContentPerProposal` that every
  proposal held constructs and every report held is justified by one held (`LedgersJustified`).
  Without it a span could be bounded only for the report just admitted.  It gives the bounded
  span, tenant separation, the known end, that no expiry moves, and - the span and uniqueness
  together - that the ledgers implement `BoundedExposure`, initial state and every step.
* **`ReleasePipelineProofs`.**  Three invariants.  *Preparing:* `SigningInv` adds to the types that a line
  made by an owner's key carries a payload the owner signed, and that only owners' keys are trusted;
  then a passing stable tag was signed because `DigestMatches` makes the signed payload the surface's
  own.  *Publishing:* `PublishingInv` adds to the types that every run past its checks is recorded in
  `passed`, that runs of an unmoved tag agree with it, that the commit a tag names has passed or has a
  run that waits or failed (`NamedCommitsHaveRuns`), that a Release has a tag which was cut, and that
  a Release which is public with no guard on its way, or which the workflow authored, was checked and,
  if it is not in `remarked`, is classified.  From these follow the `Quiet...` invariants and
  `WrongMarkIsAnEdit`.  `PublishingRefines` maps every
  action to a step of `SafePublishing` or a stutter; what makes it work is again that a run past its
  checks is recorded in `passed`, so that a Release it creates is cleared.  *Both:* a step of the
  pipeline is a step of each half or leaves it alone (`StepsOfBoth`), so that every behaviour of the
  pipeline is one of both specifications (`PipelineIsBoth`) and what is proved of either holds of it.
  The halves meet in the commits: what was traced to an owner's signature in the tree is traced in every
  commit made of it, however the tree goes on (`CommitsTraced`), since signatures are not taken back;
  and tags, runs and `passed` only speak of commits that were made (`CommitsAreMade`).  So a
  Release that was checked was checked at a commit whose surface an owner signed (`ShippedIsSigned`).
* **`EffectChainProofs`.**  `IInv` says that every chain would still pass, as a whole, every guard
  its parts passed when they were added.  It is needed because a later part is judged with the
  parts of the moment, some of which are replaced afterwards.  It also gives that envelope and
  terrain of a chain agree (`EnvelopeAgrees`), whichever came first, which no run checks, and, since
  the guard compares what is supplied and waits for nothing, that a chain could have been collected in
  any order (`AnyOrderWillDo`).
* **`EvidenceChainProofs`.**  The same argument for outcome chains: `EvidenceChainConsistent` of the
  whole chain is inductive, because every addition is judged with all that is there.  Separation
  follows from the ids a chain shares with its execution, and the grounds of an assessment from
  outcomes never leaving a chain.  `AnyOrderWillDo` is weaker here, since an assessment has to follow
  what it cites, and it speaks of records that did fit together: which of two that exclude each other
  is refused does depend on the order.
* **`CommissioningProofs`.**  `IInv` adds where each selector comes from and that a record's and
  a profile's confirmations are of one inventory.  A selector then matches its own interface
  wherever that is present, and the single match must be it.
* **`KnowledgeExchangeProofs`.**  `Inv` adds to `TypeOK` the checks themselves: every accepted pair
  correlates, and what was signed is exact and valid.  It is inductive because a copy is another
  object.  From it follow the properties of accepted answers and that every step of the exchange is
  a step of `AskedOnly` or a stutter.
* **`DecoyEnvironmentProofs`.**  `Inv` adds to `TypeOK` that a catalog remembered as checked matched its
  digest (`VouchedMatches`), that a step taken in the catalog as it was checked is what
  `SelectTransition` gives in the payload its digest stands for (`StepsFollowDigest`), and that a
  signed activation names the digest of a package that constructs (`SignedNamesAPackage`).  Then
  two such steps of one digest select in one payload, and the limits of what runs are those of
  the package named.  `VerifiedWasSigned` carries the movement property: verification needs a key
  that was a secret, so the signature is one that was sent, for these very bytes.

* **`EgressProofs`, payloads.**  For every set of keys, leaves, depths and widths and any number of
  relays.  TLAPS does not unfold a recursive function by itself: that some function satisfies the
  equation `Walk` is written as (`WalkExists`), and that it therefore does (`WalkUnfolds`), is proved by
  taking the least cell up to which none does, and so is what n containers around a payload do to a
  walk.  `RelayInv` says of every guard, *from every depth*, that its walk refuses the payload
  exactly when `DueFrom` that depth says so: what a walk meets under an envelope is the old payload one
  level deeper, so that the invariant for the first depth alone is not inductive.  It says the same of
  the payload as `KeysOnly` shows it, because wrapping and adding keys commute with that view.  Each
  action has a lemma that tells what one more envelope, entry, container or width adds to what is due.
  `RefusedExactlyWhenDue`, `PredicatesAgree` and `CanonicalIsRefusedEverywhere` follow from the tables
  alone, and `NestingNeverLaunders` from a history that only grows.  What is proved of the guards is
  that they have limits and ban no harmless key (`GuardOK`); only `CanonicalIsRefusedEverywhere` compares
  their bounds.
* **`EgressProofs`, frames and merges.**  `Inv` keeps the verdicts on what is held and
  shown, and where the parts of a merge come from: its claims are retold from answers it names and
  the two sides of a contradiction are claims of those answers.  That each reference of a disagreement
  leads to one claim of the merge, and that a model's claim keeps its `model_ref`, is what the merge's
  constructor checked; that it is the *right* claim needs the answers' ids to differ.

Only model-checked: `UncheckedIsWithdrawn`, which is liveness, and that the runs' instances satisfy the
assumptions.  Every other property of a passing run is a theorem.  Proved and in no run:
`QuietStableIsSigned`, `ExpiryNeverMoves`, `LocatorKeepsSignature`, `StrangersDoNotCount`,
`PresentationAgrees`, and the type invariants of signing, of the knowledge exchange and of both chains.

## What is left out, and why

* **Text.**  In the models of records, what the walks and patterns would find is a field
  (`carries`), refs are typed, and payloads are equal or not.  The walks themselves are in
  `PayloadWalks`, on names rather than characters; the patterns of single strings (ref grammar,
  imperative words, long tokens, locators inside free text), the canonical-size limits and
  canonical JSON are not modelled.
* **Descriptive fields** that no guard reads: digests of configuration, versions, labels,
  limitations, thermal and power budgets, storage devices.
* **Cryptography and GitHub's API.**  Signatures cannot be forged and digests do not collide; a call
  to GitHub has its effect or fails, and is not half done.
* **Records no function compares.**  Generations, receipts and projections, external facts and advice,
  interaction observations, engagement and CTI records: each constructor constrains one record, and
  what relates several is left to the products.
* **In the M.I.O. models**, trace ids, alias scopes and their expiry, budgets and `cognition_state`,
  which no guard reads.
* **Consumers' own policies.**  Which envelope replaces which, whether a proposal is carried out,
  what is shown to a person: the models let the consumer do whatever the guards allow.
