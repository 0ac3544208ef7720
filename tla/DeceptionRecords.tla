---------------------------- MODULE DeceptionRecords ----------------------------
(***************************************************************************)
(* azazel_fabric.deception_contracts and deception_integrity: packages,    *)
(* catalogs of transitions, their digests, and the transport signature of  *)
(* an Edge decision.  A digest is represented by the payload it is taken   *)
(* of, a signature by the key bytes and the canonical bytes it is computed *)
(* with.  Strings that no check reads, and the image manifests, are left   *)
(* out of a package; what remains of them is bound by the digest like      *)
(* every other field.                                                      *)
(***************************************************************************)
EXTENDS Integers, Sequences, Functions

CONSTANTS Dims,        \* the mandatory dimensions of a ResourceBudget
          Unbounded,   \* bandwidth_kbps = None
          Secrets,     \* keys that are str or bytes-like
          NoKey,       \* what the conversion of any other key gives: TypeError
          Zeros,       \* n zero bytes: bytes(n), which anybody can compute
          Missing      \* a signature that is absent, empty or not a string

-----------------------------------------------------------------------------
(* Budgets and packages. *)

UnboundedFits(b, m, boundedBandwidth) ==   \* faulty: no bandwidth is always enough
    /\ \A d \in Dims : b.limits[d] <= m.limits[d]
    /\ b.bandwidth # Unbounded /\ m.bandwidth # Unbounded => b.bandwidth <= m.bandwidth

IsWithin(b, m, boundedBandwidth) ==
    /\ \A d \in Dims : b.limits[d] <= m.limits[d]
    /\ boundedBandwidth => b.bandwidth # Unbounded
    /\ b.bandwidth # Unbounded /\ m.bandwidth # Unbounded => b.bandwidth <= m.bandwidth

ComponentIds(p) == {c.component_id : c \in Range(p.components)}

Required(p) == {c.component_id : c \in {k \in Range(p.components) : k.required}}

DistinctBy(s, f) == \A i, j \in DOMAIN s : s[i][f] = s[j][f] => i = j

PackageOK(p) ==
    /\ p.maximum_budget.bandwidth # Unbounded
    /\ IsWithin(p.minimum, p.maximum_budget, FALSE)
    /\ DistinctBy(p.components, "component_id") /\ DistinctBy(p.deployment_tiers, "tier_id")
    /\ \A t \in Range(p.deployment_tiers) :
          /\ t.include_components \subseteq ComponentIds(p)
          /\ Required(p) \subseteq t.include_components
          /\ IsWithin(t.minimum, p.maximum_budget, FALSE)
    /\ p.fatal_contradictions = {}

PackagePayload(p) == Restrict(p, DOMAIN p \ {"package_digest", "signature_ref"})

PackageDigestMatches(p) == p.package_digest = PackagePayload(p)

-----------------------------------------------------------------------------
(* Catalogs. *)

TransitionOK(t) == t.from_state # t.to_state

CatalogOK(c) ==
    /\ c.transitions # <<>>
    /\ \A t \in Range(c.transitions) : TransitionOK(t)
    /\ DistinctBy(c.transitions, "transition_id")

UnorderedPayload(c) ==   \* faulty: the digest is taken of the transitions as a set
    [Restrict(c, DOMAIN c \ {"catalog_digest", "signature_ref"})
        EXCEPT !.transitions = Range(c.transitions)]

CatalogPayload(c) == Restrict(c, DOMAIN c \ {"catalog_digest", "signature_ref"})

CatalogDigestMatches(c) == c.catalog_digest = CatalogPayload(c)

Matching(c, current, target) ==
    {i \in DOMAIN c.transitions :
        c.transitions[i].from_state = current /\ c.transitions[i].to_state = target}

(* The first entry of the pair; TransitionNotInCatalog where there is none.
   Ids are distinct, pairs need not be. *)
SelectTransition(c, current, target) ==
    c.transitions[CHOOSE i \in Matching(c, current, target) :
                     \A j \in Matching(c, current, target) : i <= j]

-----------------------------------------------------------------------------
(* Signed decisions: a mapping whose field "decision_signature" is excluded
   from the bytes it is computed over. *)

ConvertedKey(k) == IF k \in Secrets THEN k ELSE Zeros   \* faulty: bytes(n) of a number n

AsKey(k) == IF k \in Secrets THEN k ELSE NoKey

CanonicalBytes(d) == Restrict(d, DOMAIN d \ {"decision_signature"})

ComputeSignature(d, k) == [key |-> AsKey(k), bytes |-> CanonicalBytes(d)]

SignedAs(d, signature) ==
    [f \in DOMAIN d \cup {"decision_signature"} |->
        IF f = "decision_signature" THEN signature ELSE d[f]]

SignDecision(d, k) == SignedAs(d, ComputeSignature(d, k))

UnboundSignatureOK(d, k) ==   \* faulty: any signature by the key will do
    /\ "decision_signature" \in DOMAIN d
    /\ d.decision_signature # Missing
    /\ AsKey(k) # NoKey
    /\ d.decision_signature.key = AsKey(k)

VerifyDecisionSignature(d, k) ==
    /\ "decision_signature" \in DOMAIN d
    /\ d.decision_signature # Missing
    /\ AsKey(k) # NoKey
    /\ d.decision_signature = ComputeSignature(d, k)

DecisionOK(d) ==
    CASE d.kind = "termination" -> d.issued_at < d.expires_at
      [] OTHER                  -> d.effective_at < d.expires_at
=============================================================================
