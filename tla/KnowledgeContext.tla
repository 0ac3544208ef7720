---------------------------- MODULE KnowledgeContext ----------------------------
(***************************************************************************)
(* azazel_fabric.knowledge_context: what a mapping must look like to       *)
(* construct a request or a response, when the two belong together, and    *)
(* which objects have canonical bytes.  An instant is a natural number in  *)
(* UTC; what the identifier patterns, the list bounds, the repeated refs   *)
(* and the directive walk would refuse is the field "carries"; "exact"     *)
(* says that an object is of the model's own class and not a subclass.     *)
(***************************************************************************)
EXTENDS Integers, FiniteSets, Functions

CONSTANT None   \* what has no canonical bytes

Correlators == {"request_id", "correlation_id", "source_product", "source_ref"}

Key(r) == [f \in Correlators |-> r[f]]

Entities(r) == Range(r.entities)

Claims(a) == Range(a.facts) \cup Range(a.inferences)

Subjects(a) == {c.subject : c \in Claims(a)}

FactIds(a) == {f.fact_id : f \in Range(a.facts)}

InferenceIds(a) == {i.inference_id : i \in Range(a.inferences)}

RequestOK(r) ==
    /\ r.carries = {}
    /\ r.entities # <<>>
    /\ IsInjective(r.entities)

Identified(a) ==
    /\ \A i, j \in DOMAIN a.facts : a.facts[i].fact_id = a.facts[j].fact_id => i = j
    /\ \A i, j \in DOMAIN a.inferences :
          a.inferences[i].inference_id = a.inferences[j].inference_id => i = j
    /\ FactIds(a) \cap InferenceIds(a) = {}

LooseResponseOK(a) ==   \* faulty: an inference may cite what is not there
    /\ a.carries = {}
    /\ Identified(a)
    /\ a.as_of <= a.generated_at
    /\ a.generated_at < a.expires_at

ResponseOK(a) ==
    /\ a.carries = {}
    /\ Identified(a)
    /\ \A i \in Range(a.inferences) :
          i.basis_fact_ids # {} /\ i.basis_fact_ids \subseteq FactIds(a)
    /\ a.as_of <= a.generated_at
    /\ a.generated_at < a.expires_at

Valid(p) == IF p.schema = "request" THEN RequestOK(p) ELSE ResponseOK(p)

BytesOfAnything(p) == IF p.exact THEN p ELSE None   \* faulty: not validated again

(* Sorted, compact and in UTC, the bytes say no less than the object. *)
CanonicalBytes(p) == IF p.exact /\ Valid(p) THEN p ELSE None

CorrelatesById(r, a) ==   \* faulty: the request id is enough
    /\ r.exact /\ a.exact
    /\ RequestOK(r) /\ ResponseOK(a)
    /\ r.request_id = a.request_id
    /\ r.requested_at <= a.generated_at
    /\ Subjects(a) \subseteq Entities(r)

CorrelatesOnFacts(r, a) ==   \* faulty: inferences are not looked at
    /\ r.exact /\ a.exact
    /\ RequestOK(r) /\ ResponseOK(a)
    /\ Key(r) = Key(a)
    /\ r.requested_at <= a.generated_at
    /\ {f.subject : f \in Range(a.facts)} \subseteq Entities(r)

CorrelatesAsHeld(r, a) ==   \* faulty: copies are not validated again
    /\ r.exact /\ a.exact
    /\ Key(r) = Key(a)
    /\ r.requested_at <= a.generated_at
    /\ Subjects(a) \subseteq Entities(r)

ResponseCorrelates(r, a) ==
    /\ r.exact /\ a.exact
    /\ RequestOK(r) /\ ResponseOK(a)
    /\ Key(r) = Key(a)
    /\ r.requested_at <= a.generated_at
    /\ Subjects(a) \subseteq Entities(r)
=============================================================================
