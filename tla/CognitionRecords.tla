--------------------------- MODULE CognitionRecords ---------------------------
(***************************************************************************)
(* azazel_fabric.mio_contracts: the frames a node keeps and sends, the     *)
(* claims of its local and its remote model, and the merge an operator     *)
(* reads.  "carries" is what the walks would find in a record: a           *)
(* "directive" for all that _walk refuses, "oversized" for content past    *)
(* the canonical size.  "departs" names the pinned fields (authority,      *)
(* executable, rendering, may_request_followup, contains_links) that have  *)
(* another value than the pinned one.                                      *)
(***************************************************************************)
EXTENDS Naturals, Sequences, FiniteSets, Functions

CONSTANT None   \* an optional field that is absent

PrivacyClasses == {"public", "internal", "sensitive", "restricted"}

NonEgressiblePrivacyClasses == {"sensitive", "restricted"}

ClaimSources == {"deterministic_core", "knowledge_advisory", "local_model", "remote_model"}

ModelSources == {"local_model", "remote_model"}

NoMioDirectives(r) == "directive" \notin r.carries

BoundedMioPayload(r) == "oversized" \notin r.carries

(* _get of a record or a mapping: a field that is not there reads as None. *)
Get(r, name) == IF name \in DOMAIN r THEN r[name] ELSE None

Distinct(values) == IsInjective(values)

(***************************************************************************)
(* Frames.                                                                 *)
(***************************************************************************)
SituationFrameOK(f) ==
    /\ f.privacy_class \in PrivacyClasses
    /\ NoMioDirectives(f) /\ BoundedMioPayload(f)

RedactionOK(r) ==
    /\ r.privacy_class \in PrivacyClasses
    /\ r.action = "aliased" <=> r.alias_ref # None

(* An alias stands for one field of the frame, and no field has two records. *)
SanitizedRemoteFrameOK(f) ==
    LET aliased == SelectSeq(f.redactions, LAMBDA r : r.alias_ref # None) IN
    /\ f.privacy_class \in PrivacyClasses \ NonEgressiblePrivacyClasses
    /\ f.contains_raw_evidence = FALSE
    /\ f.ambiguity_resolution = "deny_on_ambiguity"
    /\ NoMioDirectives(f) /\ BoundedMioPayload(f)
    /\ \A i \in DOMAIN f.redactions : RedactionOK(f.redactions[i])
    /\ Distinct([i \in DOMAIN f.redactions |-> f.redactions[i].field_ref])
    /\ Distinct([i \in DOMAIN aliased |-> aliased[i].alias_ref])

(* assert_frame_sanitized_for_egress judges what it is given, constructed or
   not, by the fields it finds. *)
FrameSanitizedForEgress(f) ==
    /\ Get(f, "privacy_class") \notin NonEgressiblePrivacyClasses
    /\ Get(f, "contains_raw_evidence") \in {None, FALSE}
    /\ Get(f, "ambiguity_resolution") \in {None, "deny_on_ambiguity"}
    /\ NoMioDirectives(f)

(***************************************************************************)
(* Claims, results and merges.                                             *)
(***************************************************************************)
NamesItsModel(c) == c.source \in ModelSources => c.model_ref # None

ClaimIds(claims) == {claims[i].claim_id : i \in DOMAIN claims}

ClaimProvenancePreserved(claims) ==
    /\ Distinct([i \in DOMAIN claims |-> claims[i].claim_id])
    /\ \A i \in DOMAIN claims : claims[i].source # None /\ NamesItsModel(claims[i])

ClaimSetOK(claims) ==
    /\ claims # <<>>
    /\ \A i \in DOMAIN claims : claims[i].source \in ClaimSources /\ NamesItsModel(claims[i])
    /\ ClaimProvenancePreserved(claims)

AdvisoryResultOK(r) ==
    /\ r.origin \in {"local", "remote"}
    /\ r.departs = {}
    /\ NoMioDirectives(r)
    /\ ClaimSetOK(r.claims)

(* assert_advisory_inert looks at three of the five pinned fields. *)
AdvisoryInert(r) ==
    /\ r.departs \cap {"authority", "executable", "rendering"} = {}
    /\ NoMioDirectives(r)

DisagreementOK(refs) == Len(refs) >= 2

LenientMergeOK(m) ==   \* faulty: a disagreement need not refer to the merged claims
    /\ m.departs = {}
    /\ NoMioDirectives(m)
    /\ ClaimSetOK(m.claims)
    /\ \A refs \in m.disagreements : DisagreementOK(refs)

MergedAdvisoryOK(m) ==
    /\ m.input_result_refs # {}
    /\ m.departs = {}
    /\ NoMioDirectives(m)
    /\ ClaimSetOK(m.claims)
    /\ \A refs \in m.disagreements :
          DisagreementOK(refs) /\ Range(refs) \subseteq ClaimIds(m.claims)
=============================================================================
