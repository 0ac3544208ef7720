--------------------------- MODULE MCExposureIngest ---------------------------
(***************************************************************************)
(* A consumer between two tenants that share ids, two proposals of one     *)
(* tenant (the second a renewal under a new id), and copies of the first   *)
(* altered in every way the guards are there to notice.                    *)
(***************************************************************************)
EXTENDS ExposureIngest

Hop(tenant, product, at) == [product |-> product, tenant |-> Ref("tenant", tenant), at |-> at]

Base ==
    [producer |-> "deception", tenant_ref |-> Ref("tenant", 1),
     privacy_class |-> "internal", chain |-> <<Hop(1, "deception", 0)>>, carries |-> {},
     proposal_id |-> Ref("proposal", 1), trace_ref |-> Ref("trace", 1),
     environment_ref |-> Ref("environment", 1), decision_ref |-> Ref("decision", 1),
     requested_effect |-> "redirect_to_deception_surface",
     target_scope_ref |-> Ref("scope", 1), not_before |-> 1, expires_at |-> 3,
     rollback |-> [required |-> TRUE, triggers |-> {"on_expiry", "on_failure"},
                   max_seconds |-> 1],
     safety_constraints |-> {"bounded_duration"}]

Renewal == [Base EXCEPT !.proposal_id = Ref("proposal", 2), !.trace_ref = Ref("trace", 2),
                        !.decision_ref = Ref("decision", 2),
                        !.not_before = 3, !.expires_at = 5]

Mild == [Base EXCEPT !.requested_effect = "withdraw_deception_surface",
                     !.rollback = [required |-> FALSE, triggers |-> {}, max_seconds |-> NoBound]]

AlteredCopies ==
    {[Base EXCEPT !.not_before = 2, !.expires_at = 4],
     [Base EXCEPT !.expires_at = 5],
     [Base EXCEPT !.target_scope_ref = Ref("scope", 2)],
     [Base EXCEPT !.rollback = Mild.rollback],
     [Base EXCEPT !.decision_ref = Ref("environment", 1)],
     [Base EXCEPT !.carries = {"locator"}],
     [Base EXCEPT !.privacy_class = "restricted"],
     [Base EXCEPT !.chain = <<Hop(2, "knowledge", 0), Hop(1, "deception", 0)>>],
     [Base EXCEPT !.chain = <<Hop(1, "knowledge", 1), Hop(1, "deception", 0)>>],
     [Base EXCEPT !.tenant_ref = Ref("tenant", 2), !.chain = <<Hop(2, "deception", 0)>>]}

MCProposalInputs == {Base, Renewal, Mild} \cup AlteredCopies

Report(n, tenant, status, start, end, at) ==
    [producer |-> "edge", tenant_ref |-> Ref("tenant", tenant),
     privacy_class |-> "internal", chain |-> <<Hop(tenant, "edge", at)>>, carries |-> {},
     proposal_ref |-> Ref("proposal", n), trace_ref |-> Ref("trace", n),
     decision_ref |-> Ref("decision", n), target_scope_ref |-> Ref("scope", 1),
     status |-> status, source_status_label |-> NoLabel, observed_at |-> at,
     window |-> [start |-> start, end |-> end],
     coverage |-> [coverage_complete |-> FALSE, gaps |-> {"sensor offline"},
                   expected |-> 2, reporting |-> 1],
     states_failure_reason |-> status = "failed", evidence_refs |-> {},
     states_limitation |-> FALSE,
     extensions |-> <<[namespace |-> "vendor.switch", body |-> "b", body_digest |-> "b"]>>]

Faulty(o) ==
    {[o EXCEPT !.status = "observed"],
     [o EXCEPT !.extensions[1].body = "mutated"],
     [o EXCEPT !.coverage = [coverage_complete |-> TRUE, gaps |-> {},
                             expected |-> 2, reporting |-> 1]]}

(* "enforced" is a vendor's word, outside the vocabulary. *)
MCReportInputs ==
    {Report(n, tenant, status, w[1], w[2], w[3]) :
        n \in {1, 2}, tenant \in {1, 2},
        status \in {"applied", "released", "enforced", "failed"},
        w \in {<<0, 1, 1>>, <<1, 2, 2>>, <<0, 3, 3>>, <<3, 4, 4>>, <<3, 5, 5>>}}
    \cup Faulty(Report(1, 1, "applied", 1, 2, 2))

MCAdmittedPrivacy == {"public", "internal"}
=============================================================================
