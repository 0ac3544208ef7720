--------------------------- MODULE MCDecoyEnvironment ---------------------------
(***************************************************************************)
(* One host, decisions for it and for another, a package as it was         *)
(* authored and as it may be after an assignment, and catalogs with one    *)
(* way back and one or two ways forth.                                     *)
(***************************************************************************)
EXTENDS DecoyEnvironment

CONSTANTS h1, h2

Budget(memory, duration, bandwidth) ==
    [limits |-> [memory_mb |-> memory, max_duration_seconds |-> duration],
     bandwidth |-> bandwidth]

Component(id, required) == [component_id |-> id, required |-> required]

Tier(id, include) ==
    [tier_id |-> id, minimum |-> Budget(1, 1, Unbounded), include_components |-> include]

Authored ==
    [components |-> <<Component("web", TRUE), Component("db", FALSE)>>,
     deployment_tiers |-> <<Tier("lite", {"web"}), Tier("heavy", {"web", "db"})>>,
     minimum |-> Budget(1, 1, Unbounded), maximum_budget |-> Budget(2, 2, 2),
     fatal_contradictions |-> {}, signature_ref |-> "attestation"]

SealPackage(p, payload) ==
    [f \in DOMAIN p \cup {"package_digest"} |->
        IF f = "package_digest" THEN PackagePayload(payload) ELSE p[f]]

Bare == [Authored EXCEPT !.deployment_tiers = <<Tier("lite", {"db"})>>]

Roomy == [Authored EXCEPT !.maximum_budget = Budget(3, 2, 3)]

MCPackages ==
    {SealPackage(Authored, Authored), SealPackage(Bare, Authored),
     SealPackage(Bare, Bare), SealPackage(Roomy, Roomy)}

Activation(p, budget) ==
    [kind |-> "activation", target_node_id |-> h1, package_digest |-> PackagePayload(p),
     selected_tier |-> "lite", budget |-> budget, effective_at |-> 1, expires_at |-> 2]

Transition(host, from, to) ==
    [kind |-> "transition", environment_id |-> host,
     current_state |-> from, target_state |-> to, effective_at |-> 1, expires_at |-> 2]

MCDecisions ==
    {Activation(Authored, Budget(2, 1, 2)), Activation(Authored, Budget(2, 1, Unbounded)),
     Activation(Bare, Budget(1, 1, 1)),
     Transition(h1, "base", "open"), Transition(h1, "open", "base"),
     Transition(h2, "base", "open"),
     [Transition(h1, "base", "open") EXCEPT !.effective_at = 2],
     [kind |-> "termination", environment_id |-> h1, issued_at |-> 1, expires_at |-> 2]}

Entry(id, from, to, bounds) ==
    [transition_id |-> id, from_state |-> from, to_state |-> to, bounds |-> bounds]

Forth == Entry("forth", "base", "open", 1)
Wide  == Entry("wide", "base", "open", 2)
Back  == Entry("back", "open", "base", 1)

Catalog(transitions, sealed) ==
    LET Plain(t) == [transitions |-> t, package_digest |-> "p", signature_ref |-> "attestation"]
    IN  [f \in DOMAIN Plain(sealed) \cup {"catalog_digest"} |->
            IF f = "catalog_digest" THEN CatalogPayload(Plain(sealed))
            ELSE Plain(transitions)[f]]

OneWay == <<Forth, Wide, Back>>
Swapped == <<Wide, Forth, Back>>
Widened == <<[Forth EXCEPT !.bounds = 2], Back>>
Doubled == <<Back, [Forth EXCEPT !.bounds = 2], Forth>>   \* no constructor's work

MCCatalogs ==
    {Catalog(OneWay, OneWay), Catalog(Swapped, Swapped),
     Catalog(Swapped, OneWay), Catalog(Widened, OneWay),
     Catalog(Doubled, OneWay)}
=============================================================================
