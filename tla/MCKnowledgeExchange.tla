-------------------------- MODULE MCKnowledgeExchange --------------------------
(***************************************************************************)
(* One question asked narrowly, widely, later and under another            *)
(* correlation, and the answers a provider, an old cache or a careless     *)
(* copy may produce.  An invalid or subclassed object is not an input of a *)
(* constructor; it is reached by copying a valid one.                      *)
(***************************************************************************)
EXTENDS KnowledgeExchange

CONSTANTS host, domain

MCNone == [schema |-> "none"]

Asking ==
    [schema |-> "request", exact |-> TRUE, carries |-> {},
     request_id |-> "r1", correlation_id |-> "c1",
     source_product |-> "edge", source_ref |-> "s1",
     requested_at |-> 2, entities |-> <<host>>]

MCRequestInputs ==
    {Asking,
     [Asking EXCEPT !.entities = <<host, domain>>],
     [Asking EXCEPT !.entities = <<host, host>>],
     [Asking EXCEPT !.requested_at = 4],
     [Asking EXCEPT !.correlation_id = "c2"],
     [Asking EXCEPT !.exact = FALSE]}

Fact(id, about) == [fact_id |-> id, subject |-> about]

Inference(id, about, basis) ==
    [inference_id |-> id, subject |-> about, basis_fact_ids |-> basis]

Answering ==
    [schema |-> "response", exact |-> TRUE, carries |-> {},
     request_id |-> "r1", correlation_id |-> "c1",
     source_product |-> "edge", source_ref |-> "s1",
     facts |-> <<Fact("f1", host)>>,
     inferences |-> <<Inference("i1", host, {"f1"})>>,
     as_of |-> 1, generated_at |-> 3, expires_at |-> 5]

MCResponseInputs ==
    {Answering,
     [Answering EXCEPT !.facts = <<Fact("f1", host), Fact("f2", domain)>>],
     [Answering EXCEPT !.facts = <<Fact("f1", host), Fact("f1", domain)>>],
     [Answering EXCEPT !.facts = <<Fact("f1", domain)>>],
     [Answering EXCEPT !.inferences = <<Inference("i1", domain, {"f1"})>>],
     [Answering EXCEPT !.inferences = <<Inference("i1", host, {"f2"})>>],
     [Answering EXCEPT !.inferences = <<Inference("f1", host, {"f1"})>>],
     [Answering EXCEPT !.generated_at = 1],
     [Answering EXCEPT !.expires_at = 3],
     [Answering EXCEPT !.carries = {"directive"}],
     [Answering EXCEPT !.exact = FALSE]}
=============================================================================
