------------------------------- MODULE Cognition -------------------------------
(***************************************************************************)
(* A node with two models.  The router hands whatever it holds to the      *)
(* egress guard: local frames, sanitized ones, and copies or mappings that *)
(* nothing has validated.  The models answer in any order, or never, and   *)
(* number their claims as they like.  A merger takes some of the answers,  *)
(* keeps some of their claims, and records that two of them contradict     *)
(* each other; the operator sees what constructs.                          *)
(***************************************************************************)
EXTENDS CognitionRecords

CONSTANTS Frames,      \* what the router may hand to the egress guard
          Answers,     \* AdvisoryResult mappings the models may return
          MaxAnswers,  \* bound: answers held at once
          MaxClaims    \* bound: claims in one merge

VARIABLES sent,      \* frames the remote model has been sent
          answers,   \* results held
          shown      \* the merges an operator was shown: inputs, record, meaning

vars == <<sent, answers, shown>>

Init ==
    /\ sent = {}
    /\ answers = {}
    /\ shown = {}

Send(f) ==
    /\ FrameSanitizedForEgress(f)
    /\ sent' = sent \cup {f}
    /\ UNCHANGED <<answers, shown>>

(* A remote model can answer once it has been sent something. *)
Receive(r) ==
    /\ AdvisoryResultOK(r)
    /\ AdvisoryInert(r)
    /\ r.origin = "remote" => sent # {}
    /\ Cardinality(answers \cup {r}) <= MaxAnswers
    /\ answers' = answers \cup {r}
    /\ UNCHANGED <<sent, shown>>

ClaimsOf(results) == UNION {Range(r.claims) : r \in results}

(* A claim as a merger may restate it: it keeps what was said and by which
   path, and may forget the model or the model's generation. *)
Restatements(c) ==
    {[claim_id |-> c.claim_id, statement |-> c.statement, source |-> c.source,
      model_ref |-> model, model_generation |-> generation] :
        model \in {c.model_ref, None}, generation \in {c.model_generation, None}}

Retold(claims) == UNION {Restatements(c) : c \in claims}

Merge(inputs, claims, contradiction) ==
    LET m == [input_result_refs |-> {r.result_id : r \in inputs},
              claims |-> claims,
              disagreements |-> {[i \in DOMAIN contradiction |-> contradiction[i].claim_id]},
              departs |-> {}, carries |-> {}]
    IN  /\ MergedAdvisoryOK(m)
        /\ AdvisoryInert(m)
        /\ shown' = {[inputs |-> inputs, merge |-> m, contradiction |-> contradiction]}
        /\ UNCHANGED <<sent, answers>>

Next ==
    \/ \E f \in Frames : Send(f)
    \/ \E r \in Answers : Receive(r)
    \/ \E inputs \in SUBSET answers :
          LET heard == ClaimsOf(inputs) IN
          \E n \in 1 .. MaxClaims :
          \E claims \in [1 .. n -> Retold(heard)],
             contradiction \in [1 .. 2 -> heard] :
                /\ contradiction[1].statement # contradiction[2].statement
                /\ Merge(inputs, claims, contradiction)

Spec == Init /\ [][Next]_vars

-----------------------------------------------------------------------------
(* The words of d are those of c, by the same author: a model keeps its name. *)
SaysTheSame(c, d) ==
    /\ d.statement = c.statement
    /\ d.source = c.source
    /\ c.source \in ModelSources => d.model_ref = c.model_ref

(* As long as the answers that were merged use different ids, a merger cannot
   report a contradiction and drop or blur one of its sides: each reference
   leads to exactly one claim of the merge, which says what its author said and
   names its source and, if that is a model, the model.  That no reference dangles
   or is met twice, and that a model's claim has a model_ref, the contracts
   see to; that a claim kept keeps its words and its source is the merger's own
   doing (Restatements).  The generation of the model, and a model_ref on a
   claim of the Core, a merger can lose. *)
NoContradictionIsDropped ==
    \A s \in shown :
        (\A c, d \in ClaimsOf(s.inputs) : c.claim_id = d.claim_id => c = d) =>
            \A c \in Range(s.contradiction) :
                \E k \in DOMAIN s.merge.claims :
                    /\ SaysTheSame(c, s.merge.claims[k])
                    /\ \A j \in DOMAIN s.merge.claims :
                          s.merge.claims[j].claim_id = c.claim_id => j = k
=============================================================================
