------------------------------ MODULE MCCognition ------------------------------
(***************************************************************************)
(* One situation, local and sanitized; the sanitized frame also as a copy  *)
(* whose class or evidence flag was changed, or whose class is not one of  *)
(* the library's, and a mapping that has neither.  A local and a remote    *)
(* model that contradict each other, under ids of their own and under the  *)
(* same id, and the Core's own explanation.                                *)
(***************************************************************************)
EXTENDS Cognition

Local(class) == [privacy_class |-> class, carries |-> {}]

Redaction(field, alias) ==
    [field_ref |-> field, privacy_class |-> "sensitive", action |-> "aliased", alias_ref |-> alias]

Sanitized ==
    [privacy_class |-> "internal", redactions |-> <<Redaction(1, 1), Redaction(2, 2)>>,
     contains_raw_evidence |-> FALSE, ambiguity_resolution |-> "deny_on_ambiguity",
     carries |-> {}]

Constructed ==
    {f \in {Local("restricted"), Local("internal"), [Local("internal") EXCEPT !.carries = {"oversized"}]} :
        SituationFrameOK(f)}
    \cup {f \in {Sanitized, [Sanitized EXCEPT !.redactions = <<Redaction(1, 1), Redaction(2, 1)>>]} :
        SanitizedRemoteFrameOK(f)}

Unvalidated ==
    {[Sanitized EXCEPT !.privacy_class = "restricted"],
     [Sanitized EXCEPT !.contains_raw_evidence = TRUE],
     [Sanitized EXCEPT !.carries = {"directive"}],
     [Sanitized EXCEPT !.privacy_class = "unheard of"],
     [carries |-> {}]}

MCFrames == Constructed \cup Unvalidated

Says(id, statement, source, model) ==
    [claim_id |-> id, statement |-> statement, source |-> source, model_ref |-> model,
     model_generation |-> IF source = "remote_model" THEN 1 ELSE None]

Answer(n, origin, claims) ==
    [result_id |-> n, origin |-> origin, claims |-> claims, departs |-> {}, carries |-> {}]

MCAnswers ==
    {Answer(1, "local", <<Says(1, "scan", "local_model", "small"),
                          Says(3, "host up", "deterministic_core", "rules")>>),
     Answer(2, "remote", <<Says(2, "backup", "remote_model", "large")>>),
     Answer(3, "remote", <<Says(1, "backup", "remote_model", "large"),
                           Says(2, "scan", "remote_model", "large")>>),
     Answer(4, "remote", <<Says(2, "backup", "remote_model", None)>>),
     [Answer(2, "remote", <<Says(2, "backup", "remote_model", "large")>>)
         EXCEPT !.departs = {"contains_links"}]}
=============================================================================
