--------------------------- MODULE KnowledgeExchange ---------------------------
(***************************************************************************)
(* A consumer adapter with several requests open and a provider whose      *)
(* answers come late, twice, in any order, or to a request that was asked  *)
(* again in the meantime.  Objects are held in memory, where Python lets   *)
(* anybody copy a frozen model with an update nothing validates.  Fabric   *)
(* consults no clock, and neither does this module.                        *)
(***************************************************************************)
EXTENDS KnowledgeContext

CONSTANTS RequestInputs,    \* requests the adapter may construct or copy
          ResponseInputs,   \* responses that may arrive or be copied
          MaxHeld,          \* bound: requests, and responses, held at once
          MaxDone           \* bound: pairs accepted and payloads signed

ASSUME HeldAssumption == MaxHeld \in Nat /\ MaxDone \in Nat

ASSUME NoneIsNoPayload == None \notin RequestInputs \cup ResponseInputs

ASSUME SchemasAssumption ==
    /\ \A r \in RequestInputs : r.schema = "request"
    /\ \A a \in ResponseInputs : a.schema = "response"

ASSUME InstantsAssumption ==
    /\ \A r \in RequestInputs : r.requested_at \in Nat
    /\ \A a \in ResponseInputs : a.generated_at \in Nat

VARIABLES asked,      \* request objects held
          inbox,      \* response objects held
          accepted,   \* [request, response] that were found to belong together
          signed      \* canonical bytes that were handed to a transport

vars == <<asked, inbox, accepted, signed>>

Init == asked = {} /\ inbox = {} /\ accepted = {} /\ signed = {}

Ask(r) ==
    /\ RequestOK(r)
    /\ Cardinality(asked \cup {r}) <= MaxHeld
    /\ asked' = asked \cup {r}
    /\ UNCHANGED <<inbox, accepted, signed>>

(* A timeout: an answer that comes later finds no request. *)
GiveUp(r) ==
    /\ asked' = asked \ {r}
    /\ UNCHANGED <<inbox, accepted, signed>>

Receive(a) ==
    /\ ResponseOK(a)
    /\ Cardinality(inbox \cup {a}) <= MaxHeld
    /\ inbox' = inbox \cup {a}
    /\ UNCHANGED <<asked, accepted, signed>>

(* model_copy(update={f: ...}), or the same data in a subclass. *)
IsCopy(p, q) == \E f \in DOMAIN p : q = [p EXCEPT ![f] = q[f]]

CopyRequest(r, s) ==
    /\ IsCopy(r, s)
    /\ Cardinality(asked \cup {s}) <= MaxHeld
    /\ asked' = asked \cup {s}
    /\ UNCHANGED <<inbox, accepted, signed>>

CopyResponse(a, b) ==
    /\ IsCopy(a, b)
    /\ Cardinality(inbox \cup {b}) <= MaxHeld
    /\ inbox' = inbox \cup {b}
    /\ UNCHANGED <<asked, accepted, signed>>

MayDoMore == Cardinality(accepted) + Cardinality(signed) < MaxDone

Accept(r, a) ==
    /\ MayDoMore
    /\ ResponseCorrelates(r, a)
    /\ accepted' = accepted \cup {[request |-> r, response |-> a]}
    /\ UNCHANGED <<asked, inbox, signed>>

Sign(p) ==
    /\ MayDoMore
    /\ CanonicalBytes(p) # None
    /\ signed' = signed \cup {CanonicalBytes(p)}
    /\ UNCHANGED <<asked, inbox, accepted>>

Next ==
    \/ \E r \in RequestInputs : Ask(r)
    \/ \E a \in ResponseInputs : Receive(a)
    \/ \E r \in asked :
          \/ GiveUp(r)
          \/ \E s \in RequestInputs : CopyRequest(r, s)
          \/ \E a \in inbox : Accept(r, a)
    \/ \E a \in inbox, b \in ResponseInputs : CopyResponse(a, b)
    \/ \E p \in asked \cup inbox : Sign(p)

Spec == Init /\ [][Next]_vars

-----------------------------------------------------------------------------
(* Only objects somebody constructed or copied are held, judged or signed. *)
TypeOK ==
    /\ asked \subseteq RequestInputs
    /\ inbox \subseteq ResponseInputs
    /\ accepted \subseteq [request : RequestInputs, response : ResponseInputs]
    /\ signed \subseteq RequestInputs \cup ResponseInputs

(* Every fact an accepted inference rests on is there, is the only claim of
   that id, and is about something that was asked: what is concluded about a
   requested entity never leans on one that was not. *)
ConclusionsRestOnTheQuestion ==
    \A p \in accepted : \A i \in Range(p.response.inferences) :
        \A id \in i.basis_fact_ids :
            /\ id \notin InferenceIds(p.response)
            /\ \E f \in Range(p.response.facts) :
                  /\ f.fact_id = id
                  /\ f.subject \in Entities(p.request)
                  /\ \A g \in Range(p.response.facts) : g.fact_id = id => g = f

(* One answer can serve two requests (a retry under the same ids, narrower or
   later) only if it fits both. *)
SharedAnswersAgree ==
    \A p, q \in accepted : p.response = q.response =>
        /\ Key(p.request) = Key(q.request)
        /\ Subjects(p.response) \subseteq Entities(p.request) \cap Entities(q.request)
        /\ {p.request.requested_at, q.request.requested_at} \subseteq 0 .. p.response.generated_at

(* Whatever was copied in between, nothing invalid is handed to a transport,
   and whatever was accepted can be. *)
OnlyValidIsPassedOn ==
    /\ \A p \in signed : p.exact /\ Valid(p)
    /\ \A p \in accepted :
          CanonicalBytes(p.request) # None /\ CanonicalBytes(p.response) # None

(* The exchange is AskedOnly: a question is its key and its entities, an
   answer its key and the subjects of its claims. *)
Asked == INSTANCE AskedOnly
    WITH Keys <- {Key(r) : r \in RequestInputs},
         Topics <- UNION {Entities(r) : r \in RequestInputs},
         wanted <- {[key |-> Key(r), about |-> Entities(r)] : r \in asked},
         told <- {[key |-> Key(p.response), about |-> Subjects(p.response)] : p \in accepted}

ImplementsAskedOnly == Asked!Spec
=============================================================================
