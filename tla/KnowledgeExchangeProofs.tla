------------------------- MODULE KnowledgeExchangeProofs -------------------------
(***************************************************************************)
(* The exchange, for every set of requests and responses and every bound.  *)
(*                                                                         *)
(* Nothing that was checked is stored beside what was accepted or signed,  *)
(* so the invariant carries the check itself: every accepted pair          *)
(* correlates, and all that was signed is exact and valid.  The objects    *)
(* are records that never change, a copy being another record, so no step  *)
(* can take that back; every property of the model follows from it.        *)
(***************************************************************************)
EXTENDS KnowledgeExchange, TLAPS

AcceptedCorrelate ==
    \A p \in accepted : ResponseCorrelates(p.request, p.response)

SignedValid == \A p \in signed : p.exact /\ Valid(p)

Inv == TypeOK /\ AcceptedCorrelate /\ SignedValid

(* What has canonical bytes is exact and valid, and the bytes are what it says. *)
LEMMA CanonicalBytesValid ==
    ASSUME NEW p, CanonicalBytes(p) # None
    PROVE  CanonicalBytes(p) = p /\ p.exact /\ Valid(p)
BY DEF CanonicalBytes

(* The conjunction of the type invariant and the two checks is inductive. *)
LEMMA Inductive == Inv /\ [Next]_vars => Inv'
<1> SUFFICES ASSUME Inv, [Next]_vars PROVE Inv'
    OBVIOUS
<1> USE DEF Inv, TypeOK, AcceptedCorrelate, SignedValid
<1>1. ASSUME NEW r \in RequestInputs, Ask(r) PROVE Inv'
    BY <1>1 DEF Ask
<1>2. ASSUME NEW a \in ResponseInputs, Receive(a) PROVE Inv'
    BY <1>2 DEF Receive
<1>3. ASSUME NEW r \in asked, GiveUp(r) PROVE Inv'
    BY <1>3 DEF GiveUp
<1>4. ASSUME NEW r \in asked, NEW s \in RequestInputs, CopyRequest(r, s) PROVE Inv'
    BY <1>4 DEF CopyRequest
<1>5. ASSUME NEW a \in inbox, NEW b \in ResponseInputs, CopyResponse(a, b) PROVE Inv'
    BY <1>5 DEF CopyResponse
<1>6. ASSUME NEW r \in asked, NEW a \in inbox, Accept(r, a) PROVE Inv'
    <2>1. [request |-> r, response |-> a] \in [request : RequestInputs, response : ResponseInputs]
        OBVIOUS
    <2>2. TypeOK'
        BY <1>6, <2>1 DEF Accept
    <2>3. AcceptedCorrelate'
        BY <1>6 DEF Accept
    <2>4. SignedValid'
        BY <1>6 DEF Accept
    <2> QED BY <2>2, <2>3, <2>4
<1>7. ASSUME NEW p \in asked \cup inbox, Sign(p) PROVE Inv'
    <2>1. CanonicalBytes(p) = p /\ p.exact /\ Valid(p)
        BY <1>7, CanonicalBytesValid DEF Sign
    <2>2. signed' = signed \cup {p}
        BY <1>7, <2>1 DEF Sign
    <2> QED BY <1>7, <2>1, <2>2 DEF Sign
<1>8. CASE UNCHANGED vars
    BY <1>8 DEF vars
<1> QED BY <1>1, <1>2, <1>3, <1>4, <1>5, <1>6, <1>7, <1>8 DEF Next

THEOREM Invariance == Spec => []Inv
<1>1. Init => Inv
    BY DEF Init, Inv, TypeOK, AcceptedCorrelate, SignedValid
<1> QED BY <1>1, Inductive, PTL DEF Spec

(* Only objects somebody constructed or copied are held, judged or signed. *)
THEOREM TypeCorrect == Spec => []TypeOK
<1>1. Inv => TypeOK
    BY DEF Inv
<1> QED BY <1>1, Invariance, PTL

(* In a response that constructs, a fact id names one fact. *)
LEMMA FactsHaveOneId ==
    ASSUME NEW a, ResponseOK(a),
           NEW f \in Range(a.facts), NEW g \in Range(a.facts), f.fact_id = g.fact_id
    PROVE  f = g
<1>1. PICK i \in DOMAIN a.facts : f = a.facts[i]
    BY DEF Range
<1>2. PICK j \in DOMAIN a.facts : g = a.facts[j]
    BY DEF Range
<1>3. i = j
    BY <1>1, <1>2 DEF ResponseOK, Identified
<1> QED BY <1>1, <1>2, <1>3

(* What an accepted inference rests on is in the answer, unambiguous, and about
   something that was asked. *)
THEOREM BasesWereAsked == Spec => []ConclusionsRestOnTheQuestion
<1>1. Inv => ConclusionsRestOnTheQuestion
    <2> SUFFICES ASSUME Inv, NEW p \in accepted, NEW i \in Range(p.response.inferences),
                        NEW id \in i.basis_fact_ids
                 PROVE  /\ id \notin InferenceIds(p.response)
                        /\ \E f \in Range(p.response.facts) :
                              /\ f.fact_id = id
                              /\ f.subject \in Entities(p.request)
                              /\ \A g \in Range(p.response.facts) : g.fact_id = id => g = f
        BY DEF ConclusionsRestOnTheQuestion
    <2>1. ResponseCorrelates(p.request, p.response)
        BY DEF Inv, AcceptedCorrelate
    <2>2. ResponseOK(p.response)
        BY <2>1 DEF ResponseCorrelates
    <2>3. id \in FactIds(p.response)
        BY <2>2 DEF ResponseOK
    <2>4. PICK f \in Range(p.response.facts) : f.fact_id = id
        BY <2>3 DEF FactIds
    <2>5. f.subject \in Entities(p.request)
        BY <2>1 DEF ResponseCorrelates, Subjects, Claims
    <2>6. \A g \in Range(p.response.facts) : g.fact_id = id => g = f
        BY <2>2, <2>4, FactsHaveOneId
    <2>7. id \notin InferenceIds(p.response)
        BY <2>2, <2>3 DEF ResponseOK, Identified
    <2> QED BY <2>4, <2>5, <2>6, <2>7
<1> QED BY <1>1, Invariance, PTL

(* An answer that is accepted for two requests fits both of them. *)
THEOREM SharedAnswersFitBoth == Spec => []SharedAnswersAgree
<1>1. Inv => SharedAnswersAgree
    <2> SUFFICES ASSUME Inv, NEW p \in accepted, NEW q \in accepted,
                        p.response = q.response
                 PROVE  /\ Key(p.request) = Key(q.request)
                        /\ Subjects(p.response) \subseteq
                               Entities(p.request) \cap Entities(q.request)
                        /\ p.request.requested_at \in 0 .. p.response.generated_at
                        /\ q.request.requested_at \in 0 .. p.response.generated_at
        BY DEF SharedAnswersAgree
    <2>1. ResponseCorrelates(p.request, p.response) /\ ResponseCorrelates(q.request, p.response)
        BY DEF Inv, AcceptedCorrelate
    <2>2. Key(p.request) = Key(q.request)
        BY <2>1 DEF ResponseCorrelates
    <2>3. Subjects(p.response) \subseteq Entities(p.request) \cap Entities(q.request)
        BY <2>1 DEF ResponseCorrelates
    <2>4. /\ p.request.requested_at \in Nat
          /\ q.request.requested_at \in Nat
          /\ p.response.generated_at \in Nat
        BY InstantsAssumption DEF Inv, TypeOK
    <2>5. /\ p.request.requested_at \in 0 .. p.response.generated_at
          /\ q.request.requested_at \in 0 .. p.response.generated_at
        BY <2>1, <2>4 DEF ResponseCorrelates
    <2> QED BY <2>2, <2>3, <2>5
<1> QED BY <1>1, Invariance, PTL

(* Whatever is copied in between, no invalid payload reaches a transport, and
   what was accepted has canonical bytes. *)
THEOREM PassedOnIsValid == Spec => []OnlyValidIsPassedOn
<1>1. Inv => OnlyValidIsPassedOn
    <2> SUFFICES ASSUME Inv, NEW p \in accepted
                 PROVE  CanonicalBytes(p.request) # None /\ CanonicalBytes(p.response) # None
        BY DEF OnlyValidIsPassedOn, Inv, SignedValid
    <2>1. p.request \in RequestInputs /\ p.response \in ResponseInputs
        BY DEF Inv, TypeOK
    <2>2. p.request # None /\ p.response # None
        BY <2>1, NoneIsNoPayload
    <2>3. p.request.schema = "request" /\ p.response.schema = "response"
        BY <2>1, SchemasAssumption
    <2>4. ResponseCorrelates(p.request, p.response)
        BY DEF Inv, AcceptedCorrelate
    <2>5. Valid(p.request) /\ Valid(p.response)
        BY <2>3, <2>4 DEF Valid, ResponseCorrelates
    <2> QED BY <2>2, <2>4, <2>5 DEF CanonicalBytes, ResponseCorrelates
<1> QED BY <1>1, Invariance, PTL

Question(r) == [key |-> Key(r), about |-> Entities(r)]

Answer(p) == [key |-> Key(p.response), about |-> Subjects(p.response)]

(* A request, constructed or copied, is a question that is wanted. *)
LEMMA AskingIsWanting ==
    ASSUME NEW s \in RequestInputs, asked' = asked \cup {s}, accepted' = accepted
    PROVE  Asked!Next
<1>1. Asked!Want(Key(s), Entities(s))
    BY DEF Asked!Want
<1>2. Key(s) \in {Key(r) : r \in RequestInputs}
    OBVIOUS
<1>3. Entities(s) \in SUBSET UNION {Entities(r) : r \in RequestInputs}
    OBVIOUS
<1> QED BY <1>1, <1>2, <1>3 DEF Asked!Next

(* The exchange implements AskedOnly: every accepted answer was covered by one
   question that was open when it was accepted. *)
THEOREM Refinement == Spec => ImplementsAskedOnly
<1> DEFINE wanted == {Question(r) : r \in asked}
           told == {Answer(p) : p \in accepted}
<1>1. Init => Asked!Init
    BY DEF Init, Asked!Init
<1>2. Inv /\ [Next]_vars => [Asked!Next]_<<{[key |-> Key(r), about |-> Entities(r)] : r \in asked},
         {[key |-> Key(p.response), about |-> Subjects(p.response)] : p \in accepted}>>
    <2> SUFFICES ASSUME Inv, [Next]_vars
                 PROVE  Asked!Next \/ (wanted' = wanted /\ told' = told)
        BY DEF Question, Answer
    <2>1. ASSUME NEW r \in RequestInputs, Ask(r) PROVE Asked!Next
        BY <2>1, AskingIsWanting DEF Ask
    <2>2. ASSUME NEW r \in asked, NEW s \in RequestInputs, CopyRequest(r, s) PROVE Asked!Next
        BY <2>2, AskingIsWanting DEF CopyRequest
    <2>3. ASSUME NEW r \in asked, GiveUp(r)
          PROVE  Asked!Next \/ (wanted' = wanted /\ told' = told)
        <3>1. told' = told
            BY <2>3 DEF GiveUp
        <3>2. Question(r) \in wanted
            OBVIOUS
        <3>3. wanted' = wanted \/ wanted' = wanted \ {Question(r)}
            BY <2>3 DEF GiveUp
        <3>4. ASSUME wanted' = wanted \ {Question(r)} PROVE Asked!Next
            <4>1. Asked!GiveUp(Question(r))
                BY <3>1, <3>4 DEF Asked!GiveUp, Question, Answer
            <4> QED BY <3>2, <4>1 DEF Asked!Next, Question
        <3> QED BY <3>1, <3>3, <3>4
    <2>4. ASSUME NEW r \in asked, NEW a \in inbox, Accept(r, a) PROVE Asked!Next
        <3>1. Key(a) = Key(r) /\ Subjects(a) \subseteq Entities(r)
            BY <2>4 DEF Accept, ResponseCorrelates
        <3>2. told' = told \cup {Answer([request |-> r, response |-> a])} /\ wanted' = wanted
            BY <2>4 DEF Accept
        <3>3. Answer([request |-> r, response |-> a]) = [key |-> Key(r), about |-> Subjects(a)]
            BY <3>1 DEF Answer
        <3>4. Asked!Tell(Question(r), Subjects(a))
            BY <3>1, <3>2, <3>3 DEF Asked!Tell, Question, Answer
        <3>5. Subjects(a) \in SUBSET UNION {Entities(s) : s \in RequestInputs}
            BY <3>1 DEF Inv, TypeOK
        <3> QED BY <3>4, <3>5 DEF Asked!Next, Question
    <2>5. ASSUME UNCHANGED <<asked, accepted>> PROVE wanted' = wanted /\ told' = told
        BY <2>5
    <2>6. ASSUME NEW a \in ResponseInputs, Receive(a) PROVE UNCHANGED <<asked, accepted>>
        BY <2>6 DEF Receive
    <2>7. ASSUME NEW a \in inbox, NEW b \in ResponseInputs, CopyResponse(a, b)
          PROVE  UNCHANGED <<asked, accepted>>
        BY <2>7 DEF CopyResponse
    <2>8. ASSUME NEW p \in asked \cup inbox, Sign(p) PROVE UNCHANGED <<asked, accepted>>
        BY <2>8 DEF Sign
    <2>9. CASE UNCHANGED vars
        BY <2>5, <2>9 DEF vars
    <2> HIDE DEF wanted, told
    <2> QED BY <2>1, <2>2, <2>3, <2>4, <2>5, <2>6, <2>7, <2>8, <2>9 DEF Next
<1> QED BY <1>1, <1>2, Invariance, PTL DEF Spec, ImplementsAskedOnly, Asked!Spec
=============================================================================
