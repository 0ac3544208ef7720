------------------------------ MODULE EffectChain ------------------------------
(***************************************************************************)
(* A consumer that puts the records of several producers together: an      *)
(* effect by Edge, observations by its materializer, a terrain by          *)
(* Deception, an outcome envelope by Knowledge.  They arrive in any order, *)
(* late, replayed, or from an incident that happens to use the same ids;   *)
(* each addition to a chain is judged with the whole chain, as             *)
(* assert_effect_chain_consistent asks.                                    *)
(***************************************************************************)
EXTENDS EffectRecords, FiniteSets

CONSTANTS EffectInputs,        \* DefensiveEffectRef mappings that may arrive
          ObservationInputs,   \* EffectObservation mappings
          EnvelopeInputs,      \* OutcomeObservationEnvelope mappings
          TerrainInputs,       \* PresentedTerrainRef mappings
          MaxChains,           \* bound: chains kept at once
          MaxObservations      \* bound: observations in one chain

ASSUME NoneIsNoRecord == None \notin EnvelopeInputs \cup TerrainInputs

ASSUME EffectBoundsAssumption ==
    MaxChains \in Nat /\ MaxObservations \in Nat

VARIABLE chains   \* by effect: what has been chained to it

vars == <<chains>>

Held == DOMAIN chains

Init == chains = [e \in {} |-> None]

OpenChain(e) ==
    /\ DefensiveEffectOK(e)
    /\ e \notin Held
    /\ Cardinality(Held) < MaxChains
    /\ chains' = [d \in Held \cup {e} |->
                     IF d = e THEN [observations |-> {}, envelope |-> None, terrain |-> None]
                     ELSE chains[d]]

AddObservation(e, o) ==
    LET chain == chains[e] IN
    /\ EffectObservationOK(o)
    /\ EffectChainConsistent(e, chain.observations \cup {o}, chain.envelope, chain.terrain)
    /\ ObservationWithinEffectWindow(e, o)
    /\ Cardinality(chain.observations \cup {o}) <= MaxObservations
    /\ chains' = [chains EXCEPT ![e].observations = @ \cup {o}]

(* A later envelope or terrain takes the place of the one in the chain. *)
SetEnvelope(e, v) ==
    LET chain == chains[e] IN
    /\ OutcomeEnvelopeOK(v)
    /\ EffectChainConsistent(e, chain.observations, v, chain.terrain)
    /\ chains' = [chains EXCEPT ![e].envelope = v]

SetTerrain(e, t) ==
    LET chain == chains[e] IN
    /\ PresentedTerrainOK(t)
    /\ EffectChainConsistent(e, chain.observations, chain.envelope, t)
    /\ chains' = [chains EXCEPT ![e].terrain = t]

Next ==
    \/ \E e \in EffectInputs : OpenChain(e)
    \/ \E e \in Held :
          \/ \E o \in ObservationInputs : AddObservation(e, o)
          \/ \E v \in EnvelopeInputs : SetEnvelope(e, v)
          \/ \E t \in TerrainInputs : SetTerrain(e, t)

Spec == Init /\ [][Next]_vars

-----------------------------------------------------------------------------
Chains == [observations : SUBSET ObservationInputs,
           envelope : EnvelopeInputs \cup {None},
           terrain : TerrainInputs \cup {None}]

(* Chains hang on effects that construct, and hold what was sent. *)
TypeOK ==
    /\ Held \subseteq {e \in EffectInputs : DefensiveEffectOK(e)}
    /\ chains \in [Held -> Chains]

(* No record that names a trace is in the chains of two incidents.  That is
   less than effect_contracts/validation.py:242 asks ("Every record in a chain
   must name the same trace and the same effect"): a terrain need not name its
   trace, and one that does not IS in both chains where the decision ids of two
   incidents collide.  What is said of it is that nothing else lets it. *)
TracedRecordsStayApart ==
    \A d, e \in Held : d.trace_id # e.trace_id =>
        /\ chains[d].observations \cap chains[e].observations = {}
        /\ chains[d].envelope = chains[e].envelope => chains[d].envelope = None
        /\ chains[d].terrain = chains[e].terrain /\ chains[d].terrain # None =>
              /\ chains[d].terrain.trace_id = NoRef
              /\ d.decision_ref = e.decision_ref /\ d.decision_ref # NoRef

(* Whatever put a terrain there is the same in every chain it is in: one
   decision id, or else one effect of one incident.  Whether two incidents mean
   one decision by one id, nothing in the records tells. *)
TerrainHasOneOrigin ==
    \A d, e \in Held :
        chains[d].terrain = chains[e].terrain /\ chains[d].terrain # None =>
            /\ d.decision_ref = e.decision_ref
            /\ d.decision_ref = NoRef => d.effect_id = e.effect_id /\ d.trace_id = e.trace_id

(* A terrain stands under the decision its effect names, an effect that claims
   a decision has one, and no terrain of an effect that claims one is also that
   of advice, in whatever chains and order the two arrive.  It is said of advice
   only: a shadow or a stale effect may name a decision it does not claim, and
   share the decided effect's terrain (models.py:200 says otherwise), so that a
   reader has to go by the authority class and not by the reference. *)
AdviceActivatesNothing ==
    \A e \in Held :
        LET t == chains[e].terrain IN
        t # None =>
            /\ t.activation_decision_ref = e.decision_ref
            /\ IsAuthoritativeDecisionReference(e.authority_class) => e.decision_ref # NoRef
            /\ e.authority_class = "advisory_inference" =>
                  \A d \in Held : chains[d].terrain = t =>
                      ~IsAuthoritativeDecisionReference(d.authority_class)

(* No chain says its effect was running after the effect's own expiry. *)
LiveReportsEnd ==
    \A e \in Held : \A o \in chains[e].observations :
        o.authority_class = "active_materialized" => o.observed_at <= e.expires_at

(* An envelope and a terrain in one chain agree, whichever came first and
   whichever was replaced since. *)
PresentationAgrees ==
    \A e \in Held :
        LET v == chains[e].envelope
            t == chains[e].terrain
        IN  v # None /\ t # None => v.presentation_ref \in {NoRef, t.presentation_id}

(* What a chain holds, envelope or terrain replaced as they may have been, could
   have been collected in any order: nothing was accepted only because of what
   was there, and a consumer that missed some of it accepts the rest. *)
CollectableInAnyOrder ==
    \A e \in Held :
        \A some \in SUBSET chains[e].observations,
           v \in {None, chains[e].envelope},
           t \in {None, chains[e].terrain} :
              EffectChainConsistent(e, some, v, t)
=============================================================================
