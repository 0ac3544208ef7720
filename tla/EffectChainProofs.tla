--------------------------- MODULE EffectChainProofs ---------------------------
(***************************************************************************)
(* What a consumer may conclude from its chains, for every set of records  *)
(* that may arrive and in every order.  The inductive invariant says that  *)
(* each chain would still pass, as a whole, every guard its parts passed   *)
(* when they were added: replacing one part never invalidates another.     *)
(***************************************************************************)
EXTENDS EffectChain, TLAPS

(* A chain passes its guards as it stands. *)
ChainOK(e) ==
    /\ \A o \in chains[e].observations :
          EffectObservationOK(o) /\ ObservationWithinEffectWindow(e, o)
    /\ chains[e].terrain # None => PresentedTerrainOK(chains[e].terrain)
    /\ EffectChainConsistent(e, chains[e].observations, chains[e].envelope,
                             chains[e].terrain)

IInv == TypeOK /\ \A e \in Held : ChainOK(e)

(* A replacement of one chain leaves the others as they were. *)
LEMMA OneChainAtATime ==
    ASSUME IInv, NEW e \in Held, NEW c \in Chains,
           chains' = [chains EXCEPT ![e] = c],
           \A o \in c.observations : EffectObservationOK(o) /\ ObservationWithinEffectWindow(e, o),
           c.terrain # None => PresentedTerrainOK(c.terrain),
           EffectChainConsistent(e, c.observations, c.envelope, c.terrain)
    PROVE  IInv'
<1>1. DOMAIN chains' = Held /\ Held' = Held
  BY DEF Held, IInv, TypeOK
<1>2. \A d \in Held : chains'[d] = IF d = e THEN c ELSE chains[d]
  BY DEF Held, IInv, TypeOK
<1>3. TypeOK'
  BY <1>1, <1>2 DEF IInv, TypeOK, Held
<1>4. ASSUME NEW d \in Held PROVE ChainOK(d)'
  <2>1. CASE d = e
    <3>1. chains'[d] = c
      BY <1>2, <2>1
    <3>2. QED
      BY <3>1, <2>1 DEF ChainOK
  <2>2. CASE d # e
    <3>1. chains'[d] = chains[d] /\ ChainOK(d)
      BY <1>2, <2>2 DEF IInv
    <3>2. QED
      BY <3>1 DEF ChainOK
  <2>3. QED
    BY <2>1, <2>2
<1>5. QED
  BY <1>1, <1>3, <1>4 DEF IInv

LEMMA AddObservationPreserves ==
    ASSUME IInv, NEW e \in Held, NEW o \in ObservationInputs, AddObservation(e, o)
    PROVE  IInv'
<1> DEFINE c == [chains[e] EXCEPT !.observations = @ \cup {o}]
<1>1. chains[e] \in Chains /\ ChainOK(e)
  BY DEF IInv, TypeOK, Held
<1>2. c \in Chains /\ c.envelope = chains[e].envelope /\ c.terrain = chains[e].terrain
      /\ c.observations = chains[e].observations \cup {o}
  BY <1>1 DEF Chains
<1>3. chains' = [chains EXCEPT ![e] = c]
  BY DEF AddObservation
<1>4. EffectChainConsistent(e, c.observations, c.envelope, c.terrain)
  BY <1>2 DEF AddObservation
<1>5. \A p \in c.observations : EffectObservationOK(p) /\ ObservationWithinEffectWindow(e, p)
  BY <1>1, <1>2 DEF AddObservation, ChainOK
<1>6. c.terrain # None => PresentedTerrainOK(c.terrain)
  BY <1>1, <1>2 DEF ChainOK
<1> HIDE DEF c
<1>7. QED
  BY <1>2, <1>3, <1>4, <1>5, <1>6, OneChainAtATime

LEMMA SetEnvelopePreserves ==
    ASSUME IInv, NEW e \in Held, NEW v \in EnvelopeInputs, SetEnvelope(e, v)
    PROVE  IInv'
<1> DEFINE c == [chains[e] EXCEPT !.envelope = v]
<1>1. chains[e] \in Chains /\ ChainOK(e)
  BY DEF IInv, TypeOK, Held
<1>2. c \in Chains /\ c.envelope = v /\ c.terrain = chains[e].terrain
      /\ c.observations = chains[e].observations
  BY <1>1 DEF Chains
<1>3. chains' = [chains EXCEPT ![e] = c]
  BY DEF SetEnvelope
<1>4. EffectChainConsistent(e, c.observations, c.envelope, c.terrain)
  BY <1>2 DEF SetEnvelope
<1>5. \A p \in c.observations : EffectObservationOK(p) /\ ObservationWithinEffectWindow(e, p)
  BY <1>1, <1>2 DEF ChainOK
<1>6. c.terrain # None => PresentedTerrainOK(c.terrain)
  BY <1>1, <1>2 DEF ChainOK
<1> HIDE DEF c
<1>7. QED
  BY <1>2, <1>3, <1>4, <1>5, <1>6, OneChainAtATime

LEMMA SetTerrainPreserves ==
    ASSUME IInv, NEW e \in Held, NEW t \in TerrainInputs, SetTerrain(e, t)
    PROVE  IInv'
<1> DEFINE c == [chains[e] EXCEPT !.terrain = t]
<1>1. chains[e] \in Chains /\ ChainOK(e)
  BY DEF IInv, TypeOK, Held
<1>2. c \in Chains /\ c.envelope = chains[e].envelope /\ c.terrain = t
      /\ c.observations = chains[e].observations
  BY <1>1 DEF Chains
<1>3. chains' = [chains EXCEPT ![e] = c]
  BY DEF SetTerrain
<1>4. EffectChainConsistent(e, c.observations, c.envelope, c.terrain)
  BY <1>2 DEF SetTerrain
<1>5. \A p \in c.observations : EffectObservationOK(p) /\ ObservationWithinEffectWindow(e, p)
  BY <1>1, <1>2 DEF ChainOK
<1>6. c.terrain # None => PresentedTerrainOK(c.terrain)
  BY <1>2 DEF SetTerrain
<1> HIDE DEF c
<1>7. QED
  BY <1>2, <1>3, <1>4, <1>5, <1>6, OneChainAtATime

LEMMA OpenChainPreserves ==
    ASSUME IInv, NEW e \in EffectInputs, OpenChain(e)
    PROVE  IInv'
<1> DEFINE c == [observations |-> {}, envelope |-> None, terrain |-> None]
<1>1. chains' = [d \in Held \cup {e} |-> IF d = e THEN c ELSE chains[d]]
      /\ e \notin Held
  BY DEF OpenChain
<1>2. Held' = Held \cup {e} /\ c \in Chains
  BY <1>1 DEF Held, Chains
<1>3. TypeOK'
  BY <1>1, <1>2 DEF IInv, TypeOK, OpenChain, Held
<1>4. ASSUME NEW d \in Held' PROVE ChainOK(d)'
  <2>1. CASE d = e
    <3>1. chains'[d] = c
      BY <1>1, <2>1
    <3>2. QED
      BY <3>1 DEF ChainOK, EffectChainConsistent
  <2>2. CASE d # e
    <3>1. d \in Held /\ chains'[d] = chains[d] /\ ChainOK(d)
      BY <1>1, <1>2, <2>2 DEF IInv
    <3>2. QED
      BY <3>1 DEF ChainOK
  <2>3. QED
    BY <2>1, <2>2
<1>5. QED
  BY <1>3, <1>4 DEF IInv

LEMMA Inductive == Spec => []IInv
<1>1. Init => IInv
  BY DEF Init, IInv, TypeOK, Held
<1>2. IInv /\ [Next]_vars => IInv'
  <2> SUFFICES ASSUME IInv, [Next]_vars PROVE IInv'
    OBVIOUS
  <2>1. CASE \E e \in EffectInputs : OpenChain(e)
    BY <2>1, OpenChainPreserves
  <2>2. CASE \E e \in Held, o \in ObservationInputs : AddObservation(e, o)
    BY <2>2, AddObservationPreserves
  <2>3. CASE \E e \in Held, v \in EnvelopeInputs : SetEnvelope(e, v)
    BY <2>3, SetEnvelopePreserves
  <2>4. CASE \E e \in Held, t \in TerrainInputs : SetTerrain(e, t)
    BY <2>4, SetTerrainPreserves
  <2>5. CASE UNCHANGED vars
    BY <2>5 DEF vars, IInv, TypeOK, ChainOK, Held
  <2>6. QED
    BY <2>1, <2>2, <2>3, <2>4, <2>5 DEF Next
<1>3. QED
  BY <1>1, <1>2, PTL DEF Spec

-----------------------------------------------------------------------------
(* Chains hang on effects that construct and hold records that were sent. *)
THEOREM TypeCorrect == Spec => []TypeOK
<1>1. IInv => TypeOK
  BY DEF IInv
<1>2. QED
  BY <1>1, Inductive, PTL

(* A terrain in two chains has one origin in both. *)
LEMMA SharedTerrain ==
    ASSUME IInv, NEW d \in Held, NEW e \in Held,
           chains[d].terrain = chains[e].terrain, chains[d].terrain # None
    PROVE  /\ d.decision_ref = e.decision_ref
           /\ d.decision_ref = NoRef => d.effect_id = e.effect_id /\ d.trace_id = e.trace_id
           /\ d.trace_id # e.trace_id =>
                 chains[d].terrain.trace_id = NoRef /\ d.decision_ref # NoRef
<1> DEFINE t == chains[d].terrain
<1>1. PresentedTerrainOK(t) /\ TerrainBindsToEffect(d, t) /\ TerrainBindsToEffect(e, t)
  BY DEF IInv, ChainOK, EffectChainConsistent
<1> HIDE DEF t
<1>2. t.source_effect_ref # NoRef => t.trace_id # NoRef
  BY <1>1 DEF PresentedTerrainOK
<1>3. QED
  BY <1>1, <1>2 DEF TerrainBindsToEffect, t

(* effect_contracts.assert_effect_chain_consistent: whatever order the records
   of two incidents arrive in, none that names its trace is in chains of both;
   a terrain that names none is, only if both effects name its decision id. *)
THEOREM NoTracedRecordIsShared == Spec => []TracedRecordsStayApart
<1>1. IInv => TracedRecordsStayApart
  <2> SUFFICES ASSUME IInv, NEW d \in Held, NEW e \in Held, d.trace_id # e.trace_id
               PROVE  /\ chains[d].observations \cap chains[e].observations = {}
                      /\ chains[d].envelope = chains[e].envelope => chains[d].envelope = None
                      /\ chains[d].terrain = chains[e].terrain /\ chains[d].terrain # None =>
                            /\ chains[d].terrain.trace_id = NoRef
                            /\ d.decision_ref = e.decision_ref /\ d.decision_ref # NoRef
    BY DEF TracedRecordsStayApart
  <2>1. ChainOK(d) /\ ChainOK(e)
    BY DEF IInv
  <2>2. chains[d].observations \cap chains[e].observations = {}
    BY <2>1 DEF ChainOK, EffectChainConsistent
  <2>3. chains[d].envelope = chains[e].envelope => chains[d].envelope = None
    BY <2>1 DEF ChainOK, EffectChainConsistent
  <2>4. QED
    BY <2>2, <2>3, SharedTerrain
<1>2. QED
  BY <1>1, Inductive, PTL

(* Two chains that show the same terrain agree on what put it there. *)
THEOREM OneOrigin == Spec => []TerrainHasOneOrigin
<1>1. IInv => TerrainHasOneOrigin
  BY SharedTerrain DEF TerrainHasOneOrigin
<1>2. QED
  BY <1>1, Inductive, PTL

(* No terrain is both that of advice and that of an effect which claims a
   decision, and whoever claims one names it. *)
THEOREM AdviceStaysAdvice == Spec => []AdviceActivatesNothing
<1>1. IInv => AdviceActivatesNothing
  <2> SUFFICES ASSUME IInv, NEW e \in Held, chains[e].terrain # None
               PROVE  LET t == chains[e].terrain IN
                      /\ t.activation_decision_ref = e.decision_ref
                      /\ IsAuthoritativeDecisionReference(e.authority_class) =>
                            e.decision_ref # NoRef
                      /\ e.authority_class = "advisory_inference" =>
                            \A d \in Held : chains[d].terrain = t =>
                                ~IsAuthoritativeDecisionReference(d.authority_class)
    BY DEF AdviceActivatesNothing
  <2> DEFINE t == chains[e].terrain
  <2>1. DefensiveEffectOK(e) /\ ChainOK(e)
    BY DEF IInv, TypeOK
  <2>2. t.activation_decision_ref = e.decision_ref
    BY <2>1 DEF ChainOK, EffectChainConsistent, TerrainBindsToEffect
  <2>3. \A d \in Held : IsAuthoritativeDecisionReference(d.authority_class) =>
                            d.decision_ref # NoRef
    BY DEF IInv, TypeOK, DefensiveEffectOK, IsAuthoritativeDecisionReference,
           CoerceAuthorityClass
  <2>4. ASSUME e.authority_class = "advisory_inference",
               NEW d \in Held, chains[d].terrain = t
        PROVE  ~IsAuthoritativeDecisionReference(d.authority_class)
    <3>1. e.decision_ref = NoRef
      BY <2>1, <2>4 DEF DefensiveEffectOK
    <3>2. d.decision_ref = e.decision_ref
      BY <2>4, SharedTerrain
    <3> QED BY <2>3, <3>1, <3>2
  <2> QED BY <2>2, <2>3, <2>4
<1>2. QED
  BY <1>1, Inductive, PTL

(* No chain reports its effect running after the effect's own expiry. *)
THEOREM LiveHasAnEnd == Spec => []LiveReportsEnd
<1>1. IInv => LiveReportsEnd
  BY DEF IInv, ChainOK, LiveReportsEnd, EffectObservationOK, ObservationWithinEffectWindow
<1>2. QED
  BY <1>1, Inductive, PTL

(* Envelope and terrain agree in every chain, whichever came first. *)
THEOREM EnvelopeAgrees == Spec => []PresentationAgrees
<1>1. IInv => PresentationAgrees
  BY DEF IInv, ChainOK, PresentationAgrees, EffectChainConsistent
<1>2. QED
  BY <1>1, Inductive, PTL

(* assert_effect_chain_consistent, of fewer records: it compares what is supplied
   and waits for nothing, so that no order of arrival is better than another. *)
THEOREM AnyOrderWillDo == Spec => []CollectableInAnyOrder
<1>1. IInv => CollectableInAnyOrder
  BY DEF IInv, ChainOK, CollectableInAnyOrder, EffectChainConsistent
<1>2. QED
  BY <1>1, Inductive, PTL
=============================================================================
