SPECIFICATION Spec
CONSTANTS
    None = None
    EffectInputs <- MCEffectInputs
    ObservationInputs <- MCObservationInputs
    EnvelopeInputs <- MCEnvelopeInputs
    TerrainInputs <- MCTerrainInputs
    MaxChains = 2
    MaxObservations = 2
INVARIANT TracedRecordsStayApart
INVARIANT TerrainHasOneOrigin
INVARIANT AdviceActivatesNothing
INVARIANT LiveReportsEnd
INVARIANT CollectableInAnyOrder
