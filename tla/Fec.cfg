SPECIFICATION Spec
CONSTANTS
    Payloads <- SomePayloads
    LateRatios = {0, 2, 5, 10, 20}
    Extras = {0, 3}
    Probes = {0, 2}
    Losses <- SomeLosses
    MaxArrived <- FewArrived
INVARIANTS DecodedExactly FailsOnlyWithGaps
PROPERTY StageSettles
