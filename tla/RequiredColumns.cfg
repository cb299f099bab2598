SPECIFICATION Spec
CONSTANTS
    Sources <- MCSources
    CrossFKs <- MCCrossFKs
    Initial <- MCInitial
    Pipelines <- MCPipelines
    QueryAnswers <- MCQueryAnswers
    TransformAnswers <- MCTransformAnswers
    Endpoints <- MCEndpoints
    WriteAnswers <- MCWriteAnswers
    Columns <- MCColumns
    SchemaFKs <- MCSchemaFKs
INVARIANT RequiredBlocks
CHECK_DEADLOCK FALSE
