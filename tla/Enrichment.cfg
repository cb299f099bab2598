SPECIFICATION Spec
CONSTANTS
    Sources <- MCSources
    CrossFKs <- MCCrossFKs
    Initial <- MCInitial
    Pipelines <- MCPipelines
    QueryAnswers <- MCQueryAnswers
    TransformAnswers <- MCTransformAnswers
    Endpoints <- MCEndpoints
    WriteAnswers <- MCWriteAnswers
    Columns <- MCColumns
    SchemaFKs <- MCSchemaFKs
INVARIANTS FieldsDelivered ColumnsFilled PrecedenceKept ChecksAgree
CHECK_DEADLOCK FALSE
