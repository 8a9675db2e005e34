SPECIFICATION Spec
CONSTANT Workflow <- RepeatedElse
INVARIANT SelectionRespected
