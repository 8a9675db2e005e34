SPECIFICATION Spec
CONSTANT Workflow <- Shapes
INVARIANTS NeverStuck CountersExact OrderKept SelectionRespected IterationsExact BracketsMatch
