SPECIFICATION Spec
CONSTANT Gates <- MCGates
INVARIANT AllOpenWhenIdle
\* A lost mutex, or a main that waits for ever, is a stop of this code.
CHECK_DEADLOCK FALSE
