SPECIFICATION Spec
INVARIANTS DoorsAgree RowsTellWhatHappened RefusedInputsAskNothing
CHECK_DEADLOCK FALSE
