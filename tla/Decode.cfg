CONSTANT Weights = {0, 1, 2, 3}
SPECIFICATION Spec
INVARIANTS DecodeInvertsEncode DispatchMatchesManual HandlerTakesItsFormat
