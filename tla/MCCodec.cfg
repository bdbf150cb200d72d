\* Nine types, containers of up to two elements, messages of up to two arguments,
\* two of the types unpacked into variables that may hold something already.
CONSTANTS
  Payloads = {0, 1}
  Types <- MCTypes
  MaxItems = 2
  MaxArgs = 2
  Reused <- ReusedTypes
  Unset = Unset
SPECIFICATION Spec
INVARIANTS RoundTrip UnpackChecksSignature OldContentSurvives
CHECK_DEADLOCK FALSE
