SPECIFICATION Spec
CONSTANTS
  Keys <- mcKeys
  Probes <- mcProbes
  SeekOps = {"=", ">", ">=", "<", "<=", "^", "$"}
  NULL = NULL
  Values = {NULL, v}
INVARIANTS TreeSound
PROPERTIES ImplementsOrderedMap
