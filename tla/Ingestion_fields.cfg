SPECIFICATION Spec
CONSTANTS
  Sizes = {0, 1, 14, 300}
INVARIANTS TypeOK GeneratedEventsFit FatalForAReason RefusedForAReason
