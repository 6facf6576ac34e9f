SPECIFICATION Spec
CONSTANTS
  Target = 3297
  Chips <- MCChips
  Factory = 90
  Leftovers = {0, 200}
INVARIANT Tuned
INVARIANT WithinSpec
