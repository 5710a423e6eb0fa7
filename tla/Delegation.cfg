SPECIFICATION Spec
CONSTANTS
  Keys = {x, y}
  Autocommit = autocommit
SYMMETRY Interchangeable
INVARIANTS NothingIsLeftOpen NoOptionIsDropped OneServer NativeAnswerStands
