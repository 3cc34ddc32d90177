\* f(a;  -- expected to be violated.
SPECIFICATION Spec
CONSTANTS
  Sources <- UnclosedCall
PROPERTIES
  Terminates
CHECK_DEADLOCK FALSE
