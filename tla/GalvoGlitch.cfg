SPECIFICATION Spec
CONSTANTS
  circle = circle
  square = square
  N = 2
  Patterns = {circle, square}
  Points = {center, corner}
  Center = center
  Corner = corner
  NoPattern = none
  FillSwaps = 1
  Total <- MCTotal
INVARIANTS
  GlitchFree

