CONSTANTS
  Headings <- MCHeadings
  Errors <- MCErrors
SPECIFICATION OrientationSpec
INVARIANTS
  AngleIsShortest OneTurnIsEnough
