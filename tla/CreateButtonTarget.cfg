\* The target cluster of Create / Apply stays among the selected clusters.
CONSTANTS
  c1 = c1
  c2 = c2
  None = None
  Selections <- MC_Selections
SPECIFICATION Spec
INVARIANT TargetSelected
