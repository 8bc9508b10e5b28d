CONSTANTS
  Modules <- MCModules
  MaxModules = 3
SPECIFICATION Spec
INVARIANTS LinkedMeansTheSame LinksIffConsistent CyclesFound ArtifactsComplete
PROPERTIES OneDefinitionRule
CHECK_DEADLOCK FALSE
