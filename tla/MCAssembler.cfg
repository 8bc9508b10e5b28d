CONSTANTS
  Programs <- Sections
  Policy = {"push4", "minimal"}
SPECIFICATION FairSpec
INVARIANTS LabelsExact SymbolsExact
PROPERTIES Terminates
CHECK_DEADLOCK FALSE
