SPECIFICATION Spec
CONSTANTS
  Class = {"A", "B"}
  File = {"p/A", "p/B", "q/A"}
  Jars <- SmallJars
  NoClass = "none"
  Threshold = 1
  MaxElapsed = 2
INVARIANTS TypeOK CountsAddUp FilesMatchCount
PROPERTIES NoWarningAfterSummary StallReported Returns
