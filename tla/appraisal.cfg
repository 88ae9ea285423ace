CONSTANTS
  Requirement <- Requirements
  Fact <- Facts
  Policy <- Policies
  Says <- Quotes
  Text <- Texts
  AsOf = 6
  MaxDraft = 2
  MaxFacts = 3
  MaxGaps = 2
SPECIFICATION Spec
CHECK_DEADLOCK FALSE
INVARIANTS
  AssessmentsRestOnFacts
  ScoreIsCoverage
  ReportHonest
  ReporterDecides
