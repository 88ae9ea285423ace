CONSTANTS
  d1 = d1
  m1 = m1
  m2 = m2
  contact = contact
  plain = plain
  Nothing = Nothing
  Document = {d1}
  Message = {m1, m2}
  Quote = {contact, plain}
  TextOf <- Texted
  Filtered <- Filter
  EvidenceId = {1, 2}
  FactId = {1}
  RETRY_BUDGET = 1
  HISTORY_LIMIT = 1
  MaxVersion = 3
SPECIFICATION Spec
CHECK_DEADLOCK FALSE
INVARIANTS
  EvidenceVerbatim
PROPERTIES
  ModelKeepsFacts
  CallsEnd
