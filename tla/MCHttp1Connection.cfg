SPECIFICATION FairSpec
CONSTANTS
  Scripts <- SomeScripts
  Answers <- SomeAnswers
  ReadSize = 2
INVARIANTS
  InSync
  BodyIntact
  ResponsesFramed
PROPERTIES
  RequestAnswered
CHECK_DEADLOCK FALSE
