SPECIFICATION Spec
CONSTANTS
  Names <- MCNames
  LowerCase <- MCLowerCase
  Glbs = {g1}
  NoGlb = NoGlb
  Sessions = {s1}
  NoThread = NoThread
  Commands <- MapCommands
  MaxCommands = 1
  Backends = {b1}
  Questions <- MapQuestions
  MaxQueries = 1
  MaxAnswers = 8
PROPERTY LookupLocksTheMap
