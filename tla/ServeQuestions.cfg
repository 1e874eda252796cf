SPECIFICATION Spec
CONSTANTS
  Names <- MCNames
  LowerCase <- MCLowerCase
  Glbs = {g1, g2}
  NoGlb = NoGlb
  Sessions = {s1}
  NoThread = NoThread
  Commands <- ServeCommands
  MaxCommands = 3
  Backends = {b1}
  Questions <- ServeQuestions
  MaxQueries = 3
  MaxAnswers = 8
INVARIANTS NsAnswersComeFromOneList SoaRecordFitsItsDomain AddressesBelongToTheQuestion
PROPERTY QuestionsEnd
