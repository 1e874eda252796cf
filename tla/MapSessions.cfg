SPECIFICATION Spec
CONSTANTS
  Names <- MCNames
  LowerCase <- MCLowerCase
  Glbs = {g1, g2, g3}
  NoGlb = NoGlb
  Sessions = {s1, s2}
  NoThread = NoThread
  Commands <- MapCommands
  MaxCommands = 4
  Backends = {b1}
  Questions <- MapQuestions
  MaxQueries = 1
  MaxAnswers = 8
INVARIANTS SystemInv IteratorsStayValid ContainersKeepTheirName
PROPERTIES NeverReplacedNorRevived ImplementsRegistry CommandsAreAnswered
