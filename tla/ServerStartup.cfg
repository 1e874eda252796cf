SPECIFICATION Spec
CONSTANTS
  Threads = {t1, t2, t3}
  Main = main
  NoThread = NoThread
  Clients = {c1, c2}
INVARIANTS IInv BackendsFollowTheListener
PROPERTIES BoundForGood ListensOrEnds ConnectionsAreTaken
