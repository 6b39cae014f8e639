SPECIFICATION Spec
CONSTANTS
  None = None
  c1 = c1
  c2 = c2
  c3 = c3
  t1 = t1
  t2 = t2
  t3 = t3
  u1 = u1
  Commits = {c1, c2, c3}
  TagObjects = {t1, t2, t3, u1}
  Target <- MCTarget
  Named <- MCNamed
  Declares <- MCDeclares
  Workflows = {"ci.yml", "codeql.yml"}
  Scenes <- MCScenes
PROPERTY
  GreenAtPublication
CHECK_DEADLOCK FALSE
