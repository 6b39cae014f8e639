SPECIFICATION Spec
CONSTANTS
  None = None
  Stopped = Stopped
  c1 = c1
  c2 = c2
  ofCommit = ofCommit
  ofBlob = ofBlob
  ofTree = ofTree
  t1 = t1
  t2 = t2
  t3 = t3
  good = good
  bad = bad
  big = big
  readme = readme
  project = project
  Commits = {c1, c2}
  Tags = {ofCommit, ofBlob, ofTree}
  Trees = {t1, t2, t3}
  Blobs = {good, bad, big}
  Paths = {readme, project}
  TreeOf <- MCTreeOf
  ParentsOf <- MCParentsOf
  TargetOf <- MCTargetOf
  Content <- MCContent
  Naming <- MCNaming
  Repositories <- MCRepositories
INVARIANT
  EveryReachablePathScanned
CHECK_DEADLOCK FALSE
