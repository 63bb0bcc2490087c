CONSTANTS
  a = a  b = b  c = c  t1 = t1  t2 = t2  t3 = t3  ann = ann  p1 = p1 
  q1 = q1  r1 = r1  r2 = r2  None = None
  Users = {a, b, c}
  Teams = {t1, t2, t3}
  Names = {ann}
  Requests = {r1, r2}
  Reviews = {q1}
  PRs = {p1}
  Existing = {}
  MaxConns = 2
  Directories <- Pair1
  Workload <- DirectoryCalls
  ReviewWorkload <- ReviewCalls
SPECIFICATION FairWhole
INVARIANT ReviewersFitDirectory
PROPERTIES ImplementsReviews ImplementsMembership EveryRequestEnds
