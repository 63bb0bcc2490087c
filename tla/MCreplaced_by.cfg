CONSTANTS
  a = a  b = b  c = c  d = d  t1 = t1  t2 = t2  p1 = p1
  r1 = r1  r2 = r2  r3 = r3  None = None
  Users = {a, b, c, d}
  Teams = {t1}
  PRs = {p1}
  Existing = {p1}
  Requests = {r1, r2}
  MaxConns = 2
  Directories <- OneTeam
  NewTeams <- NoTeam
  Workload <- ContentionCalls
SYMMETRY FullSymmetry
SPECIFICATION Spec
INVARIANTS ReplacedByIsTheNewReviewer
