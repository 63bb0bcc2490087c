CONSTANTS
  a = a  b = b  t1 = t1  t2 = t2  ann = ann  bob = bob
  r1 = r1  r2 = r2  r3 = r3  None = None
  Users = {a, b}
  Teams = {t1, t2}
  Names = {ann, bob}
  Requests = {r1, r2}
  MaxConns = 2
  Directories <- JustNobody
  Workload <- NewMemberCalls
SPECIFICATION Spec
INVARIANTS AddTeamCreatesOrUpdates
