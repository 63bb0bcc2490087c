----------------------------- MODULE ReviewService -----------------------------
(***************************************************************************)
(* The pull-request and user services over one database: any number of     *)
(* requests in progress at once, each one at some step of its call.        *)
(***************************************************************************)
EXTENDS PRService, UserService

(* The first step after uow.Begin of every call. *)
FirstStep ==
  [CreatePR |-> "author", ReassignReviewer |-> "lock", MergePR |-> "lock",
   GetPR |-> "reload", UpdateUserActive |-> "user"]

Steps == {"begin", "author", "team", "candidates", "insert", "count", "assign",
          "lock", "reviewers", "remove", "reload", "reloaded", "update",
          "user", "setActive", "commit", "rollback",
          "orphan", "orphanCommit", "done"}

Errors == {"nil", "ErrUserNotFound", "ErrUserNoTeam", "ErrPRExists", "ErrPRNotFound",
           "ErrTooManyReviewers", "ErrReviewerAlreadyAssigned",
           "ErrReviewerNotAssigned", "ErrNoReplacementCandidates",
           "ErrAlreadyMerged", "ErrInternal"}

(* What an earlier CreatePR by a, committed at instant 1, left behind.     *)
Earlier(assigned, a) ==
  \E t \in Teams : <<t, a>> \in team_members /\
    \E s \in Select(FilterStrings(ListActiveMembersByTeamID(t), {a}), 2) :
      assigned = [u \in Users |-> IF ContainsString(s, u) THEN 1 ELSE 0]

Init ==
  /\ \E d \in Directories : users = d.users /\ team_members = d.members
  /\ prs \in [PRs -> {NoPR} \union
                {[author |-> a, status |-> "OPEN", merged_at |-> None] : a \in Users}]
  /\ \A p \in PRs : (prs[p] # NoPR) = (p \in Existing)
  /\ pr_reviewers \in [PRs -> [Users -> {0, 1}]]
  /\ \A p \in PRs : IF p \in Existing THEN Earlier(pr_reviewers[p], prs[p].author)
                    ELSE Reviewers(pr_reviewers[p]) = {}
  /\ prLock = [p \in PRs |-> None]
  /\ userLock = [u \in Users |-> None]
  /\ tx = [r \in Requests |-> NoTx]
  /\ clock = 1
  /\ op \in [Requests -> Workload]
  /\ pc = [r \in Requests |-> "begin"]
  /\ err = [r \in Requests |-> "nil"]
  /\ mem = [r \in Requests |-> Locals]

(* What the process and the database do of their own accord. *)
Step(r) ==
  \/ Begin(r, FirstStep[op[r].kind])
  \/ PRStep(r) \/ UserStep(r)
  \/ Commit(r) \/ Rollback(r)

Settle(r) == ServerAborts(r) \/ ServerCommits(r)

(* Every call has been answered and every transaction has ended. *)
Quiescent == \A r \in Requests : pc[r] = "done"

Next ==
  \/ \E r \in Requests : Step(r) \/ Settle(r) \/ CallFails(r)
  \/ \E new \in NewTeams : TeamAdded(new)
  \/ Quiescent /\ UNCHANGED vars

Spec == Init /\ [][Next]_vars

(* A goroutine that can run does run, PostgreSQL grants a row lock that is *)
(* free and ends the transactions of connections that are gone.  That      *)
(* calls fail is never assumed.                                            *)
FairSpec == Spec /\ \A r \in Requests : WF_vars(Step(r)) /\ WF_vars(Settle(r))

-----------------------------------------------------------------------------
(* Properties.                                                             *)

(* Type correctness of every variable. *)
TypeOK ==
  /\ users \in [Users -> UserRows]
  /\ team_members \in SUBSET (Teams \X Users)
  /\ prs \in [PRs -> PRRows]
  /\ pr_reviewers \in [PRs -> [Users -> Nat]]
  /\ prLock \in [PRs -> Requests \union {None}]
  /\ userLock \in [Users -> Requests \union {None}]
  /\ tx \in [Requests -> [began : Nat, row : PRRows, added : SUBSET Users,
                         removed : SUBSET Users, user : UserRows]]
  /\ clock \in Nat
  /\ op \in [Requests -> Calls]
  /\ pc \in [Requests -> Steps]
  /\ err \in [Requests -> Errors]
  /\ mem \in [Requests -> [row : PRRows, reviewers : Seq(Users),
                          team : Teams \union {None}, selected : Seq(Users),
                          next : Nat]]

(* A request that has begun to work on a pull request it wants to change:  *)
(* past the lock of LockPRByID, or past its own INSERT.                    *)
Holding(r) ==
  \/ Is(r, "MergePR") /\ pc[r] \in {"reviewers", "update", "commit"}
  \/ /\ Is(r, "ReassignReviewer")
     /\ pc[r] \in {"reviewers", "team", "candidates", "remove", "count",
                   "assign", "reload", "reloaded", "commit"}
  \/ Is(r, "CreatePR") /\ pc[r] \in {"count", "assign", "commit"}

(* Everything ReassignReviewer and MergePR decide, they decide from the    *)
(* PullRequest they read at the start: until they commit, the tables still *)
(* say what they read.  And what is about to be answered is what is about  *)
(* to be committed, reviewers included.                                    *)
RememberedIsCurrent ==
  \A r \in Requests : Holding(r) =>
    /\ mem[r].row = Row(r)
    /\ pc[r] = "commit" => Range(mem[r].reviewers) = Reviewers(Assigned(r))
    /\ Is(r, "ReassignReviewer") /\ pc[r] \notin {"reviewers", "commit"} =>
         Range(mem[r].reviewers) = Reviewers(pr_reviewers[op[r].pr])

(* A merged pull request never changes again: neither a reassignment that  *)
(* was in progress, nor a second merge, nor a commit the client was told   *)
(* had failed.                                                             *)
MergedIsFinal ==
  [][\A p \in PRs : prs[p].status = "MERGED" =>
       /\ prs'[p] = prs[p]
       /\ pr_reviewers'[p] = pr_reviewers[p]]_vars

(* The service implements the life cycle of PullRequests: what it commits  *)
(* is a creation, a one-for-one replacement or a merge, each at one        *)
(* instant, whatever runs at the same time and whichever calls fail.       *)
Lifecycle == INSTANCE PullRequests
             WITH Merges <- Requests, pull <- prs,
                  reviewers <- [p \in PRs |-> Reviewers(pr_reviewers[p])]

ImplementsLifecycle == Lifecycle!Spec

Answered(r) == pc[r] \in {"done", "orphan", "orphanCommit"}

(* Every answer that says MERGED, be it of a merge, a repeated merge or a  *)
(* GetPR made of two statements, carries the reviewers and the merged_at   *)
(* the pull request has for ever.                                          *)
MergedAnswersAreFinal ==
  \A r \in Requests :
    Answered(r) /\ err[r] = "nil" /\ mem[r].row.status = "MERGED" =>
      /\ mem[r].row = prs[op[r].pr]
      /\ Range(mem[r].reviewers) = Reviewers(pr_reviewers[op[r].pr])

(* The errors that the tests inside the transaction make impossible, and   *)
(* which the handlers would answer with 500, never happen: a merge does    *)
(* not find the pull request merged behind its back, no INSERT of a        *)
(* reviewer meets a full or duplicate list, and no DELETE misses the row   *)
(* of a reviewer that the call has just read.                              *)
NoSpuriousError ==
  \A r \in Requests :
    /\ err[r] \notin {"ErrTooManyReviewers", "ErrReviewerAlreadyAssigned"}
    /\ Is(r, "MergePR") => err[r] # "ErrAlreadyMerged"
    /\ err[r] = "ErrReviewerNotAssigned" => op[r].user \notin Range(mem[r].reviewers)

(* u may review for author: he is somebody else and shares a team with     *)
(* him; when he is inactive, a call that deactivates him has begun, or a   *)
(* team was added with him as inactive.                                    *)
Eligible(u, author) ==
  /\ u # author
  /\ \E t \in Teams : {<<t, u>>, <<t, author>>} \subseteq team_members
  /\ users[u] # "active" =>
       \/ \E q \in Requests : /\ Is(q, "UpdateUserActive") /\ op[q].user = u
                              /\ ~op[q].active /\ pc[q] # "begin"
       \/ \E new \in NewTeams : /\ u \in new.members /\ new.state[u] = "inactive"
                                /\ <<new.team, u>> \in team_members

(* A reviewer is never the author and shares a team with him, with any     *)
(* number of teams per user and while teams are added; and one who is      *)
(* inactive was not so all along.                                          *)
ReviewersAreEligible ==
  \A p \in PRs : \A u \in Reviewers(pr_reviewers[p]) : Eligible(u, prs[p].author)

(* Of the concurrent creations of one pull request at most one succeeds,   *)
(* none when it existed, and the row is the one that it answered with.     *)
CreatedOnce ==
  \A r \in Requests :
    Is(r, "CreatePR") /\ Answered(r) /\ err[r] = "nil" =>
      /\ op[r].pr \notin Existing
      /\ prs[op[r].pr].author = op[r].user
      /\ \A q \in Requests \ {r} :
           ~(Is(q, "CreatePR") /\ op[q].pr = op[r].pr /\ Answered(q) /\ err[q] = "nil")

(* Every call returns and its locks and connection are given back, however *)
(* many calls wait for the same row or for the pool, and whichever fail.   *)
EveryCallEnds ==
  \A r \in Requests : <>[](pc[r] = "done" /\ \A p \in PRs : prLock[p] # r)

(* README.md: only active users can be assigned.  Stated of the instant a  *)
(* reviewer becomes visible to others.                                     *)
OnlyActiveAssigned ==
  [][\A p \in PRs : \A u \in Users :
       pr_reviewers[p][u] = 0 /\ pr_reviewers'[p][u] # 0 => users[u] = "active"]_vars

(* README.md: the replacement comes from the team of the replaced          *)
(* reviewer.                                                               *)
ReplacementFromHisTeam ==
  \A r \in Requests :
    Is(r, "ReassignReviewer") /\ pc[r] = "commit" =>
      \E t \in Teams : {<<t, op[r].user>>, <<t, mem[r].selected[1]>>} \subseteq team_members
==============================================================================
