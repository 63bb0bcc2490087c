-------------------------------- MODULE HttpApi --------------------------------
(***************************************************************************)
(* The pull-request endpoints: how the handlers of                         *)
(* internal/infrastructure/http/handlers/pr turn the result of the service *)
(* into a status, an error code and, for /pullRequest/reassign, the field  *)
(* replaced_by.  Decoding and validating the body come before the service  *)
(* is called and are left out: every request here is well formed.          *)
(***************************************************************************)
EXTENDS ReviewService

Routed == {"CreatePR", "MergePR", "ReassignReviewer"}

NotFound == [CreatePR |-> {"ErrUserNotFound", "ErrTeamNotFound"},
             MergePR |-> {"ErrPRNotFound"},
             ReassignReviewer |-> {"ErrPRNotFound", "ErrUserNotFound"}]

(* Mutation: PR_EXISTS is forgotten. *)
ConflictButExists == [CreatePR |-> {},
                      MergePR |-> {},
                      ReassignReviewer |-> {"ErrAlreadyMerged", "ErrReviewerNotAssigned",
                                            "ErrNoReplacementCandidates"}]

Conflict == [CreatePR |-> {"ErrPRExists"},
             MergePR |-> {},
             ReassignReviewer |-> {"ErrAlreadyMerged", "ErrReviewerNotAssigned",
                                   "ErrNoReplacementCandidates"}]

Success == [CreatePR |-> 201, MergePR |-> 200, ReassignReviewer |-> 200]

(* The switch over the service's error in every handler. *)
Status(r) ==
  CASE err[r] = "nil" -> Success[op[r].kind]
    [] err[r] \in NotFound[op[r].kind] -> 404
    [] err[r] \in Conflict[op[r].kind] -> 409
    [] OTHER -> 500

ConflictCode == [ErrAlreadyMerged |-> "PR_MERGED", ErrReviewerNotAssigned |-> "NOT_ASSIGNED",
                 ErrNoReplacementCandidates |-> "NO_CANDIDATE", ErrPRExists |-> "PR_EXISTS"]

(* utils.HTTPCodeConverter, for the statuses these handlers write. *)
HTTPCodeConverter(status, e) ==
  CASE status = 404 -> "NOT_FOUND"
    [] status = 409 /\ e \in DOMAIN ConflictCode -> ConflictCode[e]
    [] status = 409 /\ e \notin DOMAIN ConflictCode -> "CONFLICT"
    [] OTHER -> "INTERNAL"

(* The last of the reviewers in the answer of ReassignReviewer. *)
ReplacedBy(r) ==
  LET assigned == mem[r].reviewers
  IN  IF assigned = <<>> THEN None ELSE assigned[Len(assigned)]

HasAnswer(r, kind) == Is(r, kind) /\ Answered(r)

-----------------------------------------------------------------------------
(* docs/openapi.yml: the status and code a client is told of, by endpoint; *)
(* besides them only a failure of the infrastructure may be answered.      *)
Documented ==
  [CreatePR |-> {<<201, "">>, <<404, "NOT_FOUND">>, <<409, "PR_EXISTS">>},
   MergePR |-> {<<200, "">>, <<404, "NOT_FOUND">>},
   ReassignReviewer |-> {<<200, "">>, <<404, "NOT_FOUND">>, <<409, "PR_MERGED">>,
                         <<409, "NOT_ASSIGNED">>, <<409, "NO_CANDIDATE">>}]

Answer(r) ==
  <<Status(r), IF err[r] = "nil" THEN "" ELSE HTTPCodeConverter(Status(r), err[r])>>

(* The teams of u, if any, were added while the service ran. *)
NewInTeams(u) ==
  \A t \in Teams : <<t, u>> \in team_members =>
    \E new \in NewTeams : new.team = t /\ u \in new.members

(* No interleaving of calls makes an endpoint answer what its              *)
(* documentation does not list, with one exception: an author who was in   *)
(* no team, save one that was added meanwhile, is answered with 500 where  *)
(* 404 is documented.                                                      *)
UndocumentedOnlyWithoutTeam ==
  \A r \in Requests : \A k \in Routed :
    HasAnswer(r, k) /\ err[r] # "ErrInternal" /\ Answer(r) \notin Documented[k] =>
      k = "CreatePR" /\ Answer(r) = <<500, "INTERNAL">> /\ NewInTeams(op[r].user)

(* docs/openapi.yml: replaced_by is the user_id of the new reviewer. *)
ReplacedByIsTheNewReviewer ==
  \A r \in Requests :
    HasAnswer(r, "ReassignReviewer") /\ err[r] = "nil" =>
      ReplacedBy(r) = mem[r].selected[1]

(* q is over and may have put reviewers on the pull request p: it          *)
(* succeeded, or its COMMIT was in doubt.                                  *)
HasAssigned(q, p) ==
  /\ Is(q, "CreatePR") \/ Is(q, "ReassignReviewer")
  /\ op[q].pr = p /\ pc[q] = "done" /\ err[q] \in {"nil", "ErrInternal"}

(* replaced_by names somebody else only when another request, which began  *)
(* its transaction later, was quicker to lock the pull request, be it for  *)
(* a reassignment or to create it.                                         *)
ReplacedByWrongOnlyIfOvertaken ==
  \A r \in Requests :
    HasAnswer(r, "ReassignReviewer") /\ err[r] = "nil"
        /\ ReplacedBy(r) # mem[r].selected[1] =>
      \E q \in Requests : HasAssigned(q, op[r].pr) /\ tx[q].began > tx[r].began
==============================================================================
