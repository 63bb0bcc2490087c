------------------------------ MODULE WholeService ------------------------------
(***************************************************************************)
(* The whole service: the pull-request half and the directory half over    *)
(* one database and one pool of connections.  The requests of              *)
(* /pullRequest choose reviewers from the tables users and team_members    *)
(* while those of /team/add and /users change them, statement by statement *)
(* on both sides.                                                          *)
(*                                                                         *)
(* The pull-request half knows UpdateUserActive as a method and a new team *)
(* as one step.  What it sees of a request of the directory half follows   *)
(* from that request's state and is kept in its own variables.             *)
(***************************************************************************)
EXTENDS DirectoryService

CONSTANTS
  PRs, Existing,  \* as in the pull-request half
  Reviews,        \* the requests of /pullRequest, each with its own connection
  ReviewWorkload  \* the calls they may be

VARIABLES prs, pr_reviewers, prLock, userLock, clock, prTx, prOp, prPc, prErr, prMem

reviews == <<prs, pr_reviewers, prLock, userLock, clock, prTx, prOp, prPc, prErr, prMem>>

whole == <<vars, reviews>>

-----------------------------------------------------------------------------
(* What the pull-request half sees of the directory half: the state of a   *)
(* user and, of a request, the UpdateUserActive it starts with, if any.    *)

Seen(call) == [kind |-> "UpdateUserActive", pr |-> CHOOSE p \in PRs : TRUE,
               user |-> call.user, active |-> call.state = "active"]

Updates(r) == Plan(op[r].kind)[1] = "UpdateUserActive"
Updating(r) == Updates(r) /\ stage[r] = 1

SeenStep(r) ==
  IF Updating(r)
  THEN CASE pc[r] = "getUser" -> "user"
         [] pc[r] = "updateActive" -> "setActive"
         [] OTHER -> pc[r]
  ELSE IF Updates(r) THEN "done" ELSE "begin"

SeenError(r) == IF Updating(r) THEN err[r] ELSE "nil"

(* r has updated the state of its user and not committed it. *)
Wrote(r) == Updating(r) /\ pc[r] \in {"commit", "orphanCommit"}
SeenWrite(r) == IF Wrote(r) THEN op[r].state ELSE "absent"

Writers(u) == {r \in Requests : Wrote(r) /\ op[r].user = u}
Holder(u) == IF Writers(u) = {} THEN None ELSE CHOOSE r \in Writers(u) : TRUE

(* ReviewService, with what is proved of it, for the requests of both      *)
(* halves.                                                                 *)
PR == INSTANCE LifecycleProofs
      WITH Requests <- Reviews \union Requests,
           Workload <- ReviewWorkload \union {Seen(call) : call \in Workload},
           Directories <- {[users |-> [u \in Users |-> d.users[u].state],
                            members |-> d.members] : d \in Directories},
           NewTeams <- TeamsAsked,
           users <- States,
           tx <- prTx, op <- prOp, pc <- prPc, err <- prErr, mem <- prMem

ASSUME ReviewsAssumption ==
  /\ Reviews \intersect Requests = {} /\ IsFiniteSet(Reviews)
  /\ None \notin Reviews \union PRs
  /\ PRs # {}
  /\ ReviewWorkload \subseteq {call \in PR!Calls : call.kind # "UpdateUserActive"}

-----------------------------------------------------------------------------
WholeInit ==
  /\ Init
  /\ PR!Init
  /\ \A r \in Reviews : prOp[r] \in ReviewWorkload
  /\ \A r \in Requests : prOp[r] = Seen(op[r])

(* Mutation: a pool for each half. *)
OwnConnections == Connected

(* The requests of both halves that own a connection of the pool. *)
AllConnected ==
  Connected \union {r \in Reviews : prPc[r] \notin {"begin", "done", "orphan", "orphanCommit"}}

OnePool == Cardinality(AllConnected') <= MaxConns

(* A step of a request of /pullRequest. *)
ReviewStep(r) ==
  UNCHANGED vars /\ (PR!Step(r) \/ PR!Settle(r) \/ PR!CallFails(r)) /\ OnePool

(* What the pull-request half sees of a step of the request r of the       *)
(* directory half.                                                         *)
Shows(r) ==
  LET begins == SeenStep(r) = "begin" /\ SeenStep(r)' = "user"
  IN  /\ clock' = IF begins THEN clock + 1 ELSE clock
      /\ prTx' = [prTx EXCEPT ![r].began = IF begins THEN clock + 1 ELSE @,
                              ![r].user = SeenWrite(r)']
      /\ prPc' = [prPc EXCEPT ![r] = SeenStep(r)']
      /\ prErr' = [prErr EXCEPT ![r] = SeenError(r)']
      /\ userLock' = [u \in Users |-> Holder(u)']
      /\ UNCHANGED <<prs, pr_reviewers, prLock, prOp, prMem>>

DirectoryStep(r) ==
  (Step(r) \/ Settle(r) \/ CallFails(r)) /\ Shows(r) /\ OnePool

Over == Quiescent /\ \A r \in Reviews : prPc[r] = "done"

WholeNext ==
  \/ \E r \in Reviews : ReviewStep(r)
  \/ \E r \in Requests : DirectoryStep(r)
  \/ Over /\ UNCHANGED whole

WholeSpec == WholeInit /\ [][WholeNext]_whole

(* A goroutine that can run does run; PostgreSQL ends the transactions of  *)
(* connections that are gone and looks for deadlocks.  Which request of a  *)
(* circle it ends, and whether any call fails, is not assumed.             *)
FairWhole ==
  /\ WholeSpec
  /\ \A r \in Reviews : /\ WF_whole(UNCHANGED vars /\ PR!Step(r) /\ OnePool)
                        /\ WF_whole(UNCHANGED vars /\ PR!Settle(r) /\ OnePool)
  /\ \A r \in Requests : /\ WF_whole(Step(r) /\ Shows(r) /\ OnePool)
                         /\ WF_whole(Settle(r) /\ Shows(r) /\ OnePool)

-----------------------------------------------------------------------------
(* Properties. *)

(* What the pull-request half sees of a request of the other half is up to *)
(* date, and nobody but the one who has updated a user holds his row.      *)
Mirrored(r) ==
  /\ prOp[r] = Seen(op[r]) /\ prMem[r] = PR!Locals
  /\ prPc[r] = SeenStep(r) /\ prErr[r] = SeenError(r) /\ prTx[r].user = SeenWrite(r)
  /\ Updating(r) /\ pc[r] \in {"begin", "getUser", "updateActive", "commit"} =>
       err[r] = "nil"

Together ==
  /\ \A r \in Requests : Mirrored(r)
  /\ \A r \in Reviews : prOp[r] \in ReviewWorkload
  /\ userLock = [u \in Users |-> Holder(u)]
  /\ \A p \in PRs : prLock[p] \notin Requests

(* A reviewer is not the author, and both are members of a team that       *)
(* exists.  If he is inactive, a request that asked for it has ended: he   *)
(* was active when the pull-request half chose him, although it locks no   *)
(* user and may choose while a team is half inserted.                      *)
ReviewersFitDirectory ==
  \A p \in PRs : \A u \in PR!Reviewers(pr_reviewers[p]) :
    /\ u # prs[p].author
    /\ \E t \in teams : {<<t, u>>, <<t, prs[p].author>>} \subseteq team_members
    /\ users[u].state # "active" => Askers(u, "inactive") # {}

(* The pull-request half is ReviewService also where the other half runs   *)
(* statement by statement beside it: everything it allows for, a locked    *)
(* row of a user, a new team, a broken call, is all that happens to it.    *)
ImplementsReviews == PR!Spec

(* Every request of either half is answered and gives back its connection  *)
(* and its rows, out of a deadlock too and whichever calls fail, when all  *)
(* share one pool.                                                         *)
EveryRequestEnds ==
  <>[](/\ \A r \in Requests : pc[r] = "done" /\ tx[r] = NoTx
       /\ \A r \in Reviews : prPc[r] = "done" /\ \A p \in PRs : prLock[p] # r)
==============================================================================
