----------------------------- MODULE Repositories -----------------------------
(***************************************************************************)
(* The repositories of internal/infrastructure/persistence/postgres: one   *)
(* action per SQL statement.  A repository method with two statements is   *)
(* two actions, and other transactions may commit in between.  label is    *)
(* the step of the caller that follows when the statement succeeds; on an  *)
(* error every caller returns at once, through its deferred Rollback.  The *)
(* actions that do not constrain mem' leave it to the caller.              *)
(***************************************************************************)
EXTENDS Store, Functions

At(r, label) == pc[r] = label

Goto(r, label) == pc' = [pc EXCEPT ![r] = label] /\ UNCHANGED err

(* The caller's "if err != nil { return }". *)
Verdict(r, e, label) ==
  /\ err' = [err EXCEPT ![r] = e]
  /\ pc' = [pc EXCEPT ![r] = IF e = "nil" THEN label ELSE "rollback"]

(* What a SELECT without FOR UPDATE leaves alone. *)
ReadOnly == UNCHANGED <<users, team_members, prs, pr_reviewers,
                        prLock, userLock, tx, clock, op>>

(* What a write leaves alone: it goes to tx[r] and takes a lock. *)
Private == UNCHANGED <<users, team_members, prs, pr_reviewers, clock, op>>

-----------------------------------------------------------------------------
(* user/repository.go *)

GetUserByID(r, u, label) ==
  /\ Verdict(r, IF users[u] = "absent" THEN "ErrUserNotFound" ELSE "nil", label)
  /\ ReadOnly /\ UNCHANGED mem

(* LIMIT 1 without ORDER BY: any team of the user. *)
GetTeamIDByUserID(r, u, label) ==
  LET teams == {t \in Teams : <<t, u>> \in team_members}
  IN  /\ Verdict(r, IF teams = {} THEN "ErrUserNoTeam" ELSE "nil", label)
      /\ \E t \in IF teams = {} THEN {None} ELSE teams :
           mem' = [mem EXCEPT ![r].team = t]
      /\ ReadOnly

(* Mutation: the WHERE clause loses a condition. *)
ListAllMembers(t) == {u \in Users : <<t, u>> \in team_members}

(* The result of the join, evaluated at the instant of the statement. *)
ListActiveMembersByTeamID(t) ==
  {u \in Users : <<t, u>> \in team_members /\ users[u] = "active"}

UpdateUserActive(r, u, active, label) ==
  /\ userLock[u] \in {None, r}
  /\ Verdict(r, IF users[u] = "absent" THEN "ErrUserNotFound" ELSE "nil", label)
  /\ IF users[u] = "absent" THEN UNCHANGED <<tx, userLock>>
     ELSE /\ tx' = [tx EXCEPT ![r].user = IF active THEN "active" ELSE "inactive"]
          /\ userLock' = [userLock EXCEPT ![u] = r]
  /\ Private /\ UNCHANGED <<prLock, mem>>

-----------------------------------------------------------------------------
(* pr/repository.go *)

(* Mutation: an upsert, ON CONFLICT (id) DO UPDATE. *)
UpsertPR(r, author, label) ==
  LET row == [author |-> author, status |-> "OPEN", merged_at |-> None]
  IN  /\ prLock[op[r].pr] \in {None, r}
      /\ Verdict(r, "nil", label)
      /\ tx' = [tx EXCEPT ![r].row = row]
      /\ prLock' = [prLock EXCEPT ![op[r].pr] = r]
      /\ mem' = [mem EXCEPT ![r].row = row]
      /\ Private /\ UNCHANGED userLock

(* Mutation: a status the CHECK constraint does not know. *)
InsertDraftPR(r, author, label) ==
  LET row == [author |-> author, status |-> "DRAFT", merged_at |-> None]
  IN  /\ prs[op[r].pr].status = "NONE" /\ prLock[op[r].pr] \in {None, r}
      /\ Verdict(r, "nil", label)
      /\ tx' = [tx EXCEPT ![r].row = row]
      /\ prLock' = [prLock EXCEPT ![op[r].pr] = r]
      /\ mem' = [mem EXCEPT ![r].row = row]
      /\ Private /\ UNCHANGED userLock

(* The INSERT of CreatePR.  A committed row with the key fails it at once; *)
(* an uncommitted one makes it wait for the other transaction's end.       *)
InsertPR(r, author, label) ==
  LET p == op[r].pr
      e == IF prs[p].status # "NONE" THEN "ErrPRExists"
           ELSE IF users[author] = "absent" THEN "ErrUserNotFound" ELSE "nil"
      row == [author |-> author, status |-> "OPEN", merged_at |-> None]
  IN  /\ prs[p].status # "NONE" \/ prLock[p] \in {None, r}
      /\ Verdict(r, e, label)
      /\ IF e = "nil"
         THEN /\ tx' = [tx EXCEPT ![r].row = row]
              /\ prLock' = [prLock EXCEPT ![p] = r]
              /\ mem' = [mem EXCEPT ![r].row = row]
         ELSE UNCHANGED <<tx, prLock, mem>>
      /\ Private /\ UNCHANGED userLock

(* Mutation: no ORDER BY. *)
LoadReviewersUnordered(r) ==
  LET ids == Reviewers(Assigned(r))
  IN  Surjection(1 .. Cardinality(ids), ids)

(* loadReviewers: the reviewers in the order of assigned_at, where rows of *)
(* the same transaction tie.  The set of the slices it may return.         *)
LoadReviewers(r) ==
  LET at == Assigned(r)
      ids == Reviewers(at)
  IN  {s \in Surjection(1 .. Cardinality(ids), ids) :
         \A i, j \in DOMAIN s : i < j => at[s[i]] <= at[s[j]]}

(* The first statement of GetPRByID. *)
SelectPR(r, label) ==
  /\ Verdict(r, IF Row(r).status = "NONE" THEN "ErrPRNotFound" ELSE "nil", label)
  /\ mem' = [mem EXCEPT ![r].row = Row(r)]
  /\ ReadOnly

(* The first statement of LockPRByID, SELECT ... FOR UPDATE: it waits for  *)
(* the holder of a visible row and then reads the row's latest version.    *)
SelectPRForUpdate(r, label) ==
  LET p == op[r].pr
      found == prs[p].status # "NONE"
  IN  /\ found => prLock[p] \in {None, r}
      /\ Verdict(r, IF found THEN "nil" ELSE "ErrPRNotFound", label)
      /\ prLock' = IF found THEN [prLock EXCEPT ![p] = r] ELSE prLock
      /\ mem' = [mem EXCEPT ![r].row = prs[p]]
      /\ Private /\ UNCHANGED <<userLock, tx>>

(* CountReviewersByPRID with the test AddReviewer makes of its result. *)
CountReviewersByPRID(r, label) ==
  /\ Verdict(r, IF Cardinality(Reviewers(Assigned(r))) >= 2
                THEN "ErrTooManyReviewers" ELSE "nil", label)
  /\ ReadOnly /\ UNCHANGED mem

(* A row of pr_reviewers that another transaction has written and not      *)
(* committed.                                                              *)
Contended(r, u) ==
  \E q \in Requests \ {r} :
    op[q].pr = op[r].pr /\ u \in tx[q].added \union tx[q].removed

(* The INSERT of AddReviewer. *)
AddReviewer(r, u, label) ==
  LET e == IF Assigned(r)[u] # 0 THEN "ErrReviewerAlreadyAssigned"
           ELSE IF Row(r).status = "NONE" THEN "ErrPRNotFound"
           ELSE IF users[u] = "absent" THEN "ErrUserNotFound" ELSE "nil"
  IN  /\ ~Contended(r, u)
      /\ Verdict(r, e, label)
      /\ tx' = IF e = "nil" THEN [tx EXCEPT ![r].added = @ \union {u}] ELSE tx
      /\ Private /\ UNCHANGED <<prLock, userLock>>

(* The writes t of a transaction after it has also deleted the row of u. *)
Deleted(t, u) == [t EXCEPT !.added = @ \ {u}, !.removed = @ \union {u}]

(* The DELETE of RemoveReviewer. *)
RemoveReviewer(r, u, label) ==
  /\ ~Contended(r, u)
  /\ Verdict(r, IF Assigned(r)[u] = 0 THEN "ErrReviewerNotAssigned" ELSE "nil", label)
  /\ tx' = IF Assigned(r)[u] = 0 THEN tx
           ELSE [tx EXCEPT ![r] = Deleted(@, u)]
  /\ Private /\ UNCHANGED <<prLock, userLock, mem>>

(* UPDATE prs ... WHERE id = @id AND status != 'MERGED', and the existence *)
(* check that tells the two reasons for an empty result apart.             *)
UpdateStatus(r, label) ==
  LET p == op[r].pr
      e == IF Row(r).status = "NONE" THEN "ErrPRNotFound"
           ELSE IF Row(r).status = "MERGED" THEN "ErrAlreadyMerged" ELSE "nil"
      row == [Row(r) EXCEPT !.status = "MERGED", !.merged_at = r]
  IN  /\ e = "nil" => prLock[p] \in {None, r}
      /\ Verdict(r, e, label)
      /\ IF e = "nil"
         THEN /\ tx' = [tx EXCEPT ![r].row = row]
              /\ prLock' = [prLock EXCEPT ![p] = r]
         ELSE UNCHANGED <<tx, prLock>>
      /\ Private /\ UNCHANGED userLock
==============================================================================
