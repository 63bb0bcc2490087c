-------------------------------- MODULE Store --------------------------------
(***************************************************************************)
(* The PostgreSQL database of migrations/000001_init_tables.up.sql behind  *)
(* the unit of work of internal/infrastructure/persistence/postgres/uow.   *)
(*                                                                         *)
(* Every request of the service runs one transaction at READ COMMITTED,    *)
(* the default level: pool.Begin passes no options.  A statement sees the  *)
(* committed tables overlaid with its own transaction's writes; a write    *)
(* waits for another transaction's uncommitted version of the same row.    *)
(* The locks of a transaction go when the server ends it.                  *)
(***************************************************************************)
EXTENDS Naturals, Sequences, FiniteSets

CONSTANTS
  Users, Teams, PRs,  \* primary keys of users, teams and prs
  Requests,           \* calls of the service, each with its own transaction
  Workload,           \* the calls a request may be
  Directories,        \* contents of users and team_members at the start
  NewTeams,           \* the teams /team/add may create, with their members
  Existing,           \* the pull requests created before the start
  MaxConns,           \* size of the pgxpool
  None                \* SQL NULL, and "nobody" as the holder of a lock

Kinds == {"CreatePR", "ReassignReviewer", "MergePR", "GetPR", "UpdateUserActive"}

(* A call with its arguments: user is the author, the old reviewer or the  *)
(* user to (de)activate.  A call ignores the arguments it does not have.   *)
Calls == [kind : Kinds, pr : PRs, user : Users, active : BOOLEAN]

(* A row of users reduced to its existence and to is_active.               *)
UserRows == {"absent", "active", "inactive"}

PRRows == [author : Users \union {None},
           status : {"NONE", "OPEN", "MERGED"},
           merged_at : Requests \union {None}]

(* The value of prs[p] when the table has no row for p.                    *)
NoPR == [author |-> None, status |-> "NONE", merged_at |-> None]

ASSUME NullAssumption ==
  None \notin Users \union Teams \union PRs \union Requests

ASSUME FiniteAssumption == IsFiniteSet(Users) /\ IsFiniteSet(Requests)

ASSUME WorkloadAssumption == Workload \subseteq Calls

ASSUME DirectoryAssumption ==
  Directories \subseteq [users : [Users -> UserRows],
                         members : SUBSET (Teams \X Users)]

ASSUME NewTeamsAssumption ==
  NewTeams \subseteq [team : Teams, members : SUBSET Users,
                     state : [Users -> {"active", "inactive"}]]

ASSUME PoolAssumption == MaxConns \in Nat \ {0}

VARIABLES
  users,         \* table users: [Users -> UserRows]
  team_members,  \* table team_members: a set of <<team, user>>
  prs,           \* table prs: [PRs -> PRRows]
  pr_reviewers,  \* table pr_reviewers: assigned_at by PR and user, 0: no row
  prLock,        \* who holds the row, or the uncommitted key, of a PR
  userLock,      \* who holds the row of a user
  tx,            \* what each transaction has written and not committed
  clock,         \* the server's clock, as far as it orders transactions
  op,            \* the call each request makes
  pc,            \* the step each request is at
  err,           \* the error its call returns, "nil" when there is none
  mem            \* the Go variables of its call

tables == <<users, team_members, prs, pr_reviewers>>
server == <<prLock, userLock, tx, clock>>
vars == <<users, team_members, prs, pr_reviewers,
          prLock, userLock, tx, clock, op, pc, err, mem>>

-----------------------------------------------------------------------------
(* Transactions.                                                           *)

NoTx == [began |-> 0, row |-> NoPR, added |-> {}, removed |-> {}, user |-> "absent"]

(* prs and pr_reviewers as the transaction of r sees them, at the one key  *)
(* it works on.                                                            *)
Row(r) == IF tx[r].row # NoPR THEN tx[r].row ELSE prs[op[r].pr]

Assigned(r) ==
  [u \in Users |-> IF u \in tx[r].added THEN tx[r].began
                   ELSE IF u \in tx[r].removed THEN 0
                   ELSE pr_reviewers[op[r].pr][u]]

Reviewers(assigned) == {u \in Users : assigned[u] # 0}

(* The requests that own a connection of the pool.                         *)
Connected ==
  {r \in Requests : pc[r] \notin {"begin", "done", "orphan", "orphanCommit"}}

(* uow.Begin: take a connection and open a transaction.  now() stays at    *)
(* this instant until the transaction ends.                                *)
Begin(r, label) ==
  /\ pc[r] = "begin"
  /\ Cardinality(Connected) < MaxConns
  /\ clock' = clock + 1
  /\ tx' = [tx EXCEPT ![r].began = clock + 1]
  /\ pc' = [pc EXCEPT ![r] = label]
  /\ UNCHANGED <<users, team_members, prs, pr_reviewers, prLock, userLock, op, err, mem>>

Released(lock, r) == [x \in DOMAIN lock |-> IF lock[x] = r THEN None ELSE lock[x]]

(* The Go variables of a call before its first assignment.                 *)
Locals == [row |-> NoPR, reviewers |-> <<>>, team |-> None,
           selected |-> <<>>, next |-> 1]

(* The server ends the transaction of r: its locks and its private         *)
(* versions are gone.  A call that returns an error returns nothing else.  *)
EndTx(r) ==
  /\ prLock' = Released(prLock, r)
  /\ userLock' = Released(userLock, r)
  /\ tx' = [tx EXCEPT ![r] = [NoTx EXCEPT !.began = tx[r].began]]
  /\ pc' = [pc EXCEPT ![r] = "done"]
  /\ mem' = [mem EXCEPT ![r] = IF err[r] = "nil" THEN @ ELSE Locals]
  /\ UNCHANGED <<team_members, clock, op, err>>

(* The writes of r become the committed rows.                              *)
Publish(r) ==
  /\ prs' = [prs EXCEPT ![op[r].pr] = Row(r)]
  /\ pr_reviewers' = [pr_reviewers EXCEPT ![op[r].pr] = Assigned(r)]
  /\ users' = [users EXCEPT ![op[r].user] =
                 IF tx[r].user = "absent" THEN @ ELSE tx[r].user]

Discard == UNCHANGED <<users, prs, pr_reviewers>>

(* Transaction.Commit, acknowledged by the server. *)
Commit(r) == pc[r] = "commit" /\ Publish(r) /\ EndTx(r)

(* The deferred Transaction.Rollback.  GetPR, which only reads, ends with  *)
(* it as well.                                                             *)
Rollback(r) == pc[r] = "rollback" /\ Discard /\ EndTx(r)

-----------------------------------------------------------------------------
(* The context of a request ends (chi's Timeout, the client going away) or *)
(* its connection breaks.  The call in progress returns an error and pgx   *)
(* destroys the connection; the deferred Rollback can do nothing more, so  *)
(* the server ends the transaction when it notices.  A COMMIT that was on  *)
(* its way may or may not have been executed.                              *)
CallFails(r) ==
  /\ pc[r] \notin {"done", "orphan", "orphanCommit"}
  /\ err' = [err EXCEPT ![r] = IF pc[r] = "rollback" THEN @ ELSE "ErrInternal"]
  /\ pc' = [pc EXCEPT ![r] = IF @ = "begin" THEN "done"
                             ELSE IF @ = "commit" THEN "orphanCommit"
                             ELSE "orphan"]
  /\ mem' = [mem EXCEPT ![r] = IF err'[r] = "nil" THEN @ ELSE Locals]
  /\ UNCHANGED <<users, team_members, prs, pr_reviewers,
                 prLock, userLock, tx, clock, op>>

(* Mutation: the repositories run on the pool instead of the transaction,  *)
(* so what a broken call had written stays.                                *)
ServerKeepsWrites(r) == pc[r] \in {"orphan", "orphanCommit"} /\ Publish(r) /\ EndTx(r)

ServerAborts(r) == pc[r] \in {"orphan", "orphanCommit"} /\ Discard /\ EndTx(r)

ServerCommits(r) == pc[r] = "orphanCommit" /\ Publish(r) /\ EndTx(r)
==============================================================================
