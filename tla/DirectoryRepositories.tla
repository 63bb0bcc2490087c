------------------------- MODULE DirectoryRepositories -------------------------
(***************************************************************************)
(* team/repository.go and user/repository.go for the services of users and *)
(* teams: one action per SQL statement, on the tables of Directory.  next  *)
(* maps the outcomes the caller goes on after, "nil" among them, to its    *)
(* next statement; after any other it returns the error through its        *)
(* deferred Rollback.                                                      *)
(***************************************************************************)
EXTENDS Directory

Goto(label) == [nil |-> label]

(* The caller's "if err != nil". *)
Verdict(r, e, next) ==
  IF e \in DOMAIN next
  THEN pc' = [pc EXCEPT ![r] = next[e]] /\ UNCHANGED err
  ELSE pc' = [pc EXCEPT ![r] = "rollback"] /\ err' = [err EXCEPT ![r] = e]

(* What no statement touches: it writes to tx[r] only. *)
Private == UNCHANGED <<users, teams, team_members, op, stage>>

ReadOnly == Private /\ UNCHANGED tx

(* An INSERT, UPDATE or DELETE that finds what it needs leaves the         *)
(* transaction with the writes w.                                          *)
Writing(r, e, w) == Private /\ tx' = IF e = "nil" THEN [tx EXCEPT ![r] = w] ELSE tx

-----------------------------------------------------------------------------
(* team/repository.go *)

(* A team with the name fails the statement and with it the transaction. *)
CreateTeam(r, t, next) ==
  LET e == IF SeesTeam(r, t) THEN "ErrAlreadyExists" ELSE "nil"
  IN  /\ Verdict(r, e, next)
      /\ tx' = [tx EXCEPT ![r] = IF e = "nil" THEN [tx[r] EXCEPT !.teams = @ \union {t}]
                                 ELSE Aborted]
      /\ Private /\ UNCHANGED mem

(* GetTeamByID and GetTeamByName: a team is known by its name. *)
GetTeamBy(r, t, next) ==
  /\ Verdict(r, IF SeesTeam(r, t) THEN "nil" ELSE "ErrTeamNotFound", next)
  /\ ReadOnly

ListTeams(r, next) == Verdict(r, "nil", next) /\ ReadOnly

(* INSERT ... ON CONFLICT DO NOTHING: no row inserted is an error of the   *)
(* repository, not of the server.  A missing user or team violates a       *)
(* foreign key.                                                            *)
AddMember(r, t, u, next) ==
  LET e == IF <<t, u>> \in SeesMembers(r) THEN "ErrAlreadyExists"
           ELSE IF ~Exists(UserRow(r, u)) THEN "ErrUserNotFound"
           ELSE IF ~SeesTeam(r, t) THEN "ErrTeamNotFound" ELSE "nil"
      pair == <<t, u>>
  IN  /\ Verdict(r, e, next)
      /\ Writing(r, e, [tx[r] EXCEPT !.added = @ \union {pair}, !.removed = @ \ {pair}])

RemoveMember(r, t, u, next) ==
  LET e == IF <<t, u>> \in SeesMembers(r) THEN "nil" ELSE "ErrNotFound"
      pair == <<t, u>>
  IN  /\ Verdict(r, e, next)
      /\ Writing(r, e, [tx[r] EXCEPT !.added = @ \ {pair}, !.removed = @ \union {pair}])
      /\ UNCHANGED mem

-----------------------------------------------------------------------------
(* user/repository.go *)

(* Mutation: no check of the name. *)
CreateUserUnchecked(r, u, name, state, next) ==
  LET e == IF Exists(UserRow(r, u)) THEN "ErrUserExists" ELSE "nil"
      row == [name |-> name, state |-> state]
  IN  /\ Verdict(r, e, next)
      /\ tx' = [tx EXCEPT ![r] = IF e = "nil" THEN [@ EXCEPT !.users[u] = row] ELSE Aborted]
      /\ mem' = IF e = "nil" THEN [mem EXCEPT ![r].user = row] ELSE mem
      /\ Private

(* A user with the id fails the statement and with it the transaction; an  *)
(* empty name never reaches the server.                                    *)
CreateUser(r, u, name, state, next) ==
  LET e == CASE name = None -> "ErrInvalidArgument"
             [] name # None /\ Exists(UserRow(r, u)) -> "ErrUserExists"
             [] OTHER -> "nil"
      row == [name |-> name, state |-> state]
  IN  /\ Verdict(r, e, next)
      /\ tx' = [tx EXCEPT ![r] = CASE e = "nil" -> [@ EXCEPT !.users[u] = row]
                                   [] e = "ErrUserExists" -> Aborted
                                   [] OTHER -> @]
      /\ mem' = IF e = "nil" THEN [mem EXCEPT ![r].user = row] ELSE mem
      /\ Private

Found(r, u) == IF Exists(UserRow(r, u)) THEN "nil" ELSE "ErrUserNotFound"

GetUserByID(r, u, next) ==
  /\ Verdict(r, Found(r, u), next)
  /\ mem' = [mem EXCEPT ![r].user = UserRow(r, u)]
  /\ ReadOnly

(* Mutation: the row that was read earlier is written back as a whole. *)
UpdateWholeUser(r, u, state, next) ==
  /\ Verdict(r, Found(r, u), next)
  /\ Writing(r, Found(r, u), [tx[r] EXCEPT !.users[u] = [mem[r].user EXCEPT !.state = state]])

(* UPDATE ... SET one column WHERE id = @id RETURNING id, on the latest    *)
(* version of the row.                                                     *)
UpdateUserActive(r, u, state, next) ==
  /\ Verdict(r, Found(r, u), next)
  /\ Writing(r, Found(r, u), [tx[r] EXCEPT !.users[u] = [UserRow(r, u) EXCEPT !.state = state]])

UpdateUserName(r, u, name, next) ==
  /\ Verdict(r, Found(r, u), next)
  /\ Writing(r, Found(r, u), [tx[r] EXCEPT !.users[u] = [UserRow(r, u) EXCEPT !.name = name]])

ListUsers(r, next) ==
  /\ Verdict(r, "nil", next)
  /\ mem' = [mem EXCEPT ![r].listed =
               {[id |-> u, row |-> UserRow(r, u)] : u \in {v \in Users : Exists(UserRow(r, v))}}]
  /\ ReadOnly

(* The join of users and team_members. *)
ListMembersByTeamID(r, t, next) ==
  /\ Verdict(r, "nil", next)
  /\ mem' = [mem EXCEPT ![r].listed =
               {[id |-> u, row |-> UserRow(r, u)] :
                  u \in {v \in Users : <<t, v>> \in SeesMembers(r)}}]
  /\ ReadOnly

(* Mutation: SELECT user_id. *)
SelectOwnID(r, u, next) ==
  /\ Verdict(r, "nil", next)
  /\ mem' = [mem EXCEPT ![r].team = u]
  /\ ReadOnly

(* LIMIT 1 without ORDER BY: any team of the user. *)
GetTeamIDByUserID(r, u, next) ==
  LET his == {t \in Teams : <<t, u>> \in SeesMembers(r)}
  IN  /\ Verdict(r, IF his = {} THEN "ErrUserNoTeam" ELSE "nil", next)
      /\ \E t \in IF his = {} THEN {None} ELSE his :
           mem' = [mem EXCEPT ![r].team = t]
      /\ ReadOnly
==============================================================================
