------------------------------ MODULE DirectoryApi ------------------------------
(***************************************************************************)
(* /users/setIsActive, /team/add and /team/get: how the handlers of        *)
(* http/handlers/user and http/handlers/team turn the error of the method  *)
(* they were in when it came back into a status.  The bodies are well      *)
(* formed.                                                                 *)
(***************************************************************************)
EXTENDS DirectoryService

Success == [SetIsActive |-> 200, AddTeam |-> 201, ShowTeam |-> 200]

(* The errors each handler knows, by the method that returned them. *)
Known ==
  [SetIsActive |-> <<[ErrUserNotFound |-> 404, ErrInvalidArgument |-> 400],
                     [ErrUserNotFound |-> 404], <<>>>>,
   AddTeam |-> <<[ErrAlreadyExists |-> 409, ErrInvalidArgument |-> 400]>>,
   ShowTeam |-> <<[ErrInvalidArgument |-> 400, ErrTeamNotFound |-> 404], <<>>>>]

Status(r) ==
  LET known == Known[op[r].kind][stage[r]]
  IN  CASE err[r] = "nil" -> Success[op[r].kind]
        [] err[r] # "nil" /\ err[r] \in DOMAIN known -> known[err[r]]
        [] OTHER -> 500

HasAnswer(r) == op[r].kind \in DOMAIN Handlers /\ Answered(r)

-----------------------------------------------------------------------------
(* A client is told of an internal error, where nothing has failed, only   *)
(* when it adds a team: one of its members was unknown when he was looked  *)
(* up, and another request has inserted him since.                         *)
InternalErrorOnlyIfRaced ==
  \A r \in Requests :
    HasAnswer(r) /\ Status(r) = 500 /\ err[r] # "ErrInternal" =>
      /\ op[r].kind = "AddTeam" /\ err[r] = "ErrUserExists"
      /\ \E u \in IdsOf(r) : Exists(users[u]) /\ Changers(u) \ {r} # {}

(* docs/openapi.yml: /team/add creates the members it does not know and    *)
(* updates the others; a well-formed request is refused only because the   *)
(* team exists.                                                            *)
AddTeamCreatesOrUpdates ==
  \A r \in Requests :
    HasAnswer(r) /\ op[r].kind = "AddTeam" /\ err[r] # "ErrInternal" =>
      Status(r) # 500
==============================================================================
