---------------------------- MODULE DirectoryAnswers ----------------------------
(***************************************************************************)
(* What the team and user services and their handlers answer, for any      *)
(* values of the constants: AnswersInv of DirectoryInvariant is an         *)
(* invariant, and the properties about answers follow from it.             *)
(***************************************************************************)
EXTENDS DirectoryProofs, DirectoryApi

(* What AnswersInv says of one request. *)
Facts(r) == Ending(r) /\ Updated(r) /\ Enrolled(r) /\ Shown(r) /\ Raced(r) /\ Listed(r)

(* The methods of the calls, by stage. *)
LEMMA Stages ==
  ASSUME TypeOK, NEW r \in Requests, CallOK(r)
  PROVE  /\ op[r].kind \in Kinds
         /\ op[r].kind = "SetIsActive" =>
              /\ stage[r] \in {1, 2, 3} /\ Len(Plan(op[r].kind)) = 3
              /\ stage[r] = 1 => Doing(r) = "UpdateUserActive"
              /\ stage[r] = 2 => Doing(r) = "GetUser"
              /\ stage[r] = 3 => Doing(r) = "GetUserTeamName"
         /\ op[r].kind = "ShowTeam" =>
              /\ stage[r] \in {1, 2} /\ Len(Plan(op[r].kind)) = 2
              /\ stage[r] = 1 => Doing(r) = "GetTeamByName"
              /\ stage[r] = 2 => Doing(r) = "ListMembersByTeamID"
         /\ op[r].kind = "AddTeam" => Doing(r) = "CreateTeamWithMembers"
         /\ op[r].kind \notin {"SetIsActive", "ShowTeam"} =>
              stage[r] = 1 /\ Len(Plan(op[r].kind)) = 1
         /\ op[r].kind \notin DOMAIN Handlers => Doing(r) = op[r].kind
         /\ Creates(r) <=> Doing(r) = "CreateTeamWithMembers"
         /\ op[r].kind = "RemoveMember" <=> Doing(r) = "RemoveMember"
<1>1. op[r].kind \in Kinds /\ stage[r] \in DOMAIN Plan(op[r].kind)
  BY RequestType DEF CallOK, Calls
<1>2. DOMAIN Handlers = {"SetIsActive", "AddTeam", "ShowTeam"}
  BY DEF Handlers
<1>3. CASE op[r].kind = "SetIsActive"
  <2>1. Plan(op[r].kind) = <<"UpdateUserActive", "GetUser", "GetUserTeamName">>
    BY <1>2, <1>3 DEF Plan, Handlers
  <2>2. stage[r] \in {1, 2, 3} /\ Doing(r) = <<"UpdateUserActive", "GetUser", "GetUserTeamName">>[stage[r]]
    BY <1>1, <2>1 DEF Doing
  <2> QED
    BY <1>1, <1>2, <1>3, <2>1, <2>2 DEF Creates
<1>4. CASE op[r].kind = "ShowTeam"
  <2>1. Plan(op[r].kind) = <<"GetTeamByName", "ListMembersByTeamID">>
    BY <1>2, <1>4 DEF Plan, Handlers
  <2>2. stage[r] \in {1, 2} /\ Doing(r) = <<"GetTeamByName", "ListMembersByTeamID">>[stage[r]]
    BY <1>1, <2>1 DEF Doing
  <2> QED
    BY <1>1, <1>2, <1>4, <2>1, <2>2 DEF Creates
<1>5. CASE op[r].kind = "AddTeam"
  <2>1. Plan(op[r].kind) = <<"CreateTeamWithMembers">>
    BY <1>2, <1>5 DEF Plan, Handlers
  <2> QED
    BY <1>1, <1>2, <1>5, <2>1 DEF Doing, Creates
<1>6. CASE op[r].kind \notin DOMAIN Handlers
  <2>1. Plan(op[r].kind) = <<op[r].kind>>
    BY <1>6 DEF Plan
  <2> QED
    BY <1>1, <1>2, <1>6, <2>1 DEF Doing, Creates
<1> QED
  BY <1>2, <1>3, <1>4, <1>5, <1>6

-----------------------------------------------------------------------------
(* The others. *)

(* Whatever a step changes of the tables outside q's sight is explained.   *)
Later(q) ==
  /\ op' = op /\ teams \subseteq teams'
  /\ \A u \in Users : /\ Changers(u) \subseteq Changers(u)'
                      /\ Exists(users[u]) => Exists(users'[u])
                      /\ users'[u] = users[u] \/ Overtaken(q, u)'
                      /\ \/ users'[u].state = users[u].state
                         \/ Askers(u, users[u].state)' \ {q} # {}
  /\ NobodyLeaves => team_members \subseteq team_members'
  /\ \A p \in Requests : HasCreated(p)' => HasCreated(p) \/ op[p].team \notin teams

LEMMA OvertakenStays ==
  ASSUME NEW q \in Requests, Later(q), NEW u \in Users, Overtaken(q, u)
  PROVE  Overtaken(q, u)'
BY DEF Later, Overtaken

(* Whoever asked for something has asked for ever. *)
LEMMA AskersStay ==
  ASSUME op' = op, NEW u, Changers(u) \subseteq Changers(u)'
  PROVE  \A state : Askers(u, state) \subseteq Askers(u, state)'
BY DEF Askers, Creates

LEMMA LaterKeeps ==
  ASSUME DirectoryInv, NEW q \in Requests, Facts(q), Later(q), tx'[q] = tx[q],
         stage'[q] = stage[q], pc'[q] = pc[q], err'[q] = err[q], mem'[q] = mem[q]
  PROVE  Facts(q)'
<1>1. /\ op' = op /\ TypeOK /\ CallOK(q) /\ op[q].user \in Users
      /\ Doing(q)' = Doing(q) /\ Members(q)' = Members(q) /\ IdsOf(q)' = IdsOf(q)
      /\ InLoop(q)' = InLoop(q) /\ HasCreated(q)' = HasCreated(q)
      /\ NobodyLeaves' = NobodyLeaves
  BY RequestType DEF DirectoryInv, Later, Doing, Members, IdsOf, InLoop, Calls, HasCreated,
     Creates, NobodyLeaves
<1>2. \A u \in Users : Overtaken(q, u) => Overtaken(q, u)'
  BY OvertakenStays
<1>3. \A u \in Users : /\ Exists(users[u]) => Exists(users'[u])
                       /\ users'[u] = users[u] \/ Overtaken(q, u)'
  BY DEF Later
<1>4. Ending(q)'
  BY <1>1 DEF Facts, Ending
<1>5. Updated(q)'
  <2> DEFINE u == op[q].user
  <2>2. \/ users'[u].state = users[u].state
        \/ Askers(u, users[u].state)' \ {q} # {}
    BY <1>1 DEF Later
  <2>3. ASSUME op[q].kind = "SetIsActive", stage[q] > 1
        PROVE  /\ Exists(users'[u])
               /\ users'[u].state = op[q].state \/ Askers(u, users[u].state)' \ {q} # {}
    <3>1. /\ Exists(users[u])
          /\ users[u].state = op[q].state \/ Askers(u, users[u].state) \ {q} # {}
      BY <2>3 DEF Facts, Updated
    <3>2. CASE users'[u].state = users[u].state
      <4>1. Askers(u, users[u].state) \subseteq Askers(u, users[u].state)'
        BY <1>1, <3>2 DEF Later, Askers, Creates
      <4> QED
        BY <1>1, <1>3, <3>1, <3>2, <4>1
    <3> QED
      BY <1>1, <1>3, <2>2, <3>1, <3>2
  <2>4. ASSUME op[q].kind = "SetIsActive",
               \/ stage[q] = 2 /\ pc[q] = "rollback" /\ err[q] = "nil"
               \/ stage[q] = 3 /\ err[q] = "nil"
        PROVE  \/ mem'[q].user.state = op[q].state
               \/ Askers(u, mem[q].user.state)' \ {q} # {}
    <3>1. mem[q].user.state = op[q].state \/ Askers(u, mem[q].user.state) \ {q} # {}
      BY <2>4 DEF Facts, Updated
    <3>2. Askers(u, mem[q].user.state) \subseteq Askers(u, mem[q].user.state)'
      BY <1>1 DEF Later, Askers, Creates
    <3> QED
      BY <3>1, <3>2
  <2>5. op[q].kind = "SetIsActive" /\ stage[q] = 3 /\ pc[q] = "getTeam" =>
          mem'[q].team \in teams'
    BY DEF Facts, Updated, Later
  <2> QED
    BY <1>1, <2>3, <2>4, <2>5 DEF Updated
<1>6. Enrolled(q)'
  BY <1>1 DEF Facts, Enrolled, Later, HasCreated, Creates
<1>7. Shown(q)'
  <2>1. CASE op[q].kind = "ShowTeam"
    <3>1. Shown(q)
      BY DEF Facts
    <3>2. stage[q] = 2 \/ (pc[q] = "rollback" /\ err[q] = "nil") => op[q].team \in teams'
      BY <2>1, <3>1 DEF Shown, Later
    <3>3. ASSUME NobodyLeaves, stage[q] = 2, pc[q] \in {"rollback", "done"}, err[q] = "nil",
                 NEW p \in Requests, HasCreated(p)', op[p].team = op[q].team
          PROVE  IdsOf(p)' \subseteq {e.id : e \in mem[q].listed}
      <4>1. HasCreated(p)
        BY <2>1, <3>1, <3>3 DEF Shown, Later
      <4>2. IdsOf(p)' = IdsOf(p)
        BY <1>1 DEF IdsOf
      <4> QED
        BY <2>1, <3>1, <3>3, <4>1, <4>2 DEF Shown
    <3> QED
      BY <1>1, <3>2, <3>3 DEF Shown
  <2>2. CASE op[q].kind # "ShowTeam"
    BY <1>1, <2>2 DEF Shown
  <2> QED
    BY <2>1, <2>2
<1>8. /\ InLoop(q) => Subject(q) \in Users
      /\ Subject(q)' = Subject(q)
      /\ \A u \in Users : Writes(q, u)' = Writes(q, u)
  BY <1>1, AtLoop DEF Subject, Member, Doing, Writes, Later
<1>9. Raced(q)'
  <2>1. ASSUME InLoop(q), pc[q] = "createUser"
        PROVE  /\ ~Writes(q, Subject(q))
               /\ Exists(users'[Subject(q)]) => Overtaken(q, Subject(q))'
    <3>1. ~Writes(q, Subject(q)) /\ (Exists(users[Subject(q)]) => Overtaken(q, Subject(q)))
      BY <2>1 DEF Facts, Raced
    <3>2. Exists(users'[Subject(q)]) => Overtaken(q, Subject(q))'
      BY <1>2, <1>3, <1>8, <2>1, <3>1
    <3> QED
      BY <3>1, <3>2
  <2>2. ASSUME pc[q] = "refetch" \/ (op[q].kind = "AddTeam" /\ err[q] = "ErrUserExists")
        PROVE  \E u \in Users : u \in IdsOf(q) /\ Exists(users'[u]) /\ Overtaken(q, u)'
    <3>1. PICK u \in Users : u \in IdsOf(q) /\ Exists(users[u]) /\ Overtaken(q, u)
      BY <2>2 DEF Facts, Raced
    <3>2. Exists(users'[u]) /\ Overtaken(q, u)'
      BY <1>2, <1>3, <3>1
    <3> QED
      BY <3>1, <3>2
  <2> QED
    BY <1>1, <1>8, <2>1, <2>2 DEF Raced
<1>10. Listed(q)'
  BY <1>1 DEF Facts, Listed
<1> QED
  BY <1>4, <1>5, <1>6, <1>7, <1>9, <1>10 DEF Facts

-----------------------------------------------------------------------------
(* The request that moves. *)

(* A step of r alone: the tables and the others stay as they are, and r    *)
(* does not succeed.                                                       *)
Alone(r) ==
  /\ UNCHANGED <<users, teams, team_members, op, stage>> /\ ~Answered(r)
  /\ pc'[r] = "done" => err'[r] # "nil"
  /\ \A q \in Requests \ {r} :
       tx'[q] = tx[q] /\ pc'[q] = pc[q] /\ err'[q] = err[q] /\ mem'[q] = mem[q]

LEMMA AloneLater ==
  ASSUME NEW r \in Requests, Alone(r)
  PROVE  \A q \in Requests : Later(q)
<1>1. \A p \in Requests : Creates(p)' = Creates(p) /\ IdsOf(p)' = IdsOf(p)
  BY DEF Alone, Creates, IdsOf
<1>2. \A p \in Requests : Answered(p) => Answered(p)'
  BY DEF Alone, Answered
<1>3. \A u \in Users : Changers(u) \subseteq Changers(u)'
  BY <1>1, <1>2 DEF Alone, Changers
<1>4. \A p \in Requests : HasCreated(p)' => HasCreated(p)
  BY <1>1 DEF Alone, HasCreated
<1> QED
  BY <1>3, <1>4 DEF Alone, Later

(* What a step of r alone does not change. *)
LEMMA AloneSame ==
  ASSUME NEW r \in Requests, Alone(r)
  PROVE  /\ op' = op /\ stage' = stage /\ users' = users /\ teams' = teams
         /\ Doing(r)' = Doing(r) /\ Members(r)' = Members(r) /\ IdsOf(r)' = IdsOf(r)
         /\ \A u \in Users : /\ Overtaken(r, u) => Overtaken(r, u)'
                             /\ \A state : Askers(u, state) \subseteq Askers(u, state)'
         /\ \A q \in Requests : HasCreated(q)' => HasCreated(q)
<1>1. \A u \in Users : /\ Overtaken(r, u) => Overtaken(r, u)'
                       /\ \A state : Askers(u, state) \subseteq Askers(u, state)'
  BY AloneLater, OvertakenStays, AskersStay DEF Later
<1>2. \A q \in Requests : HasCreated(q)' => HasCreated(q)
  BY DEF Alone, HasCreated, Creates
<1> QED
  BY <1>1, <1>2 DEF Alone, Doing, Members, IdsOf

LEMMA AloneKeeps ==
  ASSUME AnswersInv, NEW r \in Requests, Alone(r), Facts(r)'
  PROVE  \A q \in Requests : Facts(q)'
<1>1. ASSUME NEW q \in Requests \ {r}
      PROVE  Facts(q)'
  <2>1. DirectoryInv /\ Facts(q)
    BY DEF AnswersInv, Facts
  <2>2. /\ Later(q) /\ tx'[q] = tx[q] /\ stage'[q] = stage[q] /\ pc'[q] = pc[q]
        /\ err'[q] = err[q] /\ mem'[q] = mem[q]
    BY AloneLater DEF Alone
  <2> QED
    BY <2>1, <2>2, LaterKeeps
<1> QED
  BY <1>1

(* A method that fails, with an error its handler may see. *)
LEMMA FailureFacts ==
  ASSUME NEW r \in Requests, TypeOK, CallOK(r), Facts(r), Alone(r),
         pc'[r] \in {"rollback", "orphan", "orphanCommit", "done"}, err'[r] # "nil",
         op[r].kind \in DOMAIN Handlers =>
           err'[r] \in {"nil", "ErrInternal"} \union Expected[op[r].kind][stage[r]],
         op[r].kind = "AddTeam" /\ err'[r] = "ErrUserExists" =>
           \E u \in Users : u \in IdsOf(r) /\ Exists(users[u]) /\ Overtaken(r, u)
  PROVE  Facts(r)'
<1>1. op[r].user \in Users
  BY RequestType DEF Calls
<1>2. Ending(r)'
  BY AloneSame DEF Ending
<1>3. Updated(r)'
  BY <1>1, AloneSame DEF Facts, Updated
<1>4. Enrolled(r)'
  BY DEF Alone, Enrolled, HasCreated
<1>5. Shown(r)'
  BY AloneSame DEF Facts, Shown
<1>6. Raced(r)'
  BY AloneSame DEF Raced
<1>7. Listed(r)'
  BY DEF Listed, InLoop, MemberSteps
<1> QED
  BY <1>2, <1>3, <1>4, <1>5, <1>6, <1>7 DEF Facts

(* A statement of a method that is called without a handler and is not     *)
(* CreateTeamWithMembers.                                                  *)
LEMMA PlainFacts ==
  ASSUME NEW r \in Requests, TypeOK, CallOK(r), Facts(r), Alone(r),
         op[r].kind \notin DOMAIN Handlers, Doing(r) # "CreateTeamWithMembers",
         pc'[r] \in (Statements \ {"refetch"}) \union {"commit", "rollback"},
         pc'[r] = "rollback" /\ err'[r] = "nil" => Doing(r) \in Reading
  PROVE  Facts(r)'
<1>1. op[r].kind \notin {"SetIsActive", "ShowTeam", "AddTeam"}
  BY DEF Handlers
<1>2. pc'[r] \notin {"orphan", "orphanCommit", "done", "refetch"}
  BY DEF Statements
<1>3. Ending(r)'
  BY <1>2, AloneSame DEF Ending
<1>4. Updated(r)' /\ Shown(r)'
  BY <1>1, AloneSame DEF Updated, Shown
<1>5. Enrolled(r)'
  BY <1>2 DEF Enrolled, HasCreated
<1>6. Raced(r)' /\ Listed(r)'
  BY <1>1, <1>2, AloneSame DEF Raced, Listed, InLoop
<1> QED
  BY <1>3, <1>4, <1>5, <1>6 DEF Facts

-----------------------------------------------------------------------------
(* Every statement is a step of one request alone. *)

LEMMA VerdictAlone ==
  ASSUME TypeOK, NEW r \in Requests, NEW e, NEW next, Verdict(r, e, next),
         \A x \in DOMAIN next : next[x] # "done"
  PROVE  /\ pc'[r] # "done"
         /\ \A q \in Requests \ {r} : pc'[q] = pc[q] /\ err'[q] = err[q]
BY DEF Verdict, TypeOK

LEMMA TeamStepAlone ==
  ASSUME TypeOK, NEW r \in Requests, TeamStep(r)
  PROVE  Alone(r)
<1>1. /\ \E e, next : Verdict(r, e, next) /\ \A x \in DOMAIN next : next[x] # "done"
      /\ ~Answered(r) /\ Private
      /\ \A q \in Requests \ {r} : tx'[q] = tx[q] /\ mem'[q] = mem[q]
  <2>1. CASE InsertTeam(r)
    <3> DEFINE l == IF Doing(r) = "CreateTeam" THEN "commit" ELSE NextMember(r, 1)
    <3>1. \A x \in DOMAIN Goto(l) : Goto(l)[x] # "done"
      BY DEF Goto, NextMember
    <3> HIDE DEF l
    <3>2. CreateTeam(r, op[r].team, Goto(l)) /\ pc[r] = "createTeam"
      BY <2>1 DEF InsertTeam, In, Ready, l
    <3> QED
      BY <3>1, <3>2 DEF CreateTeam, Answered, TypeOK
  <2>2. CASE FindMember(r)
    <3> DEFINE next == [nil |-> UpdateOf(Member(r), UserRow(r, Subject(r))),
                        ErrUserNotFound |-> "createUser"]
    <3>1. \A x \in DOMAIN next : next[x] # "done"
      BY DEF UpdateOf
    <3> HIDE DEF next
    <3>2. GetUserByID(r, Subject(r), next) /\ pc[r] = "getUser"
      BY <2>2 DEF FindMember, In, Ready, next
    <3> QED
      BY <3>1, <3>2 DEF GetUserByID, ReadOnly, Private, Answered, TypeOK
  <2>3. CASE InsertMember(r)
    <3> DEFINE next == [nil |-> "addMember", ErrUserExists |-> "refetch"]
    <3>1. \A x \in DOMAIN next : next[x] # "done"
      OBVIOUS
    <3> HIDE DEF next
    <3>2. CreateUser(r, Subject(r), Member(r).name, Member(r).state, next) /\ pc[r] = "createUser"
      BY <2>3 DEF InsertMember, In, Ready, next
    <3> QED
      BY <3>1, <3>2 DEF CreateUser, Answered, TypeOK
  <2>4. CASE FetchAfterConflict(r)
    <3>1. \A x \in DOMAIN Goto("addMember") : Goto("addMember")[x] # "done"
      BY DEF Goto
    <3>2. \A x \in DOMAIN <<>> : (<<>>)[x] # "done"
      OBVIOUS
    <3> QED
      BY <2>4, <3>1, <3>2
         DEF FetchAfterConflict, In, Ready, GetUserByID, ReadOnly, Private, Answered, TypeOK
  <2>5. CASE SetMemberActive(r) \/ SetMemberName(r)
    <3>1. \A l \in {"updateName", "addMember"} : \A x \in DOMAIN Goto(l) : Goto(l)[x] # "done"
      BY DEF Goto
    <3> QED
      BY <2>5, <3>1 DEF SetMemberActive, SetMemberName, In, Ready, UpdateUserActive,
         UpdateUserName, Writing, Private, Answered, TypeOK
  <2>6. CASE EnrolMember(r)
    <3> DEFINE l == NextMember(r, mem[r].next + 1)
               next == [nil |-> l, ErrAlreadyExists |-> l]
    <3>1. \A x \in DOMAIN next : next[x] # "done"
      BY DEF NextMember
    <3> HIDE DEF next
    <3>2. AddMember(r, op[r].team, Subject(r), next) /\ pc[r] = "addMember"
          /\ \A q \in Requests \ {r} : mem'[q] = mem[q]
      BY <2>6 DEF EnrolMember, In, Ready, next, TypeOK
    <3> QED
      BY <3>1, <3>2 DEF AddMember, Writing, Private, Answered, TypeOK
  <2>7. CASE FindTeam(r)
    <3>1. \A l \in {"getUser", "rollback"} : \A x \in DOMAIN Goto(l) : Goto(l)[x] # "done"
      BY DEF Goto
    <3> QED
      BY <2>7, <3>1 DEF FindTeam, In, Ready, GetTeamBy, ReadOnly, Private, Answered, TypeOK
  <2>8. CASE FindUserOfTeam(r)
    <3>1. \A l \in {"addMember", "removeMember"} :
            \A x \in DOMAIN Goto(l) : Goto(l)[x] # "done"
      BY DEF Goto
    <3> QED
      BY <2>8, <3>1
         DEF FindUserOfTeam, In, Ready, GetUserByID, ReadOnly, Private, Answered, TypeOK
  <2>9. CASE Enrol(r) \/ Dismiss(r)
    <3>1. \A x \in DOMAIN Goto("commit") : Goto("commit")[x] # "done"
      BY DEF Goto
    <3> QED
      BY <2>9, <3>1
         DEF Enrol, Dismiss, In, Ready, AddMember, RemoveMember, Writing, Private, Answered, TypeOK
  <2>10. CASE ReadTeams(r)
    <3>1. \A x \in DOMAIN Goto("rollback") : Goto("rollback")[x] # "done"
      BY DEF Goto
    <3> QED
      BY <2>10, <3>1 DEF ReadTeams, In, Ready, ListTeams, ReadOnly, Private, Answered, TypeOK
  <2> QED
    BY <2>1, <2>2, <2>3, <2>4, <2>5, <2>6, <2>7, <2>8, <2>9, <2>10 DEF TeamStep
<1> QED
  BY <1>1, VerdictAlone DEF Alone, Private

LEMMA AccountStepAlone ==
  ASSUME TypeOK, NEW r \in Requests, AccountStep(r)
  PROVE  Alone(r)
<1>1. /\ \E e, next : Verdict(r, e, next) /\ \A x \in DOMAIN next : next[x] # "done"
      /\ ~Answered(r) /\ Private
      /\ \A q \in Requests \ {r} : tx'[q] = tx[q] /\ mem'[q] = mem[q]
  <2>1. \A l \in {"commit", "rollback", "updateActive"} :
          \A x \in DOMAIN Goto(l) : Goto(l)[x] # "done"
    BY DEF Goto
  <2>2. CASE InsertUser(r)
    <3>1. /\ CreateUser(r, op[r].user, op[r].name, op[r].state, Goto("commit"))
          /\ pc[r] = "createUser"
      BY <2>2 DEF InsertUser, In, Ready
    <3> QED
      BY <2>1, <3>1 DEF CreateUser, Answered, TypeOK
  <2>3. CASE FindUser(r)
    BY <2>1, <2>3 DEF FindUser, In, Ready, GetUserByID, ReadOnly, Private, Answered, TypeOK
  <2>4. CASE SetActive(r) \/ Rename(r)
    BY <2>1, <2>4 DEF SetActive, Rename, In, Ready, UpdateUserActive, UpdateUserName, Writing,
       Private, Answered, TypeOK
  <2>5. CASE FindTeamOfUser(r)
    <3> DEFINE next == [nil |-> "getTeam", ErrUserNoTeam |-> "rollback"]
    <3>1. \A x \in DOMAIN next : next[x] # "done"
      OBVIOUS
    <3> HIDE DEF next
    <3>2. GetTeamIDByUserID(r, op[r].user, next) /\ pc[r] = "getUserTeam"
      BY <2>5 DEF FindTeamOfUser, In, Ready, next
    <3> QED
      BY <3>1, <3>2 DEF GetTeamIDByUserID, ReadOnly, Private, Answered, TypeOK
  <2>6. CASE ReadTeamName(r)
    BY <2>1, <2>6 DEF ReadTeamName, In, Ready, GetTeamBy, ReadOnly, Private, Answered, TypeOK
  <2>7. CASE ReadUsers(r)
    BY <2>1, <2>7 DEF ReadUsers, In, Ready, ListUsers, ListMembersByTeamID, ReadOnly, Private,
       Answered, TypeOK
  <2> QED
    BY <2>2, <2>3, <2>4, <2>5, <2>6, <2>7 DEF AccountStep
<1> QED
  BY <1>1, VerdictAlone DEF Alone, Private

-----------------------------------------------------------------------------
(* What each statement leaves of the request that executes it.             *)

LEMMA GotoOwn ==
  ASSUME TypeOK, NEW r \in Requests, NEW e \in Errors, NEW l \in Steps, Verdict(r, e, Goto(l))
  PROVE  \/ e = "nil" /\ pc'[r] = l /\ err'[r] = err[r]
         \/ e # "nil" /\ pc'[r] = "rollback" /\ err'[r] = e
BY GotoVerdict DEF TypeOK

(* What AnswersInv says of the request that moves. *)
LEMMA OwnFacts ==
  ASSUME AnswersInv, NEW r \in Requests
  PROVE  DirectoryInv /\ TypeOK /\ CallOK(r) /\ Facts(r)
BY DEF AnswersInv, DirectoryInv, Facts

(* A method that writes with its last statement, called without a handler. *)
LEMMA PlainStatement ==
  ASSUME AnswersInv, NEW r \in Requests, Alone(r), NEW e \in Errors,
         NEW l \in (Statements \ {"refetch"}) \union {"commit"}, Verdict(r, e, Goto(l)),
         op[r].kind \notin DOMAIN Handlers, Doing(r) # "CreateTeamWithMembers"
  PROVE  Facts(r)'
<1>1. TypeOK /\ CallOK(r) /\ Facts(r) /\ l \in Steps /\ l # "rollback"
  BY OwnFacts DEF Statements, Steps
<1>2. \/ e = "nil" /\ pc'[r] = l
      \/ e # "nil" /\ pc'[r] = "rollback" /\ err'[r] = e
  BY <1>1, GotoOwn
<1>3. /\ pc'[r] \in (Statements \ {"refetch"}) \union {"commit", "rollback"}
      /\ ~(pc'[r] = "rollback" /\ err'[r] = "nil")
  BY <1>1, <1>2
<1> QED
  BY <1>1, <1>3, PlainFacts

(* A method that reads with its last statement, called without a handler.  *)
LEMMA PlainQuery ==
  ASSUME AnswersInv, NEW r \in Requests, Alone(r), NEW e \in Errors,
         NEW l \in (Statements \ {"refetch"}) \union {"rollback"}, Verdict(r, e, Goto(l)),
         op[r].kind \notin DOMAIN Handlers, Doing(r) \in Reading
  PROVE  Facts(r)'
<1>1. TypeOK /\ CallOK(r) /\ Facts(r) /\ l \in Steps /\ Doing(r) # "CreateTeamWithMembers"
  BY OwnFacts DEF Statements, Steps, Reading
<1>2. pc'[r] \in (Statements \ {"refetch"}) \union {"commit", "rollback"}
  BY <1>1, GotoOwn
<1> QED
  BY <1>1, <1>2, PlainFacts

(* Enrol, Dismiss, FindUserOfTeam, InsertUser and Rename belong to no      *)
(* handler.                                                                *)
LEMMA PlainStepFacts ==
  ASSUME AnswersInv, NEW r \in Requests, Alone(r),
         Enrol(r) \/ Dismiss(r) \/ FindUserOfTeam(r) \/ InsertUser(r) \/ Rename(r)
  PROVE  Facts(r)'
<1>1. Doing(r) \in {"AddMember", "RemoveMember", "CreateUser", "UpdateUserName"}
  BY DEF Enrol, Dismiss, FindUserOfTeam, InsertUser, Rename, In
<1>2. op[r].kind \notin DOMAIN Handlers
  <2>1. op[r].kind \notin {"SetIsActive", "AddTeam", "ShowTeam"}
    BY <1>1, OwnFacts, Stages
  <2> QED
    BY <2>1 DEF Handlers
<1>3. \E e \in Errors, l \in {"commit", "addMember", "removeMember"} : Verdict(r, e, Goto(l))
  BY DEF Enrol, Dismiss, FindUserOfTeam, InsertUser, Rename, In, AddMember, RemoveMember,
     GetUserByID, CreateUser, UpdateUserName, Found, Errors
<1>4. {"commit", "addMember", "removeMember"} \subseteq (Statements \ {"refetch"}) \union {"commit"}
  BY DEF Statements, Steps
<1> QED
  BY <1>1, <1>2, <1>3, <1>4, PlainStatement

LEMMA ReadTeamsFacts ==
  ASSUME AnswersInv, NEW r \in Requests, Alone(r), ReadTeams(r)
  PROVE  Facts(r)'
<1>1. Doing(r) = "ListTeams" /\ Verdict(r, "nil", Goto("rollback"))
  BY DEF ReadTeams, In, ListTeams
<1>2. op[r].kind \notin DOMAIN Handlers
  <2>1. op[r].kind \notin {"SetIsActive", "AddTeam", "ShowTeam"}
    BY <1>1, OwnFacts, Stages
  <2> QED
    BY <2>1 DEF Handlers
<1>3. "nil" \in Errors
  BY DEF Errors
<1> QED
  BY <1>1, <1>2, <1>3, PlainQuery DEF Reading

(* GetTeamByName is the first method of /team/get. *)
LEMMA FindTeamFacts ==
  ASSUME AnswersInv, NEW r \in Requests, Alone(r), FindTeam(r)
  PROVE  Facts(r)'
<1> DEFINE e == IF SeesTeam(r, op[r].team) THEN "nil" ELSE "ErrTeamNotFound"
<1>1. DirectoryInv /\ TypeOK /\ CallOK(r) /\ Facts(r) /\ pc[r] \in Statements
  BY OwnFacts DEF FindTeam, In, Ready, Statements, Steps
<1>2. /\ e \in Errors
      /\ \/ Doing(r) \in {"AddMember", "RemoveMember"} /\ Verdict(r, e, Goto("getUser"))
         \/ Doing(r) \in {"GetTeam", "GetTeamByName"} /\ Verdict(r, e, Goto("rollback"))
  BY DEF FindTeam, In, GetTeamBy, Errors
<1>3. e = "nil" => op[r].team \in teams
  BY <1>1, <1>2, AtStatement DEF FindTeam, In, Ready, SeesTeam, NoTx
<1> HIDE DEF e
<1>4. {"getUser", "rollback"} \subseteq Steps /\ "getUser" \in Statements
  BY DEF Statements, Steps
<1>5. CASE op[r].kind \notin DOMAIN Handlers
  BY <1>2, <1>4, <1>5, PlainStatement, PlainQuery DEF Reading
<1>6. CASE op[r].kind \in DOMAIN Handlers
  <2>1. /\ op[r].kind = "ShowTeam" /\ stage[r] = 1 /\ Doing(r) = "GetTeamByName"
        /\ Verdict(r, e, Goto("rollback"))
    BY <1>1, <1>2, <1>6, Stages DEF Handlers
  <2>2. CASE e = "nil"
    <3>1. pc'[r] = "rollback" /\ err'[r] = err[r]
      BY <1>1, <1>2, <1>4, <2>1, <2>2, GotoOwn
    <3>2. Ending(r)'
      BY <1>1, <2>1, <3>1, AloneSame DEF Facts, Ending, Reading
    <3>3. Updated(r)' /\ Enrolled(r)'
      BY <2>1, <3>1, AloneSame DEF Updated, Enrolled, HasCreated
    <3>4. Shown(r)'
      BY <1>3, <2>1, <2>2, AloneSame DEF Shown
    <3>5. Raced(r)' /\ Listed(r)'
      BY <2>1, <3>1, AloneSame DEF Raced, Listed, InLoop
    <3> QED
      BY <3>2, <3>3, <3>4, <3>5 DEF Facts
  <2>3. CASE e # "nil"
    <3>1. pc'[r] = "rollback" /\ err'[r] = e /\ e = "ErrTeamNotFound"
      BY <1>1, <1>2, <1>4, <2>1, <2>3, GotoOwn DEF e
    <3> QED
      BY <1>1, <2>1, <3>1, FailureFacts DEF Expected
  <2> QED
    BY <2>2, <2>3
<1> QED
  BY <1>5, <1>6

-----------------------------------------------------------------------------
(* /users/setIsActive: UpdateUserActive, GetUser and GetUserTeamName.      *)

(* A statement of /users/setIsActive that goes on.                         *)
LEMMA SetIsActiveGoesOn ==
  ASSUME AnswersInv, NEW r \in Requests, Alone(r), op[r].kind = "SetIsActive",
         pc'[r] \in (Statements \ {"refetch"}) \union {"commit", "rollback"},
         err'[r] = err[r], Updated(r)',
         pc'[r] = "rollback" => Doing(r) \in Reading
  PROVE  Facts(r)'
<1>1. TypeOK /\ CallOK(r) /\ Facts(r) /\ Doing(r) # "CreateTeamWithMembers"
  BY OwnFacts, Stages
<1>2. pc'[r] \notin {"orphan", "orphanCommit", "done", "refetch"}
  BY DEF Statements
<1>3. Ending(r)'
  BY <1>1, <1>2, AloneSame DEF Facts, Ending
<1>4. Enrolled(r)' /\ Shown(r)'
  BY <1>2, AloneSame DEF Enrolled, HasCreated, Shown
<1>5. Raced(r)' /\ Listed(r)'
  BY <1>1, <1>2, AloneSame DEF Raced, Listed, InLoop
<1> QED
  BY <1>3, <1>4, <1>5 DEF Facts

LEMMA FindUserFacts ==
  ASSUME AnswersInv, NEW r \in Requests, Alone(r), FindUser(r)
  PROVE  Facts(r)'
<1> DEFINE u == op[r].user
           e == Found(r, u)
           l == IF Doing(r) = "GetUser" THEN "rollback" ELSE "updateActive"
<1>1. /\ DirectoryInv /\ TypeOK /\ CallOK(r) /\ Facts(r)
      /\ pc[r] \in Statements /\ pc[r] # "refetch" /\ Doing(r) \in {"UpdateUserActive", "GetUser"}
      /\ e \in Errors /\ e \in {"nil", "ErrUserNotFound"} /\ l \in Steps /\ Verdict(r, e, Goto(l))
      /\ mem' = [mem EXCEPT ![r].user = UserRow(r, u)]
  BY OwnFacts DEF FindUser, In, Ready, Statements, Steps, GetUserByID, Found, Errors
<1>2. u \in Users /\ UserRow(r, u) = users[u] /\ (Exists(users[u]) => e = "nil")
  <2>1. u \in Users /\ tx[r] = NoTx
    BY <1>1, AtStatement
  <2>2. UserRow(r, u) = users[u]
    BY <2>1 DEF UserRow, Writes, NoTx, Exists, NoUser
  <2> QED
    BY <2>1, <2>2 DEF Found
<1>3. {"updateActive"} \subseteq Statements \ {"refetch"}
  BY DEF Statements, Steps
<1>4. CASE op[r].kind \notin DOMAIN Handlers
  <2>1. CASE Doing(r) = "GetUser"
    BY <1>1, <1>4, <2>1, PlainQuery DEF Reading
  <2>2. CASE Doing(r) = "UpdateUserActive"
    BY <1>1, <1>3, <1>4, <2>2, PlainStatement
  <2> QED
    BY <1>1, <2>1, <2>2
<1>5. CASE op[r].kind \in DOMAIN Handlers
  <2>1. /\ op[r].kind = "SetIsActive"
        /\ \/ stage[r] = 1 /\ Doing(r) = "UpdateUserActive"
           \/ stage[r] = 2 /\ Doing(r) = "GetUser"
    BY <1>1, <1>5, Stages DEF Handlers
  <2> HIDE DEF e
  <2>2. CASE e # "nil"
    <3>1. stage[r] = 1
      BY <1>1, <1>2, <2>1, <2>2 DEF Facts, Updated
    <3>2. pc'[r] = "rollback" /\ err'[r] = "ErrUserNotFound"
      BY <1>1, <2>2, GotoOwn
    <3> QED
      BY <1>1, <2>1, <3>1, <3>2, FailureFacts DEF Expected
  <2>3. CASE e = "nil"
    <3>1. pc'[r] = l /\ err'[r] = err[r] /\ mem'[r].user = users[u]
      BY <1>1, <1>2, <2>3, GotoOwn, RequestType DEF TypeOK, Mems
    <3>2. Updated(r)'
      BY <1>1, <1>2, <2>1, <3>1, AloneSame DEF Facts, Updated
    <3>3. pc'[r] \in (Statements \ {"refetch"}) \union {"commit", "rollback"}
      BY <1>3, <3>1
    <3>4. pc'[r] = "rollback" => Doing(r) \in Reading
      BY <3>1 DEF Reading
    <3> QED
      BY <2>1, <3>1, <3>2, <3>3, <3>4, SetIsActiveGoesOn
  <2> QED
    BY <2>2, <2>3
<1> QED
  BY <1>4, <1>5

LEMMA SetActiveFacts ==
  ASSUME AnswersInv, NEW r \in Requests, Alone(r), SetActive(r)
  PROVE  Facts(r)'
<1> DEFINE e == Found(r, op[r].user)
<1>1. /\ TypeOK /\ CallOK(r) /\ Facts(r) /\ Doing(r) = "UpdateUserActive"
      /\ e \in Errors /\ e \in {"nil", "ErrUserNotFound"} /\ "commit" \in Steps
      /\ Verdict(r, e, Goto("commit"))
  BY OwnFacts DEF SetActive, In, UpdateUserActive, Found, Errors, Steps
<1> HIDE DEF e
<1>2. CASE op[r].kind \notin DOMAIN Handlers
  BY <1>1, <1>2, PlainStatement
<1>3. CASE op[r].kind \in DOMAIN Handlers
  <2>1. op[r].kind = "SetIsActive" /\ stage[r] = 1
    BY <1>1, <1>3, Stages DEF Handlers
  <2>2. CASE e = "nil"
    <3>1. pc'[r] = "commit" /\ err'[r] = err[r]
      BY <1>1, <2>2, GotoOwn
    <3>2. Updated(r)'
      BY <2>1, <3>1, AloneSame DEF Updated
    <3> QED
      BY <2>1, <3>1, <3>2, SetIsActiveGoesOn
  <2>3. CASE e # "nil"
    <3>1. pc'[r] = "rollback" /\ err'[r] = "ErrUserNotFound"
      BY <1>1, <2>3, GotoOwn
    <3> QED
      BY <1>1, <2>1, <3>1, FailureFacts DEF Expected
  <2> QED
    BY <2>2, <2>3
<1> QED
  BY <1>2, <1>3

(* The team of a membership exists. *)
LEMMA FindTeamOfUserFacts ==
  ASSUME AnswersInv, NEW r \in Requests, Alone(r), FindTeamOfUser(r)
  PROVE  Facts(r)'
<1> DEFINE u == op[r].user
<1>1. /\ DirectoryInv /\ TypeOK /\ CallOK(r) /\ Facts(r) /\ u \in Users
      /\ pc[r] \in Statements /\ pc[r] # "refetch" /\ Doing(r) = "GetUserTeamName"
  BY OwnFacts, RequestType DEF FindTeamOfUser, In, Ready, Statements, Steps, Calls
<1>2. SeesMembers(r) = team_members
  BY <1>1, AtStatement DEF SeesMembers, NoTx
<1>3. /\ err' = err
      /\ \/ /\ pc' = [pc EXCEPT ![r] = "getTeam"]
            /\ \E t \in Teams : <<t, u>> \in team_members /\ mem' = [mem EXCEPT ![r].team = t]
         \/ /\ pc' = [pc EXCEPT ![r] = "rollback"]
            /\ \E t \in Teams \union {None} : mem' = [mem EXCEPT ![r].team = t]
  BY <1>2 DEF FindTeamOfUser, GetTeamIDByUserID, Verdict
<1>4. /\ err'[r] = err[r] /\ mem'[r].user = mem[r].user
      /\ pc'[r] = "rollback" \/ (pc'[r] = "getTeam" /\ mem'[r].team \in teams)
  <2>1. \A t \in Teams : <<t, u>> \in team_members => t \in teams
    BY <1>1 DEF DirectoryInv, TablesOK
  <2>2. mem[r] \in Mems /\ pc \in [Requests -> Steps] /\ mem \in [Requests -> Mems]
    BY <1>1, RequestType DEF TypeOK, Mems
  <2>3. \A t \in Teams \union {None} :
          mem' = [mem EXCEPT ![r].team = t] => mem'[r].team = t /\ mem'[r].user = mem[r].user
    BY <2>2 DEF Mems
  <2> QED
    BY <1>3, <2>1, <2>2, <2>3
<1>5. pc'[r] \in (Statements \ {"refetch"}) \union {"commit", "rollback"}
  BY <1>4 DEF Statements, Steps
<1>6. CASE op[r].kind \notin DOMAIN Handlers
  BY <1>1, <1>5, <1>6, PlainFacts DEF Reading
<1>7. CASE op[r].kind \in DOMAIN Handlers
  <2>1. op[r].kind = "SetIsActive" /\ stage[r] = 3
    BY <1>1, <1>7, Stages DEF Handlers
  <2>2. Updated(r)'
    BY <1>1, <1>4, <2>1, AloneSame DEF Facts, Updated
  <2> QED
    BY <1>1, <1>4, <1>5, <2>1, <2>2, SetIsActiveGoesOn DEF Reading
<1> QED
  BY <1>6, <1>7

LEMMA ReadTeamNameFacts ==
  ASSUME AnswersInv, NEW r \in Requests, Alone(r), ReadTeamName(r)
  PROVE  Facts(r)'
<1> DEFINE e == IF SeesTeam(r, mem[r].team) THEN "nil" ELSE "ErrTeamNotFound"
<1>1. /\ TypeOK /\ CallOK(r) /\ Facts(r) /\ pc[r] = "getTeam" /\ Doing(r) = "GetUserTeamName"
      /\ e \in Errors /\ "rollback" \in Steps /\ Verdict(r, e, Goto("rollback")) /\ mem' = mem
  BY OwnFacts DEF ReadTeamName, In, Ready, GetTeamBy, Errors, Steps
<1>2. CASE op[r].kind \notin DOMAIN Handlers
  BY <1>1, <1>2, PlainQuery DEF Reading
<1>3. CASE op[r].kind \in DOMAIN Handlers
  <2>1. op[r].kind = "SetIsActive" /\ stage[r] = 3
    BY <1>1, <1>3, Stages DEF Handlers
  <2>2. mem[r].team \in teams
    BY <1>1, <2>1 DEF Facts, Updated
  <2>3. e = "nil"
    BY <2>2 DEF SeesTeam
  <2>4. pc'[r] = "rollback" /\ err'[r] = err[r]
    BY <1>1, <2>3, GotoOwn
  <2>5. op[r].user \in Users
    BY <1>1, RequestType DEF Calls
  <2>6. Updated(r)'
    BY <1>1, <2>1, <2>4, <2>5, AloneSame DEF Facts, Updated
  <2> QED
    BY <1>1, <2>1, <2>4, <2>6, SetIsActiveGoesOn DEF Reading
<1> QED
  BY <1>2, <1>3

-----------------------------------------------------------------------------
(* /team/get: the members of a team created with them are all there.       *)
LEMMA ReadUsersFacts ==
  ASSUME AnswersInv, NEW r \in Requests, Alone(r), ReadUsers(r)
  PROVE  Facts(r)'
<1>1. /\ DirectoryInv /\ TypeOK /\ CallOK(r) /\ Facts(r)
      /\ pc[r] \in Statements /\ pc[r] # "refetch" /\ Verdict(r, "nil", Goto("rollback"))
      /\ Doing(r) \in {"ListUsers", "ListMembersByTeamID"} /\ "nil" \in Errors /\ "rollback" \in Steps
  BY OwnFacts DEF ReadUsers, In, Ready, Statements, Steps, ListUsers, ListMembersByTeamID, Errors
<1>2. CASE op[r].kind \notin DOMAIN Handlers
  BY <1>1, <1>2, PlainQuery DEF Reading
<1>3. CASE op[r].kind \in DOMAIN Handlers
  <2>1. op[r].kind = "ShowTeam" /\ stage[r] = 2 /\ Doing(r) = "ListMembersByTeamID"
    BY <1>1, <1>3, Stages DEF Handlers
  <2>2. pc'[r] = "rollback" /\ err'[r] = err[r]
    BY <1>1, GotoOwn
  <2>3. SeesMembers(r) = team_members
    BY <1>1, <2>1, AtStatement DEF SeesMembers, NoTx
  <2>4. mem'[r].listed = {[id |-> u, row |-> UserRow(r, u)] :
                            u \in {v \in Users : <<op[r].team, v>> \in team_members}}
    <3>1. mem \in [Requests -> Mems]
      BY <1>1 DEF TypeOK, Mems
    <3>2. mem' = [mem EXCEPT ![r].listed =
                    {[id |-> u, row |-> UserRow(r, u)] :
                       u \in {v \in Users : <<op[r].team, v>> \in team_members}}]
      BY <2>1, <2>3 DEF ReadUsers, In, ListMembersByTeamID
    <3> QED
      BY <3>1, <3>2 DEF Mems
  <2>5. ASSUME NobodyLeaves, NEW q \in Requests, HasCreated(q)', op[q].team = op[r].team
        PROVE  IdsOf(q) \subseteq {e.id : e \in mem'[r].listed}
    <3>1. HasCreated(q) /\ Enrolled(q)
      BY <2>5, AloneSame DEF AnswersInv
    <3>2. {op[r].team} \X IdsOf(q) \subseteq team_members
      BY <2>5, <3>1 DEF Enrolled
    <3> SUFFICES ASSUME NEW u \in IdsOf(q)
                 PROVE  u \in {e.id : e \in mem'[r].listed}
      OBVIOUS
    <3>3. <<op[r].team, u>> \in team_members /\ u \in Users
      BY <1>1, <3>2 DEF TypeOK
    <3>4. [id |-> u, row |-> UserRow(r, u)] \in mem'[r].listed
      BY <2>4, <3>3
    <3> QED
      BY <3>4
  <2>6. Ending(r)'
    BY <1>1, <2>1, <2>2, AloneSame DEF Facts, Ending, Reading
  <2>7. Updated(r)' /\ Enrolled(r)'
    BY <2>1, <2>2, AloneSame DEF Updated, Enrolled, HasCreated
  <2>8. Shown(r)'
    <3>1. op'[r].team \in teams'
      BY <1>1, <2>1, AloneSame DEF Facts, Shown
    <3>2. \A q \in Requests : IdsOf(q)' = IdsOf(q)
      BY AloneSame DEF IdsOf
    <3>3. NobodyLeaves' = NobodyLeaves
      BY AloneSame DEF NobodyLeaves
    <3> QED
      BY <2>5, <3>1, <3>2, <3>3, AloneSame DEF Shown
  <2>9. Raced(r)' /\ Listed(r)'
    BY <2>1, <2>2, AloneSame DEF Raced, Listed, InLoop
  <2> QED
    BY <2>6, <2>7, <2>8, <2>9 DEF Facts
<1> QED
  BY <1>2, <1>3

-----------------------------------------------------------------------------
(* /team/add: CreateTeamWithMembers. *)

(* A statement that goes on. *)
LEMMA AddTeamGoesOn ==
  ASSUME AnswersInv, NEW r \in Requests, Alone(r), Doing(r) = "CreateTeamWithMembers",
         pc'[r] \in MemberSteps \union {"createTeam", "refetch", "commit"},
         err'[r] = err[r], Raced(r)', Listed(r)'
  PROVE  Facts(r)'
<1>1. /\ Facts(r) /\ op[r].kind \notin {"SetIsActive", "ShowTeam"}
      /\ pc'[r] \notin {"orphan", "orphanCommit", "done", "rollback"}
  <2>1. TypeOK /\ CallOK(r) /\ Facts(r)
    BY OwnFacts
  <2>2. op[r].kind \notin {"SetIsActive", "ShowTeam"}
    BY <2>1, Stages
  <2> QED
    BY <2>1, <2>2 DEF MemberSteps
<1>2. Ending(r)'
  BY <1>1, AloneSame DEF Facts, Ending
<1>3. Updated(r)' /\ Enrolled(r)' /\ Shown(r)'
  BY <1>1, AloneSame DEF Updated, Enrolled, HasCreated, Shown
<1> QED
  BY <1>2, <1>3 DEF Facts

(* Nothing new is known of a race. *)
LEMMA RacedStays ==
  ASSUME NEW r \in Requests, Raced(r), Alone(r), pc'[r] \notin {"createUser", "refetch"},
         err'[r] = err[r]
  PROVE  Raced(r)'
BY AloneSame DEF Raced

(* What r is going to answer of a member does not part from what it is     *)
(* going to leave in the table by a step of its own.                       *)
Keeps(r) ==
  \A u \in Users :
    NamedOnce(r, u) /\ Composing(r)' /\ ~AsExpected(r, u)' =>
      Composing(r) /\ ~AsExpected(r, u)

LEMMA NotComposing ==
  ASSUME NEW r \in Requests,
         \/ Doing(r)' # "CreateTeamWithMembers"
         \/ pc'[r] \in {"begin", "createTeam", "refetch", "rollback", "orphan", "orphanCommit"}
         \/ pc'[r] = "done" /\ err'[r] # "nil"
  PROVE  Keeps(r)
BY DEF Keeps, Composing, MemberSteps

(* A member who is named once is not yet in the answer when his turn comes. *)
LEMMA EntriesKeep ==
  ASSUME AnswersInv, NEW r \in Requests, Alone(r), InLoop(r),
         \A u \in Users \ {Subject(r)} : tx'[r].users[u] = tx[r].users[u],
         NEW e \in mem[r].listed, NamedOnce(r, e.id)
  PROVE  e.id # Subject(r) /\ UserRow(r, e.id)' = UserRow(r, e.id)
<1> DEFINE n == mem[r].next
           list == Members(r)
<1>1. /\ TypeOK /\ n \in DOMAIN list /\ list \in Seq(Specs) /\ Subject(r) = list[n].id
      /\ DirectoryInv
  BY AtLoop DEF AnswersInv
<1>2. e.id \in Users
  BY <1>1, RequestType DEF Mems, Listing
<1>3. PICK i \in DOMAIN list : i < n /\ list[i].id = e.id
  BY <1>1, OwnFacts DEF Facts, Listed
<1>4. i # n
  BY <1>1, <1>3
<1> HIDE DEF n
<1>5. e.id # Subject(r)
  BY <1>1, <1>3, <1>4 DEF NamedOnce, Members
<1> QED
  BY <1>2, <1>5, AloneSame DEF UserRow, Writes

(* A statement about the current member that goes on with him. *)
LEMMA MemberGoesOn ==
  ASSUME AnswersInv, NEW r \in Requests, Alone(r), InLoop(r),
         pc'[r] \in MemberSteps, err'[r] = err[r], Raced(r)',
         \A u \in Users \ {Subject(r)} : tx'[r].users[u] = tx[r].users[u],
         mem'[r].listed = mem[r].listed, mem'[r].next = mem[r].next,
         pc'[r] \in {"updateActive", "updateName", "addMember"} =>
           \/ mem'[r].user = UserRow(r, Subject(r))'
           \/ pc[r] \in {"updateActive", "updateName"} /\ mem[r].user # UserRow(r, Subject(r))
  PROVE  Facts(r)' /\ Keeps(r)
<1>1. Doing(r) = "CreateTeamWithMembers" /\ Listed(r) /\ pc'[r] \notin {"begin", "createTeam"}
  BY OwnFacts DEF InLoop, Facts, MemberSteps
<1>2. Listed(r)'
  BY <1>1, AloneSame DEF Listed
<1>3. Subject(r)' = Subject(r)
  BY AloneSame DEF Subject, Member
<1>4. Keeps(r)
  <2> SUFFICES ASSUME NEW u \in Users, NamedOnce(r, u), AsExpected(r, u),
                      NEW e \in Expects(r)', e.id = u
               PROVE  e.row = UserRow(r, u)'
    BY DEF Keeps, Composing, InLoop, AsExpected
  <2>1. CASE e \in mem[r].listed
    <3>1. e.row = UserRow(r, u)
      BY <2>1 DEF AsExpected, Expects
    <3> QED
      BY <2>1, <3>1, EntriesKeep
  <2>2. CASE e \notin mem[r].listed
    <3>1. /\ pc'[r] \in {"updateActive", "updateName", "addMember"}
          /\ u = Subject(r) /\ e.row = mem'[r].user
      BY <1>3, <2>2 DEF Expects
    <3>2. ASSUME pc[r] \in {"updateActive", "updateName"}
          PROVE  mem[r].user = UserRow(r, u)
      <4>1. [id |-> u, row |-> mem[r].user] \in Expects(r)
        BY <3>1, <3>2 DEF Expects
      <4> QED
        BY <4>1 DEF AsExpected
    <3> QED
      BY <1>3, <3>1, <3>2
  <2> QED
    BY <2>1, <2>2
<1> QED
  BY <1>1, <1>2, <1>4, AddTeamGoesOn

LEMMA InsertTeamFacts ==
  ASSUME AnswersInv, NEW r \in Requests, Alone(r), InsertTeam(r)
  PROVE  Facts(r)' /\ Keeps(r)
<1> DEFINE e == IF SeesTeam(r, op[r].team) THEN "ErrAlreadyExists" ELSE "nil"
           l == IF Doing(r) = "CreateTeam" THEN "commit" ELSE NextMember(r, 1)
<1>1. /\ TypeOK /\ CallOK(r) /\ Facts(r) /\ pc[r] = "createTeam" /\ mem' = mem
      /\ Doing(r) \in {"CreateTeam", "CreateTeamWithMembers"}
      /\ e \in Errors /\ e \in {"nil", "ErrAlreadyExists"}
      /\ l \in {"getUser", "commit"} /\ l \in Steps /\ Verdict(r, e, Goto(l))
  BY OwnFacts DEF InsertTeam, In, Ready, CreateTeam, Errors, Steps, NextMember
<1> HIDE DEF e
<1>2. CASE Doing(r) = "CreateTeam"
  <2>1. op[r].kind \notin DOMAIN Handlers
    <3>1. op[r].kind \notin {"SetIsActive", "AddTeam", "ShowTeam"}
      BY <1>1, <1>2, Stages
    <3> QED
      BY <3>1 DEF Handlers
  <2> QED
    BY <1>1, <1>2, <2>1, PlainStatement, NotComposing, AloneSame
<1>3. CASE Doing(r) = "CreateTeamWithMembers"
  <2> HIDE DEF l
  <2>1. op[r].kind \in DOMAIN Handlers => op[r].kind = "AddTeam" /\ stage[r] = 1
    BY <1>1, <1>3, Stages DEF Handlers
  <2>2. CASE e = "nil"
    <3>1. pc'[r] = l /\ err'[r] = err[r]
      BY <1>1, <2>2, GotoOwn
    <3>2. Raced(r)'
      BY <1>1, <3>1, RacedStays DEF Facts
    <3>3. mem[r].listed = {}
      BY <1>1, <1>3 DEF Facts, Listed
    <3>4. Listed(r)'
      BY <1>1, <3>1, <3>3 DEF Listed
    <3>5. Keeps(r)
      BY <1>1, <3>1, <3>3 DEF Keeps, AsExpected, Expects
    <3> QED
      BY <1>1, <1>3, <3>1, <3>2, <3>4, <3>5, AddTeamGoesOn DEF MemberSteps
  <2>3. CASE e # "nil"
    <3>1. pc'[r] = "rollback" /\ err'[r] = "ErrAlreadyExists"
      BY <1>1, <2>3, GotoOwn
    <3> QED
      BY <1>1, <2>1, <3>1, FailureFacts, NotComposing DEF Expected
  <2> QED
    BY <2>2, <2>3
<1> QED
  BY <1>1, <1>2, <1>3

LEMMA FindMemberFacts ==
  ASSUME AnswersInv, NEW r \in Requests, Alone(r), FindMember(r)
  PROVE  Facts(r)' /\ Keeps(r)
<1> DEFINE u == Subject(r)
           l == UpdateOf(Member(r), UserRow(r, u))
<1>1. /\ InLoop(r) /\ l \in {"updateActive", "updateName", "addMember"}
      /\ GetUserByID(r, u, [nil |-> l, ErrUserNotFound |-> "createUser"])
  BY DEF FindMember, In, Ready, InLoop, MemberSteps, UpdateOf
<1>2. /\ DirectoryInv /\ TypeOK /\ Facts(r) /\ u \in Users
      /\ Doing(r) = "CreateTeamWithMembers"
  BY <1>1, OwnFacts, AtLoop
<1> HIDE DEF l
<1>3. /\ pc' = [pc EXCEPT ![r] = IF Exists(UserRow(r, u)) THEN l ELSE "createUser"]
      /\ err' = err /\ tx' = tx /\ mem' = [mem EXCEPT ![r].user = UserRow(r, u)]
  BY <1>1 DEF GetUserByID, Verdict, Found, ReadOnly
<1>4. /\ pc'[r] = IF Exists(UserRow(r, u)) THEN l ELSE "createUser"
      /\ mem'[r].user = UserRow(r, u)
      /\ mem'[r].listed = mem[r].listed /\ mem'[r].next = mem[r].next
  <2>1. mem \in [Requests -> Mems]
    BY <1>2 DEF TypeOK, Mems
  <2> QED
    BY <1>2, <1>3, <2>1 DEF TypeOK, Mems
<1>5. Subject(r)' = u
  BY <1>4, AloneSame DEF Subject, Member
<1>6. UserRow(r, Subject(r))' = UserRow(r, u) /\ Writes(r, Subject(r))' = Writes(r, u)
  BY <1>3, <1>5, AloneSame DEF UserRow, Writes
<1>7. Raced(r)'
  <2>1. pc'[r] = "createUser" => ~Writes(r, u) /\ ~Exists(users[u])
    BY <1>1, <1>4 DEF UserRow, Writes
  <2>2. pc'[r] # "refetch" /\ err'[r] = err[r]
    BY <1>1, <1>3, <1>4
  <2>3. op[r].kind = "AddTeam" /\ err[r] = "ErrUserExists" =>
          \E v \in Users : v \in IdsOf(r) /\ Exists(users[v]) /\ Overtaken(r, v)
    BY <1>2 DEF Facts, Raced
  <2> QED
    BY <1>5, <1>6, <2>1, <2>2, <2>3, AloneSame DEF Raced
<1>8. pc'[r] \in MemberSteps /\ err'[r] = err[r]
  BY <1>1, <1>3, <1>4 DEF MemberSteps
<1> QED
  BY <1>1, <1>3, <1>4, <1>6, <1>7, <1>8, MemberGoesOn

(* A member who is there although he was not when he was looked up has     *)
(* been inserted by another request.                                       *)
LEMMA InsertMemberFacts ==
  ASSUME AnswersInv, NEW r \in Requests, Alone(r), InsertMember(r)
  PROVE  Facts(r)' /\ Keeps(r)
<1> DEFINE u == Subject(r)
           row == [name |-> Member(r).name, state |-> Member(r).state]
           next == [nil |-> "addMember", ErrUserExists |-> "refetch"]
<1>1. /\ pc[r] = "createUser" /\ InLoop(r)
      /\ CreateUser(r, u, Member(r).name, Member(r).state, next)
  BY DEF InsertMember, In, Ready, InLoop, MemberSteps
<1>2. /\ DirectoryInv /\ TypeOK /\ CallOK(r) /\ Facts(r) /\ u \in Users
      /\ Doing(r) = "CreateTeamWithMembers" /\ tx[r] \in Txs /\ mem[r] \in Mems
      /\ Members(r) \in Seq(Specs) /\ mem[r].next \in DOMAIN Members(r)
      /\ u = Members(r)[mem[r].next].id
  BY <1>1, OwnFacts, AtLoop, RequestType
<1>3. DOMAIN next = {"nil", "ErrUserExists"} /\ next["nil"] = "addMember"
      /\ next["ErrUserExists"] = "refetch"
  OBVIOUS
<1> HIDE DEF next
<1>4. ~Writes(r, u) /\ (Exists(users[u]) => Overtaken(r, u))
  BY <1>1, <1>2 DEF Facts, Raced
<1>5. \/ /\ Verdict(r, "nil", next) /\ tx' = [tx EXCEPT ![r] = [tx[r] EXCEPT !.users[u] = row]]
         /\ mem' = [mem EXCEPT ![r].user = row]
      \/ /\ Verdict(r, "ErrUserExists", next) /\ Exists(UserRow(r, u))
         /\ tx' = [tx EXCEPT ![r] = Aborted] /\ mem' = mem
      \/ Verdict(r, "ErrInvalidArgument", next) /\ UNCHANGED <<tx, mem>>
  <2>1. CASE Member(r).name = None
    BY <1>1, <1>2, <2>1 DEF CreateUser, TypeOK
  <2>2. CASE Member(r).name # None /\ Exists(UserRow(r, u))
    BY <1>1, <2>2 DEF CreateUser
  <2>3. CASE Member(r).name # None /\ ~Exists(UserRow(r, u))
    BY <1>1, <2>3 DEF CreateUser
  <2> QED
    BY <2>1, <2>2, <2>3
<1>6. CASE /\ Verdict(r, "nil", next)
           /\ tx' = [tx EXCEPT ![r] = [tx[r] EXCEPT !.users[u] = row]]
           /\ mem' = [mem EXCEPT ![r].user = row]
  <2>1. pc'[r] = "addMember" /\ err'[r] = err[r]
    BY <1>2, <1>3, <1>6 DEF Verdict, TypeOK
  <2>2. /\ mem'[r].user = row /\ mem'[r].listed = mem[r].listed
        /\ mem'[r].next = mem[r].next
    BY <1>2, <1>6 DEF TypeOK, Mems
  <2>3. /\ tx'[r].users[u] = row
        /\ \A v \in Users \ {u} : tx'[r].users[v] = tx[r].users[v]
    BY <1>2, <1>6 DEF TypeOK, Txs
  <2>4. row.state # "absent"
    <3>1. Member(r).state \in Activity
      BY <1>1, <1>2, AtLoop DEF Specs
    <3> QED
      BY <3>1 DEF Activity
  <2>5. Subject(r)' = u
    BY <2>2, AloneSame DEF Subject, Member
  <2>6. UserRow(r, Subject(r))' = row
    BY <2>3, <2>4, <2>5 DEF UserRow, Writes, Exists
  <2>7. Raced(r)'
    BY <1>2, <2>1, RacedStays DEF Facts
  <2> QED
    BY <1>1, <2>1, <2>2, <2>3, <2>6, <2>7, MemberGoesOn DEF MemberSteps
<1>7. CASE Verdict(r, "ErrUserExists", next) /\ Exists(UserRow(r, u))
  <2>1. pc'[r] = "refetch" /\ err'[r] = err[r]
    BY <1>2, <1>3, <1>7 DEF Verdict, TypeOK
  <2>2. u \in IdsOf(r) /\ Exists(users[u]) /\ Overtaken(r, u)
    BY <1>2, <1>4, <1>7 DEF IdsOf, Members, UserRow
  <2>3. Raced(r)'
    BY <1>2, <2>1, <2>2, AloneSame DEF Raced
  <2>4. Listed(r)'
    BY <2>1 DEF Listed, InLoop, MemberSteps
  <2> QED
    BY <1>2, <2>1, <2>3, <2>4, AddTeamGoesOn, NotComposing
<1>8. CASE Verdict(r, "ErrInvalidArgument", next)
  <2>1. pc'[r] = "rollback" /\ err'[r] = "ErrInvalidArgument"
    BY <1>2, <1>3, <1>8 DEF Verdict, TypeOK
  <2>2. op[r].kind \in DOMAIN Handlers => op[r].kind = "AddTeam" /\ stage[r] = 1
    BY <1>2, Stages DEF Handlers
  <2> QED
    BY <1>2, <2>1, <2>2, FailureFacts, NotComposing DEF Expected
<1> QED
  BY <1>5, <1>6, <1>7, <1>8

LEMMA FetchAfterConflictFacts ==
  ASSUME AnswersInv, NEW r \in Requests, Alone(r), FetchAfterConflict(r)
  PROVE  Facts(r)'
<1>1. /\ TypeOK /\ CallOK(r) /\ Facts(r) /\ pc[r] = "refetch" /\ tx[r] = Aborted
      /\ Doing(r) = "CreateTeamWithMembers"
  BY OwnFacts DEF CallOK, FetchAfterConflict, In, Ready
<1>2. Verdict(r, "ErrUserExists", <<>>)
  BY <1>1 DEF FetchAfterConflict, Aborted
<1>3. pc'[r] = "rollback" /\ err'[r] = "ErrUserExists"
  BY <1>1, <1>2 DEF Verdict, TypeOK
<1>4. op[r].kind \in DOMAIN Handlers => op[r].kind = "AddTeam" /\ stage[r] = 1
  BY <1>1, Stages DEF Handlers
<1>5. \E u \in Users : u \in IdsOf(r) /\ Exists(users[u]) /\ Overtaken(r, u)
  BY <1>1 DEF Facts, Raced
<1> QED
  BY <1>1, <1>3, <1>4, <1>5, FailureFacts DEF Expected

(* updateExistingUser changes the row it writes and the one it answers     *)
(* alike: the two differ after it only if they did before.                 *)
LEMMA UpdateFacts ==
  ASSUME AnswersInv, NEW r \in Requests, Alone(r), InLoop(r),
         pc[r] \in {"updateActive", "updateName"}, pc'[r] \in {"updateName", "addMember"},
         err'[r] = err[r], NEW row \in Rows,
         tx' = [tx EXCEPT ![r] = [tx[r] EXCEPT !.users[Subject(r)] = row]],
         NEW kept, mem' = [mem EXCEPT ![r].user = kept],
         mem[r].user = UserRow(r, Subject(r)) => kept = row
  PROVE  Facts(r)' /\ Keeps(r)
<1> DEFINE u == Subject(r)
<1>1. /\ TypeOK /\ Facts(r) /\ u \in Users /\ tx[r] \in Txs /\ mem[r] \in Mems
      /\ Doing(r) = "CreateTeamWithMembers"
  BY OwnFacts, AtLoop, RequestType
<1>2. /\ mem'[r].user = kept /\ mem'[r].listed = mem[r].listed
      /\ mem'[r].next = mem[r].next
  BY <1>1 DEF TypeOK, Mems
<1>3. tx'[r].users[u] = row /\ \A v \in Users \ {u} : tx'[r].users[v] = tx[r].users[v]
  BY <1>1 DEF TypeOK, Txs
<1>4. Subject(r)' = u
  BY <1>2, AloneSame DEF Subject, Member
<1>5. UserRow(r, Subject(r))' = row
  BY <1>3, <1>4 DEF UserRow, Writes, Exists, Rows, Activity
<1>6. Raced(r)'
  BY <1>1, RacedStays DEF Facts
<1> QED
  BY <1>2, <1>3, <1>5, <1>6, MemberGoesOn DEF MemberSteps

LEMMA SetMemberFacts ==
  ASSUME AnswersInv, NEW r \in Requests, Alone(r), SetMemberActive(r) \/ SetMemberName(r)
  PROVE  Facts(r)' /\ Keeps(r)
<1> DEFINE u == Subject(r)
<1>1. /\ InLoop(r) /\ pc[r] \in {"updateActive", "updateName"} /\ BlockedBy(r) = {}
      /\ DirectoryInv /\ TypeOK
  BY OwnFacts DEF SetMemberActive, SetMemberName, In, Ready, InLoop, MemberSteps
<1>2. /\ UserRow(r, u) \in Rows /\ Found(r, u) = "nil"
      /\ Member(r) \in Specs /\ "nil" \in Errors
  BY <1>1, MemberLocked, AtLoop DEF Errors
<1>3. CASE SetMemberActive(r)
  <2> DEFINE row == [UserRow(r, u) EXCEPT !.state = Member(r).state]
             kept == [mem[r].user EXCEPT !.state = Member(r).state]
             l == IF Renamed(Member(r), mem[r].user) THEN "updateName" ELSE "addMember"
  <2>1. /\ Verdict(r, "nil", Goto(l)) /\ l \in {"updateName", "addMember"} /\ l \in Steps
        /\ tx' = [tx EXCEPT ![r] = [tx[r] EXCEPT !.users[u] = row]]
        /\ mem' = [mem EXCEPT ![r].user = kept]
    BY <1>2, <1>3 DEF SetMemberActive, UpdateUserActive, Writing, Steps
  <2>2. row \in Rows
    BY <1>2 DEF Rows, Specs
  <2>3. mem[r].user = UserRow(r, u) => kept = row
    OBVIOUS
  <2> HIDE DEF l, row, kept
  <2>4. pc'[r] = l /\ err'[r] = err[r]
    BY <1>1, <1>2, <2>1, GotoOwn
  <2> QED
    BY <1>1, <2>1, <2>2, <2>3, <2>4, UpdateFacts
<1>4. CASE SetMemberName(r)
  <2> DEFINE row == [UserRow(r, u) EXCEPT !.name = Member(r).name]
             kept == [mem[r].user EXCEPT !.name = Member(r).name]
  <2>1. /\ pc[r] = "updateName" /\ Verdict(r, "nil", Goto("addMember")) /\ "addMember" \in Steps
        /\ tx' = [tx EXCEPT ![r] = [tx[r] EXCEPT !.users[u] = row]]
        /\ mem' = [mem EXCEPT ![r].user = kept]
    BY <1>2, <1>4 DEF SetMemberName, In, Ready, UpdateUserName, Writing, Steps
  <2>2. row \in Rows
    <3>1. Member(r).name # None
      BY <1>1, <2>1, AtLoop DEF DirectoryInv, LoopOK
    <3> QED
      BY <1>2, <3>1 DEF Rows, Specs
  <2>3. mem[r].user = UserRow(r, u) => kept = row
    OBVIOUS
  <2> HIDE DEF row, kept
  <2>4. pc'[r] = "addMember" /\ err'[r] = err[r]
    BY <1>1, <1>2, <2>1, GotoOwn
  <2> QED
    BY <1>1, <2>1, <2>2, <2>3, <2>4, UpdateFacts
<1> QED
  BY <1>3, <1>4

(* The answer gets the row expected of the current member. *)
LEMMA EnrolMemberFacts ==
  ASSUME AnswersInv, NEW r \in Requests, Alone(r), EnrolMember(r)
  PROVE  Facts(r)' /\ Keeps(r)
<1> DEFINE u == Subject(r)
           n == mem[r].next
           l == NextMember(r, n + 1)
           entry == [id |-> u, row |-> mem[r].user]
<1>1. /\ InLoop(r) /\ pc[r] = "addMember" /\ DirectoryInv /\ TypeOK /\ Facts(r)
      /\ mem' = [mem EXCEPT ![r].listed = mem[r].listed \union {entry}, ![r].next = n + 1]
  BY OwnFacts DEF EnrolMember, In, Ready, InLoop, MemberSteps
<1>2. /\ pc'[r] = l /\ err' = err /\ tx'[r].users = tx[r].users
  BY <1>1, EnrolMemberWrites
<1>3. /\ l \in {"getUser", "commit"} /\ mem[r] \in Mems
      /\ Doing(r) = "CreateTeamWithMembers" /\ u \in Users
      /\ n \in DOMAIN Members(r) /\ Members(r) \in Seq(Specs) /\ u = Members(r)[n].id
  BY <1>1, RequestType, AtLoop DEF NextMember
<1>4. mem'[r].listed = mem[r].listed \union {entry} /\ mem'[r].next = n + 1
  BY <1>1, <1>3 DEF TypeOK, Mems
<1> HIDE DEF l
<1>5. Raced(r)'
  BY <1>1, <1>2, <1>3, RacedStays DEF Facts
<1>6. Listed(r)'
  <2> SUFFICES ASSUME NEW e \in mem'[r].listed
               PROVE  \E i \in DOMAIN Members(r) : i < n + 1 /\ Members(r)[i].id = e.id
    BY <1>2, <1>3, <1>4, AloneSame DEF Listed
  <2>1. CASE e \in mem[r].listed
    <3>1. PICK i \in DOMAIN Members(r) : i < n /\ Members(r)[i].id = e.id
      BY <1>1, <2>1 DEF Facts, Listed
    <3> QED
      BY <1>3, <3>1
  <2>2. CASE e = entry
    BY <1>3, <2>2
  <2> QED
    BY <1>4, <2>1, <2>2
<1>7. Keeps(r)
  <2> SUFFICES ASSUME NEW v \in Users, NamedOnce(r, v), AsExpected(r, v),
                      NEW e \in Expects(r)', e.id = v
               PROVE  e.row = UserRow(r, v)'
    BY <1>1 DEF Keeps, Composing, InLoop, AsExpected
  <2>1. e \in mem[r].listed \union {entry}
    BY <1>2, <1>3, <1>4 DEF Expects
  <2>2. e \in Expects(r)
    BY <1>1, <2>1 DEF Expects
  <2>3. UserRow(r, v)' = UserRow(r, v)
    BY <1>2, AloneSame DEF UserRow, Writes
  <2> QED
    BY <2>2, <2>3 DEF AsExpected
<1> QED
  BY <1>2, <1>3, <1>5, <1>6, <1>7, AddTeamGoesOn DEF MemberSteps

-----------------------------------------------------------------------------
(* Before the first statement, and calls that fail. *)

LEMMA RejectFacts ==
  ASSUME AnswersInv, NEW r \in Requests, Reject(r)
  PROVE  Alone(r) /\ Facts(r)'
<1>1. /\ TypeOK /\ CallOK(r) /\ Facts(r) /\ pc[r] = "begin"
      /\ Doing(r) \in {"CreateUser", "UpdateUserName", "CreateTeamWithMembers"}
  BY OwnFacts DEF Reject, Invalid
<1>2. pc'[r] = "done" /\ err'[r] = "ErrInvalidArgument"
  BY <1>1 DEF Reject, TypeOK
<1>3. Alone(r)
  BY <1>1, <1>2 DEF Reject, Alone, Answered, TypeOK
<1>4. op[r].kind \in DOMAIN Handlers => op[r].kind = "AddTeam" /\ stage[r] = 1
  BY <1>1, Stages DEF Handlers
<1> QED
  BY <1>1, <1>2, <1>3, <1>4, FailureFacts DEF Expected

LEMMA BeginFacts ==
  ASSUME AnswersInv, NEW r \in Requests, Begin(r)
  PROVE  Alone(r) /\ Facts(r)'
<1>1. /\ TypeOK /\ CallOK(r) /\ Facts(r) /\ pc[r] = "begin" /\ Doing(r) \in Methods
  BY OwnFacts, DoingType DEF Begin, CallOK
<1>2. pc'[r] = First[Doing(r)] /\ err'[r] = err[r] /\ mem'[r] = mem[r]
  BY <1>1 DEF Begin, TypeOK
<1>3. pc'[r] \in Statements \ {"refetch"}
  BY <1>1, <1>2, FirstType
<1>4. pc'[r] \notin {"orphan", "orphanCommit", "done", "refetch", "rollback", "commit"}
  BY <1>3 DEF Statements
<1>5. Alone(r)
  BY <1>1, <1>4 DEF Begin, Alone, Answered, TypeOK
<1>6. CASE op[r].kind \notin DOMAIN Handlers /\ Doing(r) # "CreateTeamWithMembers"
  BY <1>1, <1>3, <1>4, <1>5, <1>6, PlainFacts
<1>7. CASE op[r].kind = "SetIsActive"
  <2>1. stage[r] = 3 => Doing(r) = "GetUserTeamName"
    BY <1>1, <1>7, Stages
  <2>2. First["GetUserTeamName"] = "getUserTeam"
    BY DEF First
  <2>3. op[r].user \in Users
    BY <1>1, RequestType DEF Calls
  <2>4. Updated(r)'
    BY <1>1, <1>2, <1>4, <1>5, <1>7, <2>1, <2>2, <2>3, AloneSame DEF Facts, Updated
  <2> QED
    BY <1>2, <1>3, <1>4, <1>5, <1>7, <2>4, SetIsActiveGoesOn
<1>8. CASE op[r].kind = "ShowTeam"
  <2>1. Doing(r) # "CreateTeamWithMembers"
    BY <1>1, <1>8, Stages
  <2>2. Ending(r)'
    BY <1>1, <1>2, <1>4, <1>5, AloneSame DEF Facts, Ending
  <2>3. Updated(r)' /\ Enrolled(r)'
    BY <1>4, <1>5, <1>8, AloneSame DEF Updated, Enrolled, HasCreated
  <2>4. Shown(r)'
    BY <1>1, <1>4, <1>5, AloneSame DEF Facts, Shown
  <2>5. Raced(r)' /\ Listed(r)'
    BY <1>4, <1>5, <1>8, <2>1, AloneSame DEF Raced, Listed, InLoop
  <2> QED
    BY <1>5, <2>2, <2>3, <2>4, <2>5 DEF Facts
<1>9. CASE Doing(r) = "CreateTeamWithMembers"
  <2>1. pc'[r] = "createTeam"
    BY <1>2, <1>9 DEF First
  <2>2. Raced(r)'
    BY <1>1, <1>2, <1>5, <2>1, RacedStays DEF Facts
  <2>3. Listed(r)'
    BY <1>1, <1>2, <1>9, <2>1 DEF Facts, Listed, InLoop, MemberSteps
  <2> QED
    BY <1>2, <1>5, <1>9, <2>1, <2>2, <2>3, AddTeamGoesOn
<1>10. op[r].kind \in DOMAIN Handlers =>
         op[r].kind \in {"SetIsActive", "ShowTeam"} \/ Doing(r) = "CreateTeamWithMembers"
  BY <1>1, Stages DEF Handlers
<1> QED
  BY <1>5, <1>6, <1>7, <1>8, <1>9, <1>10

LEMMA CallFailsFacts ==
  ASSUME AnswersInv, NEW r \in Requests, CallFails(r)
  PROVE  Alone(r) /\ Facts(r)'
<1>1. TypeOK /\ CallOK(r) /\ Facts(r) /\ pc \in [Requests -> Steps] /\ err \in [Requests -> Errors]
  BY OwnFacts DEF TypeOK
<1>2. pc'[r] \in {"done", "orphan", "orphanCommit"}
  BY <1>1 DEF CallFails
<1>3. err'[r] = CASE pc[r] = "rollback" -> err[r]
                  [] pc[r] = "refetch" -> "ErrUserExists"
                  [] OTHER -> "ErrInternal"
  BY <1>1 DEF CallFails
<1>4. \/ pc[r] = "rollback" /\ err'[r] = err[r] /\ err[r] # "nil"
      \/ pc[r] = "refetch" /\ err'[r] = "ErrUserExists"
      \/ err'[r] = "ErrInternal"
  BY <1>3 DEF CallFails
<1>5. Alone(r)
  BY <1>1, <1>4 DEF CallFails, Alone, Answered, TypeOK
<1>6. op[r].kind \in DOMAIN Handlers =>
        err'[r] \in {"nil", "ErrInternal"} \union Expected[op[r].kind][stage[r]]
  <2>1. CASE err'[r] = err[r]
    BY <1>1, <2>1 DEF Facts, Ending
  <2>2. CASE pc[r] = "refetch" /\ err'[r] = "ErrUserExists"
    <3>1. Doing(r) = "CreateTeamWithMembers"
      BY <1>1, <2>2 DEF Facts, Ending
    <3>2. op[r].kind \in DOMAIN Handlers => op[r].kind = "AddTeam" /\ stage[r] = 1
      BY <1>1, <3>1, Stages DEF Handlers
    <3> QED
      BY <2>2, <3>2 DEF Expected
  <2> QED
    BY <1>4, <2>1, <2>2
<1>7. op[r].kind = "AddTeam" /\ err'[r] = "ErrUserExists" =>
        \E u \in Users : u \in IdsOf(r) /\ Exists(users[u]) /\ Overtaken(r, u)
  BY <1>1, <1>4 DEF Facts, Raced
<1> QED
  BY <1>1, <1>2, <1>4, <1>5, <1>6, <1>7, FailureFacts

LEMMA DeadlockDetectedFacts ==
  ASSUME AnswersInv, NEW r \in Requests, DeadlockDetected(r)
  PROVE  Alone(r) /\ Facts(r)'
<1>1. TypeOK /\ CallOK(r) /\ Facts(r)
  BY OwnFacts
<1>2. pc'[r] = "rollback" /\ err'[r] = "ErrInternal"
  BY <1>1 DEF DeadlockDetected, TypeOK
<1>3. ~Answered(r)
  <2>1. BlockedBy(r) # {}
    BY DEF DeadlockDetected, InCycle
  <2> QED
    BY <2>1 DEF BlockedBy, Answered
<1>4. Alone(r)
  BY <1>1, <1>2, <1>3 DEF DeadlockDetected, Alone, TypeOK
<1> QED
  BY <1>1, <1>2, <1>4, FailureFacts

-----------------------------------------------------------------------------
(* The end of a transaction. *)

Ends(r) ==
  /\ EndTx(r)
  /\ \/ Publish(r) /\ pc[r] \in {"commit", "orphanCommit"}
     \/ UNCHANGED tables /\ pc[r] \in {"rollback", "orphan", "orphanCommit"}

(* The users r may have written. *)
MayWrite(r, u) ==
  \/ Creates(r) /\ u \in IdsOf(r)
  \/ op[r].user = u /\ op[r].kind \in {"SetIsActive", "UpdateUserActive",
                                       "UpdateUserName", "CreateUser"}

LEMMA EndOwn ==
  ASSUME AnswersInv, NEW r \in Requests, Ends(r)
  PROVE  LET more == err[r] = "nil" /\ stage[r] < Len(Plan(op[r].kind))
         IN /\ op' = op /\ err' = err
            /\ pc'[r] = (IF more THEN "begin" ELSE "done")
            /\ stage'[r] = (IF more THEN stage[r] + 1 ELSE stage[r])
            /\ mem'[r] = (IF err[r] = "nil" THEN mem[r] ELSE Locals)
            /\ \A q \in Requests \ {r} :
                 tx'[q] = tx[q] /\ stage'[q] = stage[q] /\ pc'[q] = pc[q] /\ mem'[q] = mem[q]
BY OwnFacts DEF Ends, EndTx, TypeOK

(* What a COMMIT has written, by the method. *)
LEMMA CommitWrites ==
  ASSUME AnswersInv, NEW r \in Requests, pc[r] \in {"commit", "orphanCommit"}
  PROVE  /\ Doing(r) \in Methods \ Reading
         /\ \A u \in Users : Writes(r, u) => MayWrite(r, u)
         /\ Doing(r) # "RemoveMember" => tx[r].removed = {}
         /\ Doing(r) = "CreateTeamWithMembers" =>
              /\ tx[r].teams = {op[r].team} /\ op[r].team \notin teams
              /\ tx[r].added = {op[r].team} \X IdsOf(r)
         /\ Doing(r) = "UpdateUserActive" =>
              /\ Exists(users[op[r].user])
              /\ tx[r].users[op[r].user] = [users[op[r].user] EXCEPT !.state = op[r].state]
<1> DEFINE t == op[r].team
           u == op[r].user
           row == [name |-> op[r].name, state |-> op[r].state]
<1>1. /\ TypeOK /\ CallOK(r) /\ CommitOK(r) /\ WrittenOK(r) /\ u \in Users
      /\ ~Exists(NoUser) /\ NoTx.removed = {} /\ \A v \in Users : NoTx.users[v] = NoUser
  BY OwnFacts, RequestType DEF DirectoryInv, Calls, Exists, NoUser, NoTx
<1>2. CASE /\ Doing(r) = "CreateTeamWithMembers"
           /\ tx[r].teams = {t} /\ tx[r].removed = {}
           /\ tx[r].added = {t} \X IdsOf(r)
           /\ \A v \in Users : Writes(r, v) => v \in IdsOf(r) /\ Columns(r, v)
  <2>1. Creates(r)
    BY <1>1, <1>2, Stages
  <2> QED
    BY <1>1, <1>2, <2>1 DEF MayWrite, WrittenOK, Methods, Reading
<1>3. CASE \/ Doing(r) = "CreateTeam" /\ tx[r] = [NoTx EXCEPT !.teams = {t}]
           \/ Doing(r) = "AddMember" /\ tx[r] = [NoTx EXCEPT !.added = {<<t, u>>}]
           \/ Doing(r) = "RemoveMember" /\ tx[r] = [NoTx EXCEPT !.removed = {<<t, u>>}]
  <2>1. /\ \A v \in Users : ~Writes(r, v)
        /\ Doing(r) # "RemoveMember" => tx[r].removed = {}
    BY <1>1, <1>3 DEF Writes, NoTx
  <2> QED
    BY <1>3, <2>1 DEF Methods, Reading
<1>4. CASE \/ /\ Doing(r) = "CreateUser" /\ ~Exists(users[u]) /\ row \in Rows
              /\ tx[r] = [NoTx EXCEPT !.users[u] = row]
           \/ /\ Doing(r) = "UpdateUserName" /\ Exists(users[u]) /\ row \in Rows
              /\ tx[r] = [NoTx EXCEPT !.users[u] = [users[u] EXCEPT !.name = row.name]]
  <2>1. /\ \A v \in Users : Writes(r, v) => v = u
        /\ tx[r].removed = {}
    BY <1>1, <1>4 DEF Writes, NoTx
  <2>2. op[r].kind \in {"CreateUser", "UpdateUserName"}
    BY <1>1, <1>4, Stages DEF Handlers
  <2> QED
    BY <1>4, <2>1, <2>2 DEF MayWrite, Methods, Reading
<1>5. CASE /\ Doing(r) = "UpdateUserActive" /\ Exists(users[u])
           /\ tx[r] = [NoTx EXCEPT !.users[u] = [users[u] EXCEPT !.state = row.state]]
  <2>1. /\ \A v \in Users : Writes(r, v) => v = u
        /\ tx[r].removed = {} /\ tx[r].users[u] = [users[u] EXCEPT !.state = op[r].state]
    BY <1>1, <1>5 DEF Writes, NoTx
  <2>2. op[r].kind \in {"SetIsActive", "UpdateUserActive"}
    BY <1>1, <1>5, Stages DEF Handlers
  <2> QED
    BY <1>5, <2>1, <2>2 DEF MayWrite, Methods, Reading
<1> QED
  BY <1>1, <1>2, <1>3, <1>4, <1>5 DEF CommitOK

LEMMA EndTables ==
  ASSUME AnswersInv, NEW r \in Requests, Ends(r)
  PROVE  /\ teams \subseteq teams'
         /\ \A u \in Users : /\ Exists(users[u]) => Exists(users'[u])
                             /\ users'[u] = users[u] \/ MayWrite(r, u)
         /\ NobodyLeaves => team_members \subseteq team_members'
<1>1. CASE UNCHANGED tables
  BY <1>1 DEF tables
<1>2. CASE Publish(r) /\ pc[r] \in {"commit", "orphanCommit"}
  <2>1. \A u \in Users : users'[u] = UserRow(r, u)
    BY <1>2 DEF Publish
  <2>2. teams \subseteq teams' /\ team_members \ tx[r].removed \subseteq team_members'
    BY <1>2 DEF Publish, SeesMembers
  <2>3. NobodyLeaves => Doing(r) # "RemoveMember"
    BY OwnFacts, Stages DEF NobodyLeaves
  <2>4. NobodyLeaves => tx[r].removed = {}
    BY <1>2, <2>3, CommitWrites
  <2> QED
    BY <1>2, <2>1, <2>2, <2>4, CommitWrites DEF UserRow, Writes
<1> QED
  BY <1>1, <1>2 DEF Ends

(* Who succeeds with the creation of a team has just created it. *)
LEMMA EndCreates ==
  ASSUME AnswersInv, NEW r \in Requests, Ends(r), HasCreated(r)'
  PROVE  /\ Publish(r) /\ pc[r] = "commit" /\ op[r].team \notin teams
         /\ {op[r].team} \X IdsOf(r) \subseteq team_members'
<1>1. TypeOK /\ CallOK(r) /\ Facts(r)
  BY OwnFacts
<1>2. Creates(r) /\ err[r] = "nil"
  BY EndOwn DEF HasCreated, Creates
<1>3. Doing(r) = "CreateTeamWithMembers"
  BY <1>1, <1>2, Stages
<1>4. Publish(r) /\ pc[r] = "commit"
  BY <1>1, <1>2, <1>3 DEF Ends, Facts, Ending, Reading
<1> QED
  BY <1>3, <1>4, CommitWrites DEF Publish, SeesMembers

LEMMA EndChangers ==
  ASSUME AnswersInv, NEW r \in Requests, Ends(r), NEW u \in Users
  PROVE  /\ Changers(u) \subseteq Changers(u)'
         /\ MayWrite(r, u) => r \in Changers(u)'
<1>1. \A p \in Requests : Creates(p)' = Creates(p) /\ IdsOf(p)' = IdsOf(p)
  BY EndOwn DEF Creates, IdsOf
<1>2. stage[r] \in Nat \ {0} /\ Facts(r)
  BY OwnFacts, RequestType
<1>3. Answered(r)' \/ stage'[r] > 1
  BY <1>2, EndOwn DEF Answered
<1>4. \A p \in Requests \ {r} : Answered(p)' = Answered(p) /\ stage'[p] = stage[p]
  BY EndOwn DEF Answered
<1>5. MayWrite(r, u) => r \in Changers(u)'
  BY <1>1, <1>3, EndOwn DEF MayWrite, Changers
<1>6. Changers(u) \subseteq Changers(u)'
  <2>1. r \in Changers(u) => MayWrite(r, u)
    BY DEF Changers, MayWrite
  <2>2. \A p \in Requests \ {r} : p \in Changers(u) => p \in Changers(u)'
    BY <1>1, <1>4, EndOwn DEF Changers
  <2>3. Changers(u) \subseteq Requests
    BY DEF Changers
  <2> QED
    BY <1>5, <2>1, <2>2, <2>3
<1> QED
  BY <1>5, <1>6

(* What a COMMIT does to the state of a user, its request asked for.       *)
LEMMA EndAsked ==
  ASSUME AnswersInv, NEW r \in Requests, Ends(r), NEW u \in Users,
         users'[u].state # users[u].state
  PROVE  r \in Askers(u, users[u].state)'
<1> DEFINE v == op[r].user
           row == [name |-> op[r].name, state |-> op[r].state]
<1>1. /\ TypeOK /\ CallOK(r) /\ CommitOK(r) /\ op' = op
      /\ v \in Users /\ users[v] \in UserRows /\ op[r].state \in Activity
  BY OwnFacts, EndOwn, RequestType DEF AnswersInv, DirectoryInv, Calls, TypeOK
<1>2. Publish(r) /\ pc[r] \in {"commit", "orphanCommit"}
  BY DEF Ends, tables
<1>3. Writes(r, u) /\ users'[u] = tx[r].users[u]
  BY <1>2 DEF Publish, UserRow
<1>4. r \in Changers(u)'
  BY <1>2, <1>3, CommitWrites, EndChangers
<1>5. users[u] \in UserRows /\ users'[u] = tx[r].users[u] /\ Creates(r)' = Creates(r)
  BY <1>1, <1>3 DEF TypeOK, Creates
<1>6. CASE Doing(r) = "CreateTeamWithMembers"
  <2>1. Creates(r) /\ Columns(r, u)
    BY <1>1, <1>2, <1>3, <1>6, Stages DEF CommitOK
  <2>2. \E i \in DOMAIN op[r].members :
          op[r].members[i].id = u /\ op[r].members[i].state = users'[u].state
    BY <1>3, <2>1 DEF Columns, Members
  <2> QED
    BY <1>1, <1>4, <1>5, <2>1, <2>2 DEF Askers
<1>7. CASE Doing(r) # "CreateTeamWithMembers"
  <2>1. \/ tx[r].users = NoTx.users
        \/ Doing(r) = "CreateUser" /\ tx[r].users = [NoTx.users EXCEPT ![v] = row]
        \/ /\ Doing(r) = "UpdateUserActive"
           /\ tx[r].users = [NoTx.users EXCEPT ![v] = [users[v] EXCEPT !.state = row.state]]
        \/ tx[r].users = [NoTx.users EXCEPT ![v] = [users[v] EXCEPT !.name = row.name]]
    BY <1>1, <1>2, <1>7 DEF CommitOK, NoTx
  <2>2. NoTx.users = [w \in Users |-> NoUser] /\ ~Exists(NoUser)
    BY DEF NoTx, NoUser, Exists
  <2>3. u = v
    BY <1>3, <2>1, <2>2 DEF Writes
  <2>4. CASE Doing(r) \in {"CreateUser", "UpdateUserActive"}
    <3>1. ~Creates(r) /\ op[r].kind # "UpdateUserName"
      BY <1>1, <2>4, Stages DEF Handlers
    <3>2. users'[u].state = op[r].state
      <4>1. tx[r].users[v] # [users[v] EXCEPT !.name = row.name]
        BY <1>1, <1>3, <2>3 DEF UserRows
      <4>2. \/ tx[r].users[v] = NoUser \/ tx[r].users[v] = row
            \/ tx[r].users[v] = [users[v] EXCEPT !.state = row.state]
        BY <1>1, <2>1, <2>2, <4>1
      <4>3. tx[r].users[v] # NoUser
        BY <1>3, <2>2, <2>3 DEF Writes
      <4> QED
        BY <1>1, <1>3, <2>3, <4>2, <4>3 DEF UserRows
    <3> QED
      BY <1>1, <1>4, <1>5, <3>1, <3>2 DEF Askers
  <2>5. CASE Doing(r) \notin {"CreateUser", "UpdateUserActive"}
    <3>1. \/ tx[r].users[v] = NoUser
          \/ tx[r].users[v] = [users[v] EXCEPT !.name = row.name]
      BY <1>1, <2>1, <2>2, <2>5
    <3> QED
      BY <1>1, <1>3, <2>2, <2>3, <3>1 DEF UserRows, Writes
  <2> QED
    BY <2>4, <2>5
<1> QED
  BY <1>6, <1>7

LEMMA EndLater ==
  ASSUME AnswersInv, NEW r \in Requests, Ends(r), NEW q \in Requests \ {r}
  PROVE  Later(q)
<1>1. \A u \in Users : /\ users'[u] = users[u] \/ Overtaken(q, u)'
                       /\ \/ users'[u].state = users[u].state
                          \/ Askers(u, users[u].state)' \ {q} # {}
  BY EndTables, EndChangers, EndAsked DEF Overtaken
<1>2. \A p \in Requests : HasCreated(p)' => HasCreated(p) \/ op[p].team \notin teams
  <2>1. \A p \in Requests \ {r} : HasCreated(p)' => HasCreated(p)
    BY EndOwn DEF HasCreated, Creates
  <2> QED
    BY <2>1, EndCreates
<1> QED
  BY <1>1, <1>2, EndOwn, EndTables, EndChangers DEF Later

(* The request whose transaction ended and that has another method to call *)
(* is /users/setIsActive or /team/get.                                     *)
LEMMA EndGoesOn ==
  ASSUME AnswersInv, NEW r \in Requests, Ends(r), err[r] = "nil",
         stage[r] < Len(Plan(op[r].kind))
  PROVE  Facts(r)'
<1>1. /\ TypeOK /\ CallOK(r) /\ Facts(r) /\ DirectoryInv /\ op[r].user \in Users
      /\ \/ op[r].kind = "SetIsActive" /\ stage[r] \in {1, 2}
         \/ op[r].kind = "ShowTeam" /\ stage[r] = 1
  <2>1. /\ TypeOK /\ CallOK(r) /\ Facts(r) /\ DirectoryInv /\ op[r].user \in Users
    BY OwnFacts, RequestType DEF Calls
  <2> DEFINE last == Len(Plan(op[r].kind))
  <2>2. \/ op[r].kind = "SetIsActive" /\ stage[r] \in {1, 2, 3} /\ last = 3
        \/ op[r].kind = "ShowTeam" /\ stage[r] \in {1, 2} /\ last = 2
        \/ stage[r] = 1 /\ last = 1
    BY <2>1, Stages
  <2>3. stage[r] < last
    OBVIOUS
  <2> HIDE DEF last
  <2> QED
    BY <2>1, <2>2, <2>3
<1>2. /\ op' = op /\ err'[r] = "nil" /\ pc'[r] = "begin" /\ stage'[r] = stage[r] + 1
      /\ mem'[r] = mem[r]
  BY EndOwn
<1>3. Doing(r)' # "CreateTeamWithMembers"
  <2>1. \A i \in DOMAIN Plan(op[r].kind) : Plan(op[r].kind)[i] # "CreateTeamWithMembers"
    BY <1>1 DEF Plan, Handlers
  <2>2. stage[r] + 1 \in DOMAIN Plan(op[r].kind)
    BY <1>1, LoopIsLast DEF CallOK
  <2> QED
    BY <1>2, <2>1, <2>2 DEF Doing
<1>4. \/ pc[r] = "commit" /\ Publish(r)
      \/ pc[r] = "rollback" /\ Doing(r) \in Reading /\ UNCHANGED tables
  BY <1>1 DEF Ends, Facts, Ending
<1>5. Ending(r)' /\ Enrolled(r)' /\ Raced(r)' /\ Listed(r)'
  BY <1>1, <1>2, <1>3 DEF Ending, Enrolled, HasCreated, Raced, Listed, InLoop, MemberSteps
<1>6. CASE op[r].kind = "ShowTeam"
  <2>1. stage[r] = 1 /\ Doing(r) = "GetTeamByName"
    BY <1>1, <1>6, Stages
  <2>2. pc[r] = "rollback"
    BY <1>4, <2>1, CommitWrites DEF Reading
  <2>3. op[r].team \in teams'
    BY <1>1, <1>6, <2>2, EndTables DEF Facts, Shown
  <2>4. Shown(r)' /\ Updated(r)'
    BY <1>2, <1>6, <2>3 DEF Shown, Updated
  <2> QED
    BY <1>5, <2>4 DEF Facts
<1>7. CASE op[r].kind = "SetIsActive" /\ stage[r] = 1
  <2>1. Doing(r) = "UpdateUserActive"
    BY <1>1, <1>7, Stages
  <2>2. pc[r] = "commit" /\ Publish(r)
    BY <1>4, <2>1 DEF Reading
  <2> DEFINE u == op[r].user
  <2>3. Exists(users[u]) /\ tx[r].users[u] = [users[u] EXCEPT !.state = op[r].state]
    BY <2>1, <2>2, CommitWrites
  <2>4. users[u] \in UserRows /\ op[r].state \in Activity
    BY <1>1, RequestType DEF TypeOK, Calls
  <2>5. tx[r].users[u].state = op[r].state /\ Writes(r, u)
    BY <2>3, <2>4 DEF UserRows, Writes, Exists, Activity
  <2>6. users'[u] = tx[r].users[u]
    BY <1>1, <2>2, <2>5 DEF Publish, UserRow
  <2>7. Exists(users'[u]) /\ users'[u].state = op[r].state
    BY <2>5, <2>6 DEF Writes
  <2>8. Updated(r)' /\ Shown(r)'
    BY <1>2, <1>7, <2>7 DEF Updated, Shown
  <2> QED
    BY <1>5, <2>8 DEF Facts
<1>8. CASE op[r].kind = "SetIsActive" /\ stage[r] = 2
  <2> DEFINE u == op[r].user
  <2>1. Doing(r) = "GetUser"
    BY <1>1, <1>8, Stages
  <2>2. pc[r] = "rollback" /\ users' = users
    BY <1>4, <2>1, CommitWrites DEF Reading, Methods, tables
  <2>3. \A state : Askers(u, state) \subseteq Askers(u, state)'
    BY <1>1, <1>2, EndChangers, AskersStay
  <2>4. /\ Exists(users[u])
        /\ users[u].state = op[r].state \/ Askers(u, users[u].state) \ {r} # {}
        /\ \/ mem[r].user.state = op[r].state
           \/ Askers(u, mem[r].user.state) \ {r} # {}
    BY <1>1, <1>8, <2>2 DEF Facts, Updated
  <2>5. Updated(r)' /\ Shown(r)'
    BY <1>1, <1>2, <1>8, <2>2, <2>3, <2>4 DEF Updated, Shown
  <2> QED
    BY <1>5, <2>5 DEF Facts
<1> QED
  BY <1>1, <1>6, <1>7, <1>8

(* The request whose transaction ended and that is answered. *)
LEMMA EndAnswers ==
  ASSUME AnswersInv, NEW r \in Requests, Ends(r),
         ~(err[r] = "nil" /\ stage[r] < Len(Plan(op[r].kind)))
  PROVE  Facts(r)'
<1>1. /\ TypeOK /\ CallOK(r) /\ Facts(r) /\ op[r].user \in Users
      /\ stage[r] \in DOMAIN Plan(op[r].kind) /\ Plan(op[r].kind) \in Seq(Methods)
  BY OwnFacts, RequestType, PlanType DEF CallOK, Calls
<1>2. /\ op' = op /\ err' = err /\ pc'[r] = "done" /\ stage'[r] = stage[r]
      /\ err[r] = "nil" => mem'[r] = mem[r] /\ pc[r] \notin {"orphan", "orphanCommit"}
  BY <1>1, EndOwn DEF Facts, Ending
<1>3. \A u \in Users : /\ Overtaken(r, u) => Overtaken(r, u)'
                       /\ \A state : Askers(u, state) \subseteq Askers(u, state)'
  BY <1>2, EndChangers, AskersStay DEF Overtaken
<1>4. Ending(r)'
  <2>1. err[r] = "nil" => stage[r] = Len(Plan(op[r].kind))
    BY <1>1
  <2> QED
    BY <1>1, <1>2, <2>1 DEF Facts, Ending
<1>5. Updated(r)'
  <2>1. CASE op[r].kind = "SetIsActive" /\ stage[r] > 1
    <3>1. Doing(r) \in {"GetUser", "GetUserTeamName"}
      BY <1>1, <2>1, Stages
    <3>2. users' = users
      BY <3>1, CommitWrites DEF Ends, Reading, tables
    <3> QED
      BY <1>1, <1>2, <1>3, <2>1, <3>2 DEF Facts, Updated
  <2>2. CASE ~(op[r].kind = "SetIsActive" /\ stage[r] > 1)
    BY <1>2, <2>2 DEF Updated
  <2> QED
    BY <2>1, <2>2
<1>6. Enrolled(r)'
  BY <1>2, EndCreates DEF Enrolled, IdsOf
<1>7. Shown(r)'
  <2>1. CASE op[r].kind = "ShowTeam"
    <3>1. stage[r] = 2 => op'[r].team \in teams'
      BY <1>1, <1>2, <2>1, EndTables DEF Facts, Shown
    <3>2. \A q \in Requests : HasCreated(q)' => HasCreated(q)
      BY <1>2, <2>1, EndOwn DEF HasCreated, Creates
    <3>3. \A q \in Requests : IdsOf(q)' = IdsOf(q)
      BY <1>2 DEF IdsOf
    <3>4. ASSUME NobodyLeaves, stage[r] = 2, err[r] = "nil"
          PROVE  \A q \in Requests : HasCreated(q) /\ op[q].team = op[r].team =>
                   IdsOf(q) \subseteq {e.id : e \in mem[r].listed}
      <4>1. Doing(r) = "ListMembersByTeamID"
        BY <1>1, <2>1, <3>4, Stages
      <4>2. pc[r] = "rollback"
        BY <1>2, <3>4, <4>1, CommitWrites DEF Ends, Reading
      <4> QED
        BY <1>1, <2>1, <3>4, <4>2 DEF Facts, Shown
    <3> QED
      BY <1>2, <3>1, <3>2, <3>3, <3>4 DEF Shown, NobodyLeaves
  <2>2. CASE op[r].kind # "ShowTeam"
    BY <1>2, <2>2 DEF Shown
  <2> QED
    BY <2>1, <2>2
<1>8. Raced(r)'
  <2>1. op[r].kind = "AddTeam" /\ err[r] = "ErrUserExists" =>
          \E u \in Users : u \in IdsOf(r) /\ Exists(users[u]) /\ Overtaken(r, u)
    BY <1>1 DEF Facts, Raced
  <2>2. \A u \in Users : Exists(users[u]) => Exists(users'[u])
    BY EndTables
  <2>3. IdsOf(r)' = IdsOf(r)
    BY <1>2 DEF IdsOf
  <2> QED
    BY <1>2, <1>3, <2>1, <2>2, <2>3 DEF Raced
<1>9. Listed(r)'
  BY <1>2 DEF Listed, InLoop, MemberSteps
<1> QED
  BY <1>4, <1>5, <1>6, <1>7, <1>8, <1>9 DEF Facts

LEMMA EndFacts ==
  ASSUME AnswersInv, NEW r \in Requests, Ends(r)
  PROVE  \A q \in Requests : Facts(q)'
<1>1. Facts(r)'
  BY EndGoesOn, EndAnswers
<1>2. ASSUME NEW q \in Requests \ {r}
      PROVE  Facts(q)'
  <2>1. DirectoryInv /\ Facts(q)
    BY OwnFacts
  <2>2. /\ tx'[q] = tx[q] /\ stage'[q] = stage[q] /\ pc'[q] = pc[q]
        /\ err'[q] = err[q] /\ mem'[q] = mem[q]
    BY EndOwn
  <2> QED
    BY <2>1, <2>2, EndLater, LaterKeeps
<1> QED
  BY <1>1, <1>2

-----------------------------------------------------------------------------
(* The invariant. *)

LEMMA InitAnswers == Init => AnswersInv
<1> SUFFICES ASSUME Init
             PROVE  AnswersInv
  OBVIOUS
<1>1. DirectoryInv
  BY InitInv
<1>2. ASSUME NEW r \in Requests
      PROVE  Facts(r)
  <2>1. /\ TypeOK /\ CallOK(r) /\ pc[r] = "begin" /\ err[r] = "nil" /\ stage[r] = 1
        /\ mem[r] = Locals
    BY <1>1 DEF DirectoryInv, Init
  <2>2. ~InLoop(r)
    BY <2>1 DEF InLoop, MemberSteps
  <2>3. Ending(r) /\ Updated(r) /\ Enrolled(r) /\ Shown(r) /\ Raced(r)
    BY <2>1, <2>2 DEF Ending, Updated, Enrolled, HasCreated, Shown, Raced
  <2>4. Listed(r)
    BY <2>1, <2>2 DEF Listed, Locals, MemberSteps
  <2> QED
    BY <2>3, <2>4 DEF Facts
<1> QED
  BY <1>1, <1>2 DEF AnswersInv, Facts

LEMMA StutterLater ==
  ASSUME NEW q \in Requests, UNCHANGED vars
  PROVE  Later(q)
BY DEF vars, Later, Changers, Answered, Creates, IdsOf, HasCreated

LEMMA NextAnswers == AnswersInv /\ [Next]_vars => AnswersInv'
<1> SUFFICES ASSUME AnswersInv, [Next]_vars
             PROVE  AnswersInv'
  OBVIOUS
<1>1. DirectoryInv /\ TypeOK /\ DirectoryInv'
  BY NextInv DEF AnswersInv, DirectoryInv
<1>2. \A q \in Requests : Facts(q)'
  <2>1. CASE UNCHANGED vars
    <3>1. \A q \in Requests : Facts(q) /\ Later(q)
      BY <2>1, OwnFacts, StutterLater
    <3>2. /\ tx' = tx /\ stage' = stage /\ pc' = pc /\ err' = err /\ mem' = mem
      BY <2>1 DEF vars
    <3> QED
      BY <1>1, <3>1, <3>2, LaterKeeps
  <2>2. ASSUME NEW r \in Requests, Reject(r) \/ Begin(r) \/ CallFails(r) \/ DeadlockDetected(r)
        PROVE  \A q \in Requests : Facts(q)'
    BY <2>2, RejectFacts, BeginFacts, CallFailsFacts, DeadlockDetectedFacts, AloneKeeps
  <2>3. ASSUME NEW r \in Requests, TeamStep(r)
        PROVE  \A q \in Requests : Facts(q)'
    <3>1. Alone(r)
      BY <1>1, <2>3, TeamStepAlone
    <3>2. Facts(r)'
      BY <2>3, <3>1, InsertTeamFacts, FindMemberFacts, InsertMemberFacts,
         FetchAfterConflictFacts, SetMemberFacts, EnrolMemberFacts, FindTeamFacts,
         PlainStepFacts, ReadTeamsFacts DEF TeamStep
    <3> QED
      BY <3>1, <3>2, AloneKeeps
  <2>4. ASSUME NEW r \in Requests, AccountStep(r)
        PROVE  \A q \in Requests : Facts(q)'
    <3>1. Alone(r)
      BY <1>1, <2>4, AccountStepAlone
    <3>2. Facts(r)'
      BY <2>4, <3>1, PlainStepFacts, FindUserFacts, SetActiveFacts, FindTeamOfUserFacts,
         ReadTeamNameFacts, ReadUsersFacts DEF AccountStep
    <3> QED
      BY <3>1, <3>2, AloneKeeps
  <2>5. ASSUME NEW r \in Requests,
               Commit(r) \/ Rollback(r) \/ ServerAborts(r) \/ ServerCommits(r)
        PROVE  \A q \in Requests : Facts(q)'
    <3>1. Ends(r)
      BY <2>5 DEF Commit, Rollback, ServerAborts, ServerCommits, Ends
    <3> QED
      BY <3>1, EndFacts
  <2> QED
    BY <2>1, <2>2, <2>3, <2>4, <2>5 DEF Next, Step, Settle
<1> QED
  BY <1>1, <1>2 DEF AnswersInv, Facts

(* What each request has read, answered and told of others stays true      *)
(* whatever runs at the same time: an answer that is no longer what the    *)
(* tables hold is of a user whom another request that ended names as well. *)
THEOREM AnswersInvariance == Spec => []AnswersInv
<1> QED
  BY InitAnswers, NextAnswers, PTL DEF Spec

-----------------------------------------------------------------------------
(* What follows from it. *)

(* An answer of a request that has one. *)
LEMMA AnswerFacts ==
  ASSUME AnswersInv, NEW r \in Requests, Answered(r), err[r] = "nil"
  PROVE  pc[r] = "done" /\ stage[r] = Len(Plan(op[r].kind))
BY DEF AnswersInv, Ending, Answered

LEMMA ConsistentAnswers == AnswersInv => SetIsActiveIsConsistent
<1> SUFFICES ASSUME AnswersInv, NEW r \in Requests, op[r].kind = "SetIsActive"
             PROVE  /\ err[r] = "ErrUserNotFound" => stage[r] = 1
                    /\ err[r] # "ErrTeamNotFound"
                    /\ Answered(r) /\ err[r] = "nil" =>
                         \/ mem[r].user.state = op[r].state
                         \/ Askers(op[r].user, mem[r].user.state) \ {r} # {}
  BY DEF SetIsActiveIsConsistent
<1>1. Facts(r) /\ stage[r] \in {1, 2, 3} /\ Len(Plan(op[r].kind)) = 3
  BY OwnFacts, Stages
<1>2. err[r] \in {"nil", "ErrInternal"} \union Expected["SetIsActive"][stage[r]]
  BY <1>1 DEF Facts, Ending, Handlers
<1>3. /\ Expected["SetIsActive"][1] = {"ErrUserNotFound"}
      /\ Expected["SetIsActive"][2] = {} /\ Expected["SetIsActive"][3] = {}
  BY DEF Expected
<1>4. Answered(r) /\ err[r] = "nil" => stage[r] = 3
  BY <1>1, AnswerFacts
<1> QED
  BY <1>1, <1>2, <1>3, <1>4 DEF Facts, Updated, Overtaken

LEMMA CompleteAnswers == AnswersInv => ShownTeamIsComplete
<1> SUFFICES ASSUME AnswersInv, NEW r \in Requests, NEW q \in Requests,
                    op[r].kind = "ShowTeam", Answered(r), err[r] = "nil",
                    Creates(q), op[q].team = op[r].team, Answered(q), err[q] = "nil",
                    \A p \in Requests : op[p].kind # "RemoveMember"
             PROVE  IdsOf(q) \subseteq {e.id : e \in mem[r].listed}
  BY DEF ShownTeamIsComplete
<1>1. Shown(r) /\ Len(Plan(op[r].kind)) = 2
  BY OwnFacts, Stages DEF Facts
<1>2. pc[r] = "done" /\ stage[r] = 2 /\ HasCreated(q)
  BY <1>1, AnswerFacts DEF HasCreated
<1> QED
  BY <1>1, <1>2 DEF Shown, NobodyLeaves

LEMMA ExpectedAnswers == AnswersInv => InternalErrorOnlyIfRaced
<1> SUFFICES ASSUME AnswersInv, NEW r \in Requests, HasAnswer(r), Status(r) = 500,
                    err[r] # "ErrInternal"
             PROVE  /\ op[r].kind = "AddTeam" /\ err[r] = "ErrUserExists"
                    /\ \E u \in IdsOf(r) : Exists(users[u]) /\ Changers(u) \ {r} # {}
  BY DEF InternalErrorOnlyIfRaced
<1>1. /\ TypeOK /\ CallOK(r) /\ Facts(r) /\ op[r].kind \in DOMAIN Handlers
      /\ err[r] \in {"nil", "ErrInternal"} \union Expected[op[r].kind][stage[r]]
  BY OwnFacts DEF HasAnswer, Facts, Ending
<1>2. err[r] # "nil"
  BY <1>1 DEF Status, Success, Handlers
<1>3. err[r] \in Expected[op[r].kind][stage[r]]
  BY <1>1, <1>2
<1>4. err[r] \notin DOMAIN Known[op[r].kind][stage[r]]
  <2>1. ASSUME NEW e \in DOMAIN Known[op[r].kind][stage[r]], e = err[r]
        PROVE  FALSE
    <3>1. Status(r) = Known[op[r].kind][stage[r]][err[r]]
      BY <1>2, <2>1 DEF Status
    <3>2. CASE op[r].kind = "SetIsActive"
      <4>1. stage[r] \in {1, 2, 3}
        BY <1>1, <3>2, Stages
      <4> QED
        BY <2>1, <3>1, <3>2, <4>1 DEF Known
    <3>3. CASE op[r].kind = "ShowTeam"
      <4>1. stage[r] \in {1, 2}
        BY <1>1, <3>3, Stages
      <4> QED
        BY <2>1, <3>1, <3>3, <4>1 DEF Known
    <3>4. CASE op[r].kind = "AddTeam"
      <4>1. stage[r] = 1
        BY <1>1, <3>4, Stages
      <4> QED
        BY <2>1, <3>1, <3>4, <4>1 DEF Known
    <3> QED
      BY <1>1, <3>2, <3>3, <3>4 DEF Handlers
  <2> QED
    BY <2>1
<1>5. op[r].kind = "AddTeam" /\ err[r] = "ErrUserExists"
  <2>1. CASE op[r].kind = "SetIsActive"
    <3>1. stage[r] \in {1, 2, 3}
      BY <1>1, <2>1, Stages
    <3> QED
      BY <1>3, <1>4, <2>1, <3>1 DEF Known, Expected
  <2>2. CASE op[r].kind = "ShowTeam"
    <3>1. stage[r] \in {1, 2}
      BY <1>1, <2>2, Stages
    <3> QED
      BY <1>3, <1>4, <2>2, <3>1 DEF Known, Expected
  <2>3. CASE op[r].kind = "AddTeam"
    <3>1. stage[r] = 1
      BY <1>1, <2>3, Stages
    <3> QED
      BY <1>3, <1>4, <2>3, <3>1 DEF Known, Expected
  <2> QED
    BY <1>1, <2>1, <2>2, <2>3 DEF Handlers
<1> QED
  BY <1>1, <1>5 DEF Facts, Raced, Overtaken

(* A step of one request alone concerns no other. *)
LEMMA AloneOthers ==
  ASSUME NEW r \in Requests, Alone(r), NEW q \in Requests \ {r}
  PROVE  Keeps(q)
<1>1. /\ Composing(q)' = Composing(q) /\ Expects(q)' = Expects(q)
      /\ \A u \in Users : UserRow(q, u)' = UserRow(q, u)
  BY DEF Alone, Composing, Expects, Subject, Member, Doing, UserRow, Writes
<1> QED
  BY <1>1 DEF Keeps, AsExpected

(* The end of its own transaction leaves a request the rows it expects.    *)
LEMMA EndAgrees ==
  ASSUME AnswersInv, NEW r \in Requests, Ends(r), NEW u \in Users,
         Composing(r)', ~AsExpected(r, u)'
  PROVE  Composing(r) /\ ~AsExpected(r, u)
<1>1. /\ TypeOK /\ CallOK(r) /\ Facts(r)
  BY OwnFacts
<1>2. /\ pc'[r] = "done" /\ err[r] = "nil" /\ mem'[r] = mem[r]
      /\ Doing(r)' = Doing(r) /\ Doing(r) = "CreateTeamWithMembers"
  BY EndOwn DEF Composing, MemberSteps, Doing
<1>3. pc[r] = "commit" /\ Publish(r)
  BY <1>1, <1>2 DEF Ends, Facts, Ending, Reading
<1>4. Expects(r)' = Expects(r)
  BY <1>2, <1>3 DEF Expects
<1>5. UserRow(r, u)' = UserRow(r, u)
  <2>1. users'[u] = UserRow(r, u)
    BY <1>3 DEF Publish
  <2>2. tx'[r] = NoTx
    BY <1>1 DEF Ends, EndTx, TypeOK
  <2> QED
    BY <2>1, <2>2 DEF UserRow, Writes, NoTx, NoUser, Exists
<1> QED
  BY <1>2, <1>3, <1>4, <1>5 DEF Composing, AsExpected

(* Only the commit of what it has written overtakes another.               *)
LEMMA EndOvertakes ==
  ASSUME AnswersInv, NEW r \in Requests, Ends(r), NEW q \in Requests \ {r}, NEW u \in Users,
         Composing(q)', ~AsExpected(q, u)'
  PROVE  (Composing(q) /\ ~AsExpected(q, u)) \/ Overtakes(q, u)
<1>1. /\ Composing(q)' = Composing(q) /\ Expects(q)' = Expects(q)
      /\ tx'[q] = tx[q] /\ Writes(q, u)' = Writes(q, u)
  BY EndOwn DEF Composing, Expects, Subject, Member, Doing, Writes
<1>2. CASE UserRow(q, u)' = UserRow(q, u)
  BY <1>1, <1>2 DEF AsExpected
<1>3. CASE UserRow(q, u)' # UserRow(q, u)
  <2>1. ~Writes(q, u) /\ users'[u] # users[u]
    BY <1>1, <1>3 DEF UserRow
  <2>2. Publish(r)
    BY <2>1 DEF Ends, tables
  <2>3. Writes(r, u)
    BY <2>1, <2>2 DEF Publish, UserRow
  <2> QED
    BY <2>1, <2>2, <2>3 DEF Overtakes, Ends
<1> QED
  BY <1>2, <1>3

LEMMA StepAgrees ==
  ASSUME AnswersInv, NEW r \in Requests, Step(r) \/ Settle(r) \/ CallFails(r), ~Ends(r)
  PROVE  Alone(r) /\ Keeps(r)
<1>1. TypeOK /\ CallOK(r) /\ Facts(r)
  BY OwnFacts
<1>2. CASE Reject(r) \/ Begin(r) \/ CallFails(r) \/ DeadlockDetected(r)
  <2>1. Alone(r)
    BY <1>2, RejectFacts, BeginFacts, CallFailsFacts, DeadlockDetectedFacts
  <2>2. CASE Begin(r)
    <3>1. pc'[r] = First[Doing(r)] /\ Doing(r)' = Doing(r)
      BY <1>1, <2>1, <2>2, AloneSame DEF Begin, TypeOK
    <3>2. First["CreateTeamWithMembers"] = "createTeam"
      BY DEF First
    <3>3. Doing(r)' # "CreateTeamWithMembers" \/ pc'[r] = "createTeam"
      BY <3>1, <3>2
    <3> QED
      BY <2>1, <3>3, NotComposing
  <2>3. CASE Reject(r) \/ CallFails(r) \/ DeadlockDetected(r)
    <3>1. \/ pc'[r] \in {"rollback", "orphan", "orphanCommit"}
          \/ pc'[r] = "done" /\ err'[r] # "nil"
      BY <1>1, <2>1, <2>3 DEF Reject, CallFails, DeadlockDetected, TypeOK, Alone
    <3> QED
      BY <2>1, <3>1, NotComposing
  <2> QED
    BY <1>2, <2>1, <2>2, <2>3
<1>3. CASE TeamStep(r)
  <2>1. Alone(r) /\ Doing(r)' = Doing(r)
    BY <1>1, <1>3, TeamStepAlone, AloneSame
  <2>2. CASE FetchAfterConflict(r)
    <3>1. tx[r] = Aborted
      BY <1>1, <2>2 DEF FetchAfterConflict, In, Ready, CallOK
    <3>2. Verdict(r, "ErrUserExists", <<>>)
      BY <2>2, <3>1 DEF FetchAfterConflict, Aborted
    <3>3. pc'[r] = "rollback"
      BY <1>1, <3>2 DEF Verdict, TypeOK
    <3> QED
      BY <2>1, <3>3, NotComposing
  <2>3. CASE FindTeam(r) \/ FindUserOfTeam(r) \/ Enrol(r) \/ Dismiss(r) \/ ReadTeams(r)
    <3>1. Doing(r) # "CreateTeamWithMembers"
      BY <2>3 DEF FindTeam, FindUserOfTeam, Enrol, Dismiss, ReadTeams, In
    <3> QED
      BY <2>1, <3>1, NotComposing
  <2> QED
    BY <1>3, <2>1, <2>2, <2>3, InsertTeamFacts, FindMemberFacts, InsertMemberFacts,
       SetMemberFacts, EnrolMemberFacts DEF TeamStep
<1>4. CASE AccountStep(r)
  <2>1. Alone(r) /\ Doing(r)' = Doing(r)
    BY <1>1, <1>4, AccountStepAlone, AloneSame
  <2>2. Doing(r) # "CreateTeamWithMembers"
    BY <1>4 DEF AccountStep, InsertUser, FindUser, SetActive, Rename, FindTeamOfUser,
       ReadTeamName, ReadUsers, In
  <2> QED
    BY <2>1, <2>2, NotComposing
<1> QED
  BY <1>2, <1>3, <1>4 DEF Step, Settle, Commit, Rollback, ServerAborts, ServerCommits, Ends

LEMMA CommittedAnswers ==
  ASSUME AnswersInv, Next, NEW r \in Requests, NEW u \in Users,
         NamedOnce(r, u), Composing(r)', ~AsExpected(r, u)'
  PROVE  (Composing(r) /\ ~AsExpected(r, u)) \/ Overtakes(r, u)
<1>1. CASE UNCHANGED vars
  <2>1. Composing(r)' = Composing(r) /\ AsExpected(r, u)' = AsExpected(r, u)
    BY <1>1 DEF vars, Composing, AsExpected, Expects, Subject, Member, Doing, UserRow, Writes
  <2> QED
    BY <2>1
<1>2. ASSUME NEW q \in Requests, Ends(q)
      PROVE  (Composing(r) /\ ~AsExpected(r, u)) \/ Overtakes(r, u)
  <2>1. CASE q = r
    <3>1. Ends(r)
      BY <1>2, <2>1
    <3> QED
      BY <3>1, EndAgrees
  <2>2. CASE q # r
    BY <1>2, <2>2, EndOvertakes
  <2> QED
    BY <2>1, <2>2
<1>3. ASSUME NEW q \in Requests, Step(q) \/ Settle(q) \/ CallFails(q), ~Ends(q)
      PROVE  Composing(r) /\ ~AsExpected(r, u)
  BY <1>3, StepAgrees, AloneOthers DEF Keeps
<1> QED
  BY <1>1, <1>2, <1>3 DEF Next

(* /users/setIsActive works in three transactions, and yet: "not found"    *)
(* means that nothing was changed, the team it finds by a membership is    *)
(* there, and a state other than the one asked for is answered only if     *)
(* another request that has ended asked for that state of the user.        *)
THEOREM SetIsActiveConsistent == Spec => []SetIsActiveIsConsistent
<1> QED
  BY AnswersInvariance, ConsistentAnswers, PTL

(* /team/get works in two transactions, and yet: a team is never shown     *)
(* without a member it was created with, unless somebody removes members.  *)
THEOREM ShownComplete == Spec => []ShownTeamIsComplete
<1> QED
  BY AnswersInvariance, CompleteAnswers, PTL

(* The handlers know every error that their methods return, but one: the   *)
(* one of a member whom another request inserted after /team/add had       *)
(* looked for him.                                                         *)
THEOREM InternalErrorMeansRaced == Spec => []InternalErrorOnlyIfRaced
<1> QED
  BY AnswersInvariance, ExpectedAnswers, PTL

(* CreateTeamWithMembers answers with the rows it commits, although it     *)
(* reads them without locks: what it is going to answer of a member and    *)
(* what it is going to leave in the table begin to differ only at the      *)
(* instant another request commits a change of him.                        *)
THEOREM AnsweredAsCommitted == Spec => AnsweredAsCommittedUnlessOvertaken
<1> DEFINE Kept ==
             \A r \in Requests : \A u \in Users :
               NamedOnce(r, u) /\ Composing(r)' /\ ~AsExpected(r, u)' =>
                 (Composing(r) /\ ~AsExpected(r, u)) \/ Overtakes(r, u)
<1>1. AnswersInv /\ [Next]_vars => [Kept]_vars
  BY CommittedAnswers
<1>2. AnsweredAsCommittedUnlessOvertaken <=> [][Kept]_vars
  BY DEF AnsweredAsCommittedUnlessOvertaken
<1> HIDE DEF Kept
<1> QED
  BY <1>1, <1>2, AnswersInvariance, PTL DEF Spec
==============================================================================
