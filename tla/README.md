# Verification of the PR reviewer service

The service assigns reviewers to pull requests: `POST /pullRequest/create` picks up to
two active members of the author's team, `/pullRequest/reassign` replaces one reviewer by
another, `/pullRequest/merge` closes the pull request for good; `/team/add` creates a team
with its members and `/users/setIsActive` sends a user away or back. It keeps no state in
memory. Every call of a service opens one PostgreSQL transaction, runs a handful of
statements and commits; whatever goes right or wrong is decided by how the statements of
concurrent transactions interleave. This directory models the calls statement by
statement, checks small instances with TLC, and proves the central properties with TLAPS
for any number of users, teams, pull requests, requests and connections.

## 1. The system

| Part | State | Operations | Talks to |
|---|---|---|---|
| Pull-request service, `internal/application/pr/service.go` | Go variables of a call | CreatePR, ReassignReviewer, MergePR, GetPR, ListPRsByAssignee | unit of work, repositories, selector |
| User service, `internal/application/user/service.go` | the same | CreateUser, UpdateUserActive, UpdateUserName, GetUser, GetUserTeamName, ListUsers, ListMembersByTeamID | unit of work, user and team repositories |
| Team service, `internal/application/team/service.go` | the same | CreateTeam, CreateTeamWithMembers, AddMember, RemoveMember, GetTeam, GetTeamByName, ListTeams | unit of work, team and user repositories |
| Reviewer selection, `reviewerselector`, `utils.FilterStrings` | a `rand.Rand` behind a mutex | Select, FilterStrings, ContainsString | - |
| Repositories, `persistence/postgres/{pr,user,team}` | none | one or two SQL statements per method | the transaction they were made from |
| Unit of work, `persistence/postgres/uow` | a pooled connection and its transaction | Begin, Commit, Rollback | pgxpool |
| Database, `migrations/000001_init_tables.up.sql` | tables users, teams, team_members, prs, pr_reviewers; row locks | SQL at READ COMMITTED | - |
| HTTP handlers, `infrastructure/http/handlers` | none | the endpoints; set_is_active and get_team call several services, one transaction each | services |
| Server process, `cmd/server/main.go`, `http/server.go`, `http/router.go` | `s.server`, channels `quit` and `done` | Run, Shutdown, the request timeout | handlers |
| Migrator, configuration, logger, validator | none to speak of | start-up | - |

What is hard here:

* **Interleaving.** READ COMMITTED shows each statement the newest commits. Only the pull
  request's row is locked (`SELECT ... FOR UPDATE`); users and team members are read without
  locks. `GetPRByID` and `LockPRByID` read the row and its reviewers in two statements.
* **Time.** `assigned_at` is `now()`, the start of the transaction, not the instant of the
  assignment; the handler of reassign derives `replaced_by` from that order.
* **Failure.** chi's Timeout cancels the request's context; the deferred Rollback runs with
  the same context and cannot reach the server, which ends the transaction later. An error
  at COMMIT says nothing about whether the transaction was committed; clients repeat.
* **Resources.** `Begin` waits for a connection of the pool while requests that own one
  wait for a row.
* **Several rows.** `CreateTeamWithMembers` writes one user after the other in the order of
  its list: two of them can wait for each other, and PostgreSQL ends one.
* **Read, then write.** It decides between INSERT, UPDATE and nothing from a row it read
  without a lock; and a unique violation ends the transaction it happens in.

What makes each part correct:

* Pull-request service: at most two reviewers, never the author, members of the author's
  team and active when they were listed; a merged pull request is final; replacement is one
  for one; a creation, replacement or merge happens entirely or not at all; repeated merges
  answer with the first one's `merged_at`; the answer is what was committed.
* Handlers: the documented statuses and codes; `replaced_by` is the new reviewer; an answer
  put together from several transactions does not contradict itself.
* Unit of work: every call gives back its connection and its locks.
* Team service: a team is created with all of its members or not at all; a user changes
  only in the columns somebody asked for; every member of a team exists; calls that wait
  for each other end; the members are answered as they are stored.
* Server process: a signal ends the process; no transaction is cut off, and no answer is
  lost unless the 30 seconds of `Shutdown` have passed.

The full list of hazards, each at its line and with the properties that guard it, is in
`PROJECT.json`.

## 2. The modules

Pull requests:

| Module | Models |
|---|---|
| `Selection` | `FilterStrings`, `ContainsString`, `Select`: pure operators; a random outcome is a set of outcomes |
| `Store` | the tables, row locks, transactions, the pool, broken connections, COMMITs in doubt |
| `Repositories` | one action per SQL statement of the pull-request repository and of those of the user repository it needs |
| `PRService` | CreatePR, ReassignReviewer, MergePR, GetPR as sequences of statements |
| `Membership` | the abstract specification of what both halves share: a team is added, a user's state is set |
| `UserService` | UpdateUserActive, and the commit of `/team/add`, as far as they concern pull requests |
| `ReviewService` | the services over one store: Init, Next, fairness and the properties |
| `HttpApi` | status, error code and `replaced_by` of the pull-request endpoints |
| `PullRequests` | the abstract specification: Create, Replace and Merge, each one step |
| `ReviewInvariant` | the inductive invariant `IInv` and the layers above it (section 4) |
| `ReviewProgress` | why calls end: who waits for whom, who can go on, how much work is left |
| `ReviewServiceTypes`, `ReviewServiceProofs` | the proofs of types, of `IInv` and of what follows from it |
| `LifecycleProofs` | the proofs of the refinement, the answers, the errors, the choice of reviewers, and progress |
| `MCReviewService` | the instances for TLC, one `.cfg` per question |

Users and teams:

| Module | Models |
|---|---|
| `Directory` | the tables users, teams and team_members, transactions and what they wait for, methods and handlers, the pool, failures, the deadlock detector |
| `DirectoryRepositories` | one action per SQL statement of the team and user repositories |
| `TeamService` | the seven methods of the team service as sequences of statements |
| `UserAccounts` | the seven methods of the user service |
| `DirectoryService` | the services over one database, called directly or by the handlers of `/users/setIsActive`, `/team/add` and `/team/get`: Init, Next, fairness and the properties |
| `DirectoryApi` | the statuses of these handlers |
| `Teams` | the abstract specification: a new team with its members, a new user, a new state or name, a member who joins or leaves, each one step |
| `DirectoryInvariant` | the inductive invariant `DirectoryInv` and the layer above it, `AnswersInv` |
| `DirectoryProgress` | why calls end, out of circles, too |
| `DirectoryProofs`, `DirectoryAnswers`, `DirectoryTheorems` | the proofs |
| `MCDirectory` | the instances for TLC |

Both together:

| Module | Models |
|---|---|
| `WholeService` | the requests of `/pullRequest` and those of `/team/add` and `/users`, statement by statement, over one database and one pool |
| `WholeProofs` | its proofs: each half is the half alone, and what follows for the whole |
| `MCWhole` | its instance |

The process:

| Module | Models |
|---|---|
| `ServerLifecycle` | `main` and the goroutine of `server.Run`: start, signal, shutdown, exit |
| `ServerLifecycleProofs`, `MCServerLifecycle` | its proofs and its instance |

`ReviewService` extends `PRService` and `UserService`, which extend `Repositories`, which
extends `Store`; `HttpApi` extends `ReviewService`, and `ReviewInvariant` extends `HttpApi`. In the
same way `DirectoryService` extends `UserAccounts`, which extends `TeamService`,
`DirectoryRepositories` and `Directory`; `DirectoryApi` and `DirectoryInvariant` extend it. The
two modules on progress extend the invariants.

There are two models of the database because the two halves of the program touch at one
place, the rows of `users` and `team_members` that the choice of reviewers reads without a
lock. `Store` needs of a user that he exists and is active; `Directory` needs his columns,
several rows per transaction, aborted transactions and circles of waiting requests, none of
which the pull-request calls can bring about: each of them locks one row.

They meet in `UserService`. The routes that change users or teams are `/users/setIsActive`,
whose transaction `UpdateUserActive` is there statement by statement, and `/team/add`, which
is the single step `TeamAdded`: nothing of it can be seen before it commits, and then all of
it can. What the two halves expect of each other is a module of its own, `Membership`: the
state of each user and the members of each team change by one `AddTeam` or one `SetActive` at
a time. `ReviewService` takes its environment from there: `TeamAdded` is an `AddTeam` that waits for the
rows it updates. That `/team/add`, statement by statement, and `setIsActive` do no more than that
is what has to be shown; it is the property `ImplementsMembership` of `DirectoryService` where
only routes are called, checked in `whole`. A user may be kept as he is by an `AddTeam`, for
`/team/add` leaves alone a column that was right when it read it.

That this is enough is the subject of `WholeService`, where no step stands for a whole
transaction of the other half. It has the variables of both halves; the tables of users and
members are those of `DirectoryService`, and the pull-request half reads them through a
mapping. A request of the directory half is a request of both: its own statements are in
`DirectoryService`, and what the other half sees of it (the `UpdateUserActive` it starts with,
where that is, its uncommitted state, the lock on the user's row) is computed from them
(`SeenStep`, `SeenError`, `SeenWrite`, `Holder`) and written by every step (`Shows`). One
pool serves all (`OnePool`). The specification of the pull-request half, `PR!Spec`, is then a
property of the whole, `ImplementsReviews`: that the other half inserts a team member by
member, breaks off, waits in a circle or skips an UPDATE never shows the pull-request half
anything that `ReviewService` has not allowed for.

CreateTeam, AddMember, RemoveMember, CreateUser and UpdateUserName are methods without a
route (`router.go`); `DirectoryService` has them, `ReviewService` does not, and the theorems
about the whole exclude those that create users or move members (`OnlyRoutesWrite`).

`ServerLifecycle` stands alone: it and the services share only the pool, of which it needs
no more than that `Begin` fails once it is closed and that `pool.Close` waits for the
connections in use.

### How the model corresponds to the code

A request `r` makes the call `op[r]`; `pc[r]` names the statement it is about to execute,
`mem[r]` holds the Go variables that outlive a statement (`pr`, its `ReviewerIDs`,
`teamID`, the chosen users, the loop index), `err[r]` the error returned. An action is one
SQL statement together with the Go code up to the next one, so other transactions can
commit between any two statements. A statement that fails sends the call to its deferred
Rollback, as every `if err != nil { return }` does; an error resets `mem[r]` because such a
call returns nothing else.

`users`, `team_members`, `prs` and `pr_reviewers` are the committed tables. Writes go to
`tx[r]` and take `prLock` or `userLock`; `Row(r)` and `Assigned(r)` are the tables as `r`
sees them. `Commit` publishes, `Rollback` discards; both release the locks. `CallFails`
may strike before any statement: the client has its error at once, the transaction goes on
holding its locks as an orphan until `ServerAborts`; when it was at COMMIT, `ServerCommits`
is possible too. `Begin` needs one of `MaxConns` connections.

Abstractions, and why they lose nothing the properties speak of:

* `clock` counts transactions: two transactions never start at the same instant, whereas
  microsecond ties are possible in PostgreSQL. Ties leave the order of reviewers open,
  which only adds to what the run `replaced_by` shows.
* `merged_at` is the request that merged. The code takes it from the process's clock; what
  matters is whose value is kept. The nanoseconds that the column does not store are
  ignored, as the integration tests do (`http_pr_test.go:534`).
* Rows of `users` are reduced to existence and `is_active`; titles, names and `created_at`
  decide nothing.
* Candidates are sets: the order of the query's rows is lost in the shuffle.
* `UpdateStatus` and the existence check after an empty result are one step: the row is
  locked by the caller, so nothing can happen in between.
* Foreign keys to `users`: users are never deleted, hence the share locks of the checks
  never wait for anything the code does. `UpdateUserActive` takes a lock that is compatible
  with them.
* A statement that is interrupted has no effect. It could have taken its lock before
  being interrupted; the orphan would hold it until `ServerAborts`, as it does its others.
* Requests are well formed: validation precedes `Begin`.

The directory half is built in the same way, with these differences:

* A call is one of a method of a service or of a handler. `Plan` is the sequence of methods a
  handler calls, `stage[r]` the one `r` is in; each begins a transaction of its own. An error
  ends the handler. What a method refuses before it begins is `Reject`.
* `tx[r]` holds several rows: the users written, the team, the memberships added and removed.
  Who has written a row and not committed it has it locked, so there are no variables for
  locks; `BlockedBy(r)` is the set of those whose writes the next statement of `r` meets. An
  INSERT waits for an uncommitted row of the same key, an UPDATE or DELETE for a row that it
  can see and somebody else has changed. A statement that is blocked is not `Ready`.
* A unique violation leaves a transaction that rejects every further statement (`Aborted`,
  SQLSTATE 25P02). This is what `FetchAfterConflict` runs into. `AddMember` does not cause
  one: it is an `ON CONFLICT DO NOTHING` and looks at the number of rows.
* When the waiting requests form a circle (`InCycle`), the server ends a statement of any one
  of them (`DeadlockDetected`, 40P01), and the deferred Rollback follows.
* `mem[r]` is the row read of a user, the team found, the members listed for the answer and
  the index of the loop over the list of `/team/add`.
* Names are elements of a small set, and `None` is the empty string: the list of `/team/add`
  may contain empty ids and names because its validator does not look into it. A team is its
  name, which is unique, so the fresh UUID that is its primary key is left out.

`ServerLifecycle` has one action per statement of `main` that waits or that another
goroutine can observe; `main` and `runner` are the places the two goroutines have reached,
`quit` and `done` the fill of the channels, `serverSet` is `s.server != nil`. The read of
`s.server` in `Shutdown` is not synchronised with the assignment in `Run`: its outcome is
what `Run` has stored by then, so every order of the two is covered. `net/http`,
`os/signal` and pgx are modelled from how the code uses them: `Shutdown` closes the
listener and waits for active requests, `ListenAndServe` returns as soon as it has begun, a
signal kills the process before `signal.Notify` and is dropped when the channel is full, a
closed pool refuses `Begin`. A listener that has been opened does not fail (net/http
retries temporary errors). A request is accepted with its connection and has one
transaction; further ones would only repeat the same two steps.

## 3. What is checked

| Run | Instance | Question |
|---|---|---|
| `contention` | 3 requests out of reassignments of 2 users, a merge and a read of one open pull request with any author and reviewers; 4 users, 1 team | Does anything change after a merge? Do decisions rest on stale data? Are answers final? Which errors can occur? Is the life cycle implemented? |
| `creation` | 3 requests out of 2 creations of one id, a reassignment and a deactivation; an author with two teams, with none, or unknown; two, one or no candidates; a team may be added at any time | Is it created once? Do reviewers stay eligible while users and teams change? What is answered? Is the life cycle implemented, with as many reviewers as there are? Is every step progress? |
| `liveness` | 3 requests out of a creation, a merge and a deactivation, for 2 connections | Does every call end and give back what it holds? Can somebody always go on, when connections are scarce, too? Is the life cycle implemented? |
| `directory` | 2 requests out of 26 calls: every method and handler; 2 users, 2 teams, 2 names, 4 contents of the tables | Do the services keep their promises (`Teams`)? Do answers from several transactions fit together? What does a stale comparison do? When can circles of waiting requests arise? Can somebody always go on? Is every step progress? |
| `whole` | 2 requests out of 2 of `/team/add` with the same 2 members in opposite orders and one of `/users/setIsActive`, beside 1 creation of a pull request by one of 2 authors, for 2 connections | Is the pull-request half still `ReviewService` when the other half writes its rows one by one? Does `/team/add` show what it relies on (`Membership`)? Who is assigned? Do all requests end, out of circles too? |
| `shutdown` | the server process, 3 requests, 2 signals | Does a signal end the process? What is cut off? Where can the process come to rest? |
| `replaced_by`, `only_active`, `his_team`, `new_user_race`, `users_as_sent`, `signal` | 2 requests (`signal` as `shutdown`) | Where the code does not do what its documentation says (section 5) |

The bounds. Conflicts need two transactions on one pull request; a third one is what it
takes for a lock to be inherited by a late comer, for a repeated merge to meet a
reassignment in progress, and for a deactivation to happen during two other calls. One
pull request is enough because rows of different pull requests share no lock and no
statement touches two. Four users give an author, two reviewers and one spare; a spare is
needed for a replacement to succeed, and no spare is left when he is inactive or already
assigned, so all the branches of the tests fire. In `creation` the team that may be added
(`OneMoreTeam`) has the second author, who may be unknown or without a team until then, a
reviewer whom it deactivates and a user whom it brings back; one such step meets each
statement of each call. The choice of two among more candidates is not model-checked for
creations: with two candidates at most, everybody is chosen. What depends on it, `Refinement`
and `Eligibility`, is proved for any number of users; `contention` starts from every pair of
reviewers among the three colleagues of the author.

For the directory, two members are what a circle of two needs; the lists name them in the
same and in opposite orders, one twice, one list is empty, and names and states agree with
the table or do not, so that each of the two UPDATEs is done or skipped. Two requests give
every pair of methods every interleaving. A circle of three would need three users; the
theorem `NoDeadlock` covers circles of any size.

In `whole` the two creations of teams can wait for each other's rows in a circle while the
creation of the pull request waits for one of their connections, or holds one of the two and
lets only one of them run. One author's only candidate is away until a team brings him back;
the other's are a member of his old team, or of a new one somebody who is unknown until then and
may be sent away again. Existing pull requests are left to `contention` and `creation`: the
theorem `ReviewRefinement` carries their results over.

A run checks a property where its instance has something to say about it. So
`ReplacedByWrongOnlyIfOvertaken` and `RememberedIsCurrent` are checked in `contention`, which has
the reassignments and merges they are about; `ImplementsLifecycle` there (replacements and
merges), in `creation` (a creation with two, one or no reviewers against a replacement) and in
`liveness` (a creation against a merge); `EveryStepIsProgress` in `creation`, where the loop over
the reviewers makes two, one or no rounds, and in `directory`; `SomebodyGoesOn` in `liveness`, where
three requests exhaust the pool of two, and in `directory`, where requests wait in circles;
`ImplementsTeams` and `NoDeadlockInCommonOrder` in `directory`, which has all methods. That they
hold of the other instances follows from the theorems of section 4.

Requests are interchangeable in the safety runs, and in `contention` and `replaced_by` so are
the two users who may be replaced, and the other two: neither `Next` nor a property of those runs
names a particular one, so permuted states have permuted futures; no symmetry is used where liveness is checked. For the server,
three requests are one waiting for a connection, one in its transaction and one answering at
the moment of the signal; the second signal is the one that finds the channel full or `main`
already shutting down.

### The properties

* `MergedIsFinal`: no step changes a pull request that was merged before it.
* `ImplementsLifecycle`: the tables, with reviewers as sets, behave as `PullRequests`: each
  commit is exactly one creation with at most two reviewers who are not the author, one
  one-for-one replacement in an open pull request, or one merge.
* `RememberedIsCurrent`: between the lock and the commit of a merge or a reassignment, what
  the call read is still what the tables say, and what is about to be answered is what is
  about to be committed.
* `MergedAnswersAreFinal`: any answer that says MERGED, also one that `GetPR` composed from
  two snapshots, carries the reviewers and `merged_at` the pull request keeps for ever.
* `NoSpuriousError`: the errors for which the handlers have no answer
  (`ErrTooManyReviewers`, `ErrReviewerAlreadyAssigned`, `ErrAlreadyMerged` of a merge) cannot
  occur, and `ErrReviewerNotAssigned` is never that of a DELETE that missed a reviewer the
  call has just read.
* `ReviewersAreEligible`: a reviewer is not the author and shares a team with him; he is
  inactive only if a call that deactivates him has begun or an added team brought him in as
  inactive.
* `CreatedOnce`: at most one of the concurrent creations succeeds, and its row is the one.
* `UndocumentedOnlyWithoutTeam`: whatever interferes, the endpoints answer with a documented
  status and code, except for an author without a team.
* `ReplacedByWrongOnlyIfOvertaken`: the extent of the defect shown by `replaced_by`.
* `ImplementsTeams`: each commit of the team and user services is one operation of `Teams`. A
  team appears with exactly the members it was given and with those users that did not
  exist; an existing user changes only in columns that the list gave another value.
* `ImplementsMembership` (of the directory half, in `whole`): the rows that the choice of reviewers
  reads without a lock change by one team that is added, with all its members, or by one existing
  user whose state is set; nothing else of a call shows, whether it fails or not.
* `AnsweredAsCommittedUnlessOvertaken`: from the instant `/team/add` has read or created a member, the
  row it is going to answer for him is the one it will leave in the table. The two begin to
  differ only in the very step in which another request commits a change of that member, and
  never once the call has written him. It is an action property, so that requests that failed,
  or ended before he was read, excuse nothing.
* `SetIsActiveIsConsistent`: the three transactions of setIsActive never answer "not found"
  after the update was committed, and answer with another state only if another request that
  has ended, if only in doubt, asked for that very state of the user.
* `ShownTeamIsComplete`: a team that `/team/get` shows, reading team and members in two
  transactions, has all the members it was created with.
* `InternalErrorOnlyIfRaced`: where nothing failed, `/team/add`, `/team/get` and setIsActive
  answer 500 only in the race shown by `new_user_race`.
* `NoDeadlockInCommonOrder`: lists that name their members in a common order never lead to a
  circle, whatever else is running.
* `EveryCallEnds`, and `EveryRequestEnds` of the whole service: every call returns with its
  connection, rows and locks given back, out of a deadlock, too, and when both halves compete
  for the pool.
* `ImplementsReviews`: the pull-request half of the whole service behaves as `ReviewService`.
* `ReviewersFitDirectory`: in the whole service, whatever is half inserted while the reviewers
  are chosen, a reviewer is not the author, both are members of a team that exists, and if he is
  inactive, a request that asked for it has ended.
* `SomebodyGoesOn` (in both halves): unless all calls are over, one of them can go on, however
  few connections there are. Of pull requests more is true: whoever keeps others waiting for
  a row waits for nothing himself. Of the directory less: he is in the middle of his
  transaction, so he does not wait for the pool, but he may be in a circle, which the
  detector of deadlocks breaks.
* `EveryStepIsProgress` (in both halves): every step, of a call that fails, too, shortens the
  work that is left of one call and of no other. The loops over reviewers, members and methods
  end; nothing is tried again without end.
* `GoesOnIsEnabled` (in both halves): what the properties of progress mean by going on is that an
  action of the model is enabled.
* `NoTransactionCutOff`, `AnswersUnlessLate`: the process does not exit under a transaction,
  nor, unless the deadline has passed, before it has answered what it accepted.
* `StopsOnceStarted`: once `Shutdown` has been called on a server that exists, also one
  that has not opened its listener yet, the process exits.
* `KnownRestingPlaces`: with no further signal, client or deadline the process comes to rest only
  when it has exited, when it serves, when it could not listen and waits for a signal, or
  when `main` has called `Shutdown` too early (section 5).
* `TypeOK`, and `IInv`, `DirectoryInv` and `ShutdownInv`, the invariants the proofs use
  (section 4).

Every property of a passing run has a mutation of the code's model that breaks it; the
mutated operators stand beside the originals and are marked "Mutation".

### Fairness

`FairSpec` and, of both halves, `FairWhole` assume weak fairness of the process's steps of each request (`Step`), and of what
the server does of its own accord (`Settle`): ending the transaction of a connection that is
gone and, of the directory, ending a deadlock. Goroutines are scheduled and PostgreSQL
executes what it is sent; it queues the waiters of a row, TCP keep-alive or the closed socket
ends a transaction whose client is gone, and `deadlock_timeout` starts the detector. Which
request of a circle it ends is not assumed, nor that any call ever fails. Weak fairness is
enough because a request waits for at most one row at a time and an instance has finitely
many requests: whoever blocks it ends, and nobody takes the row back for ever. `TeamAdded` is
not fair: nobody has to add a team. Deadlock is checked in every run of the services: the
only state without a step of the system is `Quiescent`, which stutters explicitly.

`ServerLifecycle!FairSpec` assumes that the two goroutines run and that handlers end, which
the request timeout sees to; that the deadline passes, or that a signal comes, is never
assumed. Deadlock is not checked there: the process is meant to end, and what must not
happen, waiting for ever, is what the two temporal properties are about.

## 4. What is proved

For any values of the constants that satisfy the assumptions named in `Store` and
`Directory`: NULL is no key; users and requests are finite; the workload consists of calls;
the contents of the tables at the start are rows of the right type, for the directory with
every member a user and his team a team; new teams are teams with members; the pool is not
empty (`NullAssumption`, `FiniteAssumption`, `WorkloadAssumption`, `DirectoryAssumption`,
`NewTeamsAssumption`, `PoolAssumption`). For the server process only `SignalsAssumption`,
that the bound on signals is a number.

| Module | Theorem | Statement |
|---|---|---|
| `ReviewServiceProofs` | `Invariance` | `Spec => []IInv` |
| | `TypeCorrect` | `Spec => []TypeOK` |
| | `Remembered` | `Spec => []RememberedIsCurrent` |
| | `MergedStays` | `Spec => MergedIsFinal` |
| `LifecycleProofs` | `Refinement` | `Spec => ImplementsLifecycle` |
| | `MergedAnswers` | `Spec => []MergedAnswersAreFinal` |
| | `CreationOnce` | `Spec => []CreatedOnce` |
| | `NoErrorIsSpurious` | `Spec => []NoSpuriousError` |
| | `Eligibility` | `Spec => []ReviewersAreEligible` |
| | `Documentation` | `Spec => []UndocumentedOnlyWithoutTeam` |
| | `WrongNameMeansOvertaken` | `Spec => []ReplacedByWrongOnlyIfOvertaken` |
| | `LocksInvariance` | `Spec => []LocksInv` |
| | `NobodyWaitsInVain` | `Spec => []SomebodyGoesOn` |
| | `Progress` | `Spec => EveryStepIsProgress` |
| `DirectoryProofs` | `Invariance` | `Spec => []DirectoryInv` |
| | `TypeCorrect` | `Spec => []TypeOK` |
| `DirectoryTheorems` | `Refinement` | `Spec => ImplementsTeams` |
| | `MembershipShared` | `OnlyRoutesWrite`, then `Spec => ImplementsMembership` |
| | `NoDeadlock` | `Spec => []NoDeadlockInCommonOrder` |
| | `NobodyWaitsInVain` | `Spec => []SomebodyGoesOn` |
| | `Progress` | `Spec => EveryStepIsProgress` |
| `DirectoryAnswers` | `AnswersInvariance` | `Spec => []AnswersInv` |
| | `SetIsActiveConsistent` | `Spec => []SetIsActiveIsConsistent` |
| | `ShownComplete` | `Spec => []ShownTeamIsComplete` |
| | `InternalErrorMeansRaced` | `Spec => []InternalErrorOnlyIfRaced` |
| | `AnsweredAsCommitted` | `Spec => AnsweredAsCommittedUnlessOvertaken` |
| `WholeProofs` | `ReviewRefinement` | `WholeSpec => ImplementsReviews` |
| | `WholeMembership` | `WholeSpec => ImplementsMembership` |
| | `ReviewersFit` | `WholeSpec => []ReviewersFitDirectory` |
| | `WholeInvariance`, `StaysTogether` | `WholeSpec => []WholeInv`, `WholeSpec => []Together` |
| | `WholeLifecycle`, `WholeAnswers`, `WholeDirectory` | the life cycle, the answers and the directory's promises in the whole service |
| `ServerLifecycleProofs` | `ShutdownInvariance` | `Spec => []ShutdownInv` |
| | `TypeCorrect` | `Spec => []TypeOK` |
| | `TransactionsEnd` | `Spec => []NoTransactionCutOff` |
| | `AnswersGiven` | `Spec => []AnswersUnlessLate` |
| | `RestingPlaces` | `Spec => []KnownRestingPlaces` |

### Pull requests

Of the properties of `ReviewServiceProofs` only `IInv` is inductive. `TypeOK` alone does not
know that the index of the loop over the chosen reviewers is inside its slice; `RememberedIsCurrent` does not know why
nobody else can commit. `IInv` adds

* `CallOK(r)`: for every step of every call, which row lock it holds, what it has read, and
  exactly what it has written (`Creating`, `Replacing`, `Merging`); calls that only read
  and calls before their first write have written nothing (`Unwritten`);
* `Shape(r)` for a COMMIT in doubt: whatever the server may still publish is empty or one
  creation, replacement or merge of a pull request whose row is locked by `r`;
* `TablesOK`: a pull request without a row has no reviewers.

The argument has three parts. *Types*: each action keeps `TypeOK`
(`ReviewServiceTypes`). *The request that moves*: each action takes `CallOK` from its step
to the next (`...OK` lemmas of `ReviewServiceProofs`). *The others*: every action is
`Frame`d, it changes nothing of another request and nothing under a lock another request
holds, and `CallOK(q)` speaks of the tables only under `q`'s lock (`FrameKeepsCall`); this is
where `FOR UPDATE` does its work. The end of a transaction publishes only what has a
`Shape` (`CommitShape`, `PublishOK`). `MergedStays` and `Refinement` follow because the
tables change by publishing only (`OnlyPublished`) and each `Shape` excludes a merged
pull request and is one abstract operation.

Most other properties need more than `IInv`. Of the layers above it the first three and
`LocksInv` are each inductive together with `IInv`, without the others; `GivenInv` and
`DatesInv` rest on them:

* `AnswersInv`, of what calls have answered: only GetPR ends in its Rollback without an error
  (`Told`), UpdateUserActive answers no row (`NoRow`), an answer that says MERGED is what the
  tables say (`FinalAnswer`), and who has created a pull request finds it under his name and
  nobody else has created it (`Created`, `Born`). It is kept because, by `MergedStays` and
  `Refinement`, a merged pull request does not change and one that exists does not vanish.
* `ErrorsInv`, of the errors: there are at most two reviewers (`Few`, from `Refinement`), so
  the count before an INSERT is below two; the selection is without repetitions (`Distinct`);
  nothing but the end of the transaction follows an error (`Quiet`).
* `EligibleInv`, of the choice: the team is one of the author's, and who was selected or
  inserted may review for him (`Chosen`). That a user is `Eligible` for an author is stable,
  since memberships grow, a deactivating call that has begun has begun for good, and nothing
  but UpdateUserActive and `TeamAdded` changes users. UpdateUserActive writes only over a
  user who exists (`UserWrites`), and none vanishes (`UsersStay`).
* `GivenInv`, over `ErrorsInv` and `EligibleInv`, of what the handlers are given: the errors
  of each statement less those `NoSpuriousError` excludes are all in the handlers' switches,
  save that of an author without a team. ReassignReviewer always finds a team, because a
  reviewer of the pull request shares one with the author.
* `DatesInv`, over `AnswersInv` and `ErrorsInv`, of `assigned_at`: no two transactions have
  the same instant (`Dated`), and a row of `pr_reviewers` has the instant of the request that
  wrote it, which is over (`Signed`). If the last of the reviewers in the answer is not the
  new one, his instant is later, and so he was put there by another request that began later
  (`LastReviewer`).
* `LocksInv`, of who holds what (`HeldOK`): the lock of a pull request is held only by a
  request that works on it and is between its first statement and its end, the row of a user
  only by a deactivation that is about to commit, and who has changed reviewers holds the
  lock of their pull request.

`NobodyWaitsInVain` rests on `LocksInv`: a request that waits has not got the lock it waits
for, and since a call locks one row, it has no other that somebody could wait for. So whoever
is waited for goes on. If nobody is, the only thing left to wait for is a connection, and
those that have one are not waiting for it.

`Progress` is by cases over the statements, each of which has a number in `StatementsLeft` greater
than that of the next. The loop of `assign` and `count` goes back, and pays for it with the
reviewer it has inserted.

### Users and teams

`DirectoryInv` says of each transaction what it has written at each statement: nothing,
outside the loop of `CreateTeamWithMembers` and before its last statement (`CallOK`); in the
loop, the team and the members before the current one, and of a user only columns that the
list gives (`LoopOK`); at COMMIT, or in doubt, exactly what its method promises (`CommitOK`).
`WrittenOK` and `TablesOK` keep rows complete and memberships between existing teams and
users; `Exclusive`, that nobody else has written the same user or team, is where the waiting
of `BlockedBy` is used, and what makes all the rest survive the steps of others. Types come
first, then the invariant (`DirectoryProofs`); in `DirectoryTheorems`
every `Publish` of what `CommitOK` allows is one operation of `Teams`, and every other step
leaves the tables alone (`OnlyPublished`).

`MembershipShared` is the same about `Membership`, which `ReviewService` relies on; for the names of users do not matter there: a
`NewTeam` of `Teams` is an `AddTeam` that keeps whoever has the state he had. It has one
assumption, `OnlyRoutesWrite`: no call is of CreateUser, AddMember or RemoveMember, which have no route
and would be further operations.

`NoDeadlock` is about circles of any size. Suppose the lists follow a common order. Everybody
in a circle is waited for, so he has written something and is not yet about to commit it: he
is inside the loop of `CreateTeamWithMembers`, as every other method commits what it writes
without a statement in between. Such a request waits for the row of its current member and has written only members
before him. Take the member of greatest rank that somebody of the circle waits for: whoever
has written him waits for one of a greater rank.

`NobodyWaitsInVain` is about circles, too. If every request that has begun waits for another
one, those that keep somebody waiting are a set without a way out: each of its members waits
for another member. A smallest set of this kind is a circle (`WaitingMakesCircle`), because
the members that one of them reaches are again such a set. Its members can go on: the server
ends one of their statements. Otherwise somebody who has begun is not blocked; and if nobody
has begun, the pool is not empty. `Progress` counts the statements to the end of the
method, four for each member still to come in the loop of `CreateTeamWithMembers` and twelve
for each method still to come, more than the statements of any.

The properties of answers need `AnswersInv`, a layer above `DirectoryInv` as on the other
side: where a call can end and with which errors a handler (`Ending`); what
`/users/setIsActive` knows after its update and after each read (`Updated`); that the members
a team was created with are still there (`Enrolled`) and were read by whoever shows the team
(`Shown`); how a member can be met whom the request has looked for in vain (`Raced`); and
and that `CreateTeamWithMembers` has put into its answer the members up to the current one
(`Listed`). A step of another request keeps all of it, because the tables change only when a
transaction is published: then whoever has changed a user belongs to his `Changers` from that step
on, and to the `Askers` of the state the user has then, if he has a new one (`EndAsked`);
memberships only grow unless somebody calls RemoveMember, and a team that appears was not there
before. What is left is the request that moves, method by method.

`AnsweredAsCommitted` is about steps. While a request composes its answer, its own step takes the
member it has in hand from one row of the answer to the next, and keeps the row equal to what it
sees of him (`StepAgrees`); a step of another request that publishes nothing changes neither
(`AloneOthers`); one that publishes changes what the first sees of a user only if it has written
him and the first has not, by `Exclusive`, and that is `Overtakes` (`EndAgrees`, `EndOvertakes`).

### Both together

The theorems of `WholeProofs` assume `OnlyRoutesWrite`, except
`WholeDirectory`, and `ReviewsAssumption`: the requests of the two halves are different ones,
and those of `/pullRequest` do not update users.

The directory half is the half alone by the way `WholeService` is built (lemma
`DirectoryRefinement`): a step of the whole is one of its steps with the pool at least as full, or
leaves it alone. So `DirectoryInv` and all that is proved of
`DirectoryService` holds.

`ReviewRefinement` is a simulation. `WholeInv` joins `DirectoryInv`, `IInv` of the
pull-request half and `Together`: what that half sees of each request is what follows from
its state (`Mirrored`), and a user's row is locked exactly by the one who has updated him in an
`UpdateUserActive`. Each statement of such an `UpdateUserActive` is then the statement of the
same name of `ReviewService` (`UpdatingMoves`): what it waits for, sees, writes and may fail with are
the same. At `setActive`, for instance, the directory half says that nobody else has written the user, and
the other half needs the lock to be free; these agree because the holder of the lock is
chosen among the writers, of whom by `Exclusive` there is one at most. Every other step of the
directory half is a stutter or `TeamAdded` (`UnseenMoves`): the tables change only by
publishing, what `CommitOK` allows a route to publish is one team with all its members, and by
`Exclusive` nobody has a lock on the users it writes. A step of `/pullRequest` is a step of
`ReviewService` as it stands; it does not touch what the mirrored requests are computed from.

`ReviewersFit` needs one more invariant, `PickedInv`. It says that whoever was selected or
inserted is active, or a request that asked for the contrary has ended (`EndInactive`,
`ReasonStays`): the query for candidates shows active users only (`PickedStay`), a user who
was active becomes inactive only by an update or a list that says so, and that request is among
his `Askers` from the moment it publishes. The rest is `ReviewersAreEligible`, which
comes with the refinement.

### The process

`ShutdownInv` adds to the two properties of the process what `main.go` relies on: `done` is
filled only by a `Run` that has returned (`DoneMeansReturned`), `Run` returns without
`Shutdown` only if it never served (`NeverServed`), and after a `Shutdown` in time nothing
is active (`DrainedInTime`). For `RestingPlaces` it has to say more than `AnswersUnlessLate`
needs: the goroutine exists exactly from `go` on, and a `Run` that has returned has filled `done`
as long as nobody has emptied it. The cases in which neither goroutine nor a handler can go on
are then the four it lists.

### Only model-checked

Liveness and ENABLED, which are outside the prover's reach: `EveryCallEnds`, `EveryRequestEnds`,
`StopsOnceStarted`, and `GoesOnIsEnabled`. Every other property of a passing run is a theorem.

What is proved of progress is most of `EveryCallEnds`, for any number of requests, users and
connections; the rest is an argument on paper. By `Progress` every step uses up work, so there
are finitely many steps of calls. After the last one, if a call is not over, somebody goes on
by `NobodyWaitsInVain`; by `GoesOnIsEnabled` a step of his call or of the server for it is
enabled, and it stays enabled, as there are no more steps. This contradicts weak fairness.
With pull requests there are also steps of `TeamAdded`, which each use up a new team. For
`EveryRequestEnds` the same holds of each half of the whole service, except that a request may wait
for a connection the other half has; but then the pool is not empty, and somebody who owns a
connection goes on in his half.

## 5. Where the code and its documentation differ

* `replaced_by`. The handler answers with the last reviewer by `assigned_at`. Two
  reassignments of one pull request, of which the one that began first locks the row last:
  its new reviewer has the earlier `now()`, and the answer names the other one's reviewer
  (`docs/openapi.yml:391`). The same happens when the pull request is created by a request
  that began after the reassignment. `ReplacedByWrongOnlyIfOvertaken` shows there is no other
  way.
* Only active users (`README.md:71`): the candidates are read without a lock, so a
  deactivation committed between that query and the commit leaves an inactive reviewer.
* His team (`README.md:68`, `docs/openapi.yml:364`): the replacement comes from a team of
  the author, and with several teams not necessarily one of the replaced reviewer's.
* A signal received before `Run` has stored `s.server` (`server.go:50`): `Shutdown` does
  nothing, the server starts and serves, `main` waits at `<-done` for ever, and further
  signals go into a channel nobody reads. `main.go:73` and `:83` announce the shutdown and
  the exit.
* A new member in two teams that are added at once (`team/service.go:252`, run
  `new_user_race`): the INSERT that loses has aborted the transaction, so the second
  `GetUserByID`, written for just this case, always fails, and the answer is 500 instead of
  the user being updated (`docs/openapi.yml:153`). `InternalErrorOnlyIfRaced` shows there is no
  other way to an internal error.
* An existing member in two teams that are added at once (`team/service.go:272`, run
  `users_as_sent`): each call skips the column that agrees with what it read; one writes the
  name and the other the state, and the user ends as neither of the two 201 answers says.

The runs above find these. Some differences are visible in the text of the code alone:

* 404 for an author without a team (`docs/openapi.yml:309`): the handler answers 500. The
  property `UndocumentedOnlyWithoutTeam` shows that this is the only such case.
* 400 for a team that exists (`docs/openapi.yml:189`): the handler answers 409
  (`add_team.go:52`).
* `README.md` says that adding a member again is no error (its section on problems and
  solutions, 4): the service's AddMember returns `ErrAlreadyExists`; only
  CreateTeamWithMembers ignores it.
* AddMember and RemoveMember take the user's id as a UUID (`team/service.go:58`), while
  `users.id` is TEXT and given by the client.
* `README.md` lists `POST /users/create`, which `router.go` does not route.

## 6. Not modelled

* The migrator, configuration, logger and validator: start-up I/O and wrappers of libraries,
  without state of their own. Decoding and validating bodies: requests are well formed, in
  the sense the validator gives to it.
* `/users/getReview` and `ListPRsByReviewer`: one statement, one snapshot; nothing to
  interleave with and nothing changed.
* The service methods without a route are not composed with the calls on pull requests
  (section 2).
* Serialization failures, disk errors and other failures of a statement are `CallFails`.
* What should happen when `ListenAndServe` fails: `main` goes on waiting for a signal
  (`main.go:72`). Nothing says that it should not; it is one of the
  `KnownRestingPlaces`, and a signal still ends the process.

## 7. Plan

What is left is the part of the argument for `EveryCallEnds` and `EveryRequestEnds` that is on
paper: that the sum of `WorkLeft` over all requests decreases, and the step from there and from
weak fairness to termination, which the provers cannot take.
