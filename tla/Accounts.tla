------------------------------ MODULE Accounts ------------------------------
(***************************************************************************)
(* The accounts of the operators: UsersService, behind JwtAuthGuard.       *)
(*                                                                         *)
(* Each request is a process whose steps are its SQL statements.  update   *)
(* runs in a transaction and locks the rows it decides on.  The two        *)
(* password handlers do not: they read a row, hash for a while, and hand   *)
(* the entity they read to TypeORM's save, which reads the row again and   *)
(* writes every column in which the two differ.                            *)
(***************************************************************************)
EXTENDS FiniteSets

CONSTANTS
    User,           \* the emails accounts are known by
    Role,
    Request,        \* what is served at the same time
    Admins,         \* the accounts there are at first
    NoUser, Free    \* not a user; the holder of a row that is not locked

ASSUME AccountsAssumption ==
    /\ "admin" \in Role /\ {"none", "unset"} \cap Role = {}
    /\ Admins \subseteq User /\ Admins # {}
    /\ NoUser \notin User /\ Free \notin Request

VARIABLES
    users,      \* the rows
    lock,       \* of each row: the transaction that holds it
    req         \* of each request: what it is doing

accountsVars == <<users, lock, req>>

Nothing == [role |-> "none", active |-> "no"]
Account == [role : Role, active : {"yes", "no"}]
Column == {"role", "active"}

\* The body of a PATCH: the columns it gives, and "unset" for the others.
Change == [role : Role \cup {"unset"}, active : {"yes", "no", "unset"}]
Keep == [role |-> "unset", active |-> "unset"]

Exists(u) == users[u] # Nothing
ActiveAdmin(u) == users[u] = [role |-> "admin", active |-> "yes"]

Idle == [step |-> "idle", actor |-> NoUser, target |-> NoUser, change |-> Keep,
         seen  |-> Nothing,     \* the target's row, as it was read
         dirty |-> {},          \* the columns a save has found to differ
         todo  |-> {},          \* the other admins still to lock
         others |-> {}]         \* those locked, and still active admins

AccountsInit ==
    /\ users = [u \in User |-> IF u \in Admins
                               THEN [role |-> "admin", active |-> "yes"] ELSE Nothing]
    /\ lock = [u \in User |-> Free]
    /\ req = [r \in Request |-> Idle]

Set(r, state) == req' = [req EXCEPT ![r] = state]

\* The end of a request, and of its transaction if it has one.
Unlocked(r) == [u \in User |-> IF lock[u] = r THEN Free ELSE lock[u]]
Finish(r) == Set(r, Idle) /\ lock' = Unlocked(r)

-----------------------------------------------------------------------------
(* JwtAuthGuard: the row decides, when the request comes in.  A request for *)
(* an id nobody has is answered 404 and is left out: rows are not deleted.  *)

Active(u) == users[u].active = "yes"

Called(step, actor, target, change) ==
    [Idle EXCEPT !.step = step, !.actor = actor, !.target = target, !.change = change]

CallUpdate(r, actor, target, change) ==
    /\ req[r] = Idle
    /\ ActiveAdmin(actor) /\ Exists(target) /\ change # Keep
    /\ Set(r, Called("lock", actor, target, change))
    /\ UNCHANGED <<users, lock>>

CallReset(r, actor, target) ==
    /\ req[r] = Idle
    /\ ActiveAdmin(actor) /\ Exists(target)
    /\ Set(r, Called("read", actor, target, Keep))
    /\ UNCHANGED <<users, lock>>

CallChangeOwn(r, actor) ==
    /\ req[r] = Idle
    /\ Active(actor)
    /\ Set(r, Called("read", actor, actor, Keep))
    /\ UNCHANGED <<users, lock>>

CallCreate(r, actor, target, role) ==
    /\ req[r] = Idle
    /\ ActiveAdmin(actor) /\ ~Exists(target)
    /\ Set(r, Called("insert", actor, target, [role |-> role, active |-> "yes"]))
    /\ UNCHANGED <<users, lock>>

\* create, once the password is hashed: email is unique, so the second of two
\* inserts fails.
Insert(r) ==
    /\ req[r].step = "insert"
    /\ users' = IF Exists(req[r].target) THEN users
                ELSE [users EXCEPT ![req[r].target] = req[r].change]
    /\ Finish(r)

-----------------------------------------------------------------------------
(* update.                                                                 *)

\* Faulty variant: the row is read and not locked.
MutUpdateLock(r) ==
    /\ req[r].step = "lock"
    /\ Set(r, [req[r] EXCEPT !.step = "admins", !.seen = users[req[r].target]])
    /\ UNCHANGED <<users, lock>>

UpdateLock(r) ==
    LET u == req[r].target IN
    /\ req[r].step = "lock" /\ lock[u] = Free
    /\ lock' = [lock EXCEPT ![u] = r]
    /\ Set(r, [req[r] EXCEPT !.step = "admins", !.seen = users[u]])
    /\ UNCHANGED users

LosingAdmin(r) ==
    /\ req[r].seen.role = "admin"
    /\ \/ req[r].change.role \notin {"unset", "admin"}
       \/ req[r].change.active = "no"

\* When an admin is to go, the rows of the other active ones are selected...
SelectAdmins(r) ==
    /\ req[r].step = "admins"
    /\ Set(r, [req[r] EXCEPT !.step = "save",
                             !.todo = IF LosingAdmin(r)
                                      THEN {u \in User \ {req[r].target} : ActiveAdmin(u)} ELSE {}])
    /\ UNCHANGED <<users, lock>>

\* Faulty variant: the rows are counted as they were selected, without locks.
MutLockAdmin(r, u) ==
    /\ req[r].step = "save" /\ u \in req[r].todo
    /\ Set(r, [req[r] EXCEPT !.todo = @ \ {u}, !.others = @ \cup {u}])
    /\ UNCHANGED <<users, lock>>

\* ... and locked one by one; one that is no longer an active admin by then is
\* not returned.
LockAdmin(r, u) ==
    /\ req[r].step = "save" /\ u \in req[r].todo /\ lock[u] = Free
    /\ lock' = [lock EXCEPT ![u] = r]
    /\ Set(r, [req[r] EXCEPT !.todo = @ \ {u},
                             !.others = IF ActiveAdmin(u) THEN @ \cup {u} ELSE @])
    /\ UNCHANGED users

\* The last active admin, and one's own standing, may not be taken away.
Refused(r) ==
    \/ LosingAdmin(r) /\ req[r].others = {}
    \/ /\ req[r].target = req[r].actor
       /\ \/ req[r].change.active = "no"
          \/ req[r].change.role \notin {"unset", req[r].seen.role}

Changed(row, change) ==
    [role   |-> IF change.role = "unset" THEN row.role ELSE change.role,
     active |-> IF change.active = "unset" THEN row.active ELSE change.active]

UpdateSave(r) ==
    /\ req[r].step = "save" /\ req[r].todo = {} /\ ~Refused(r)
    /\ users' = [users EXCEPT ![req[r].target] = Changed(req[r].seen, req[r].change)]
    /\ Finish(r)

UpdateRefused(r) ==
    /\ req[r].step = "save" /\ req[r].todo = {} /\ Refused(r)
    /\ Finish(r)
    /\ UNCHANGED users

\* Postgres rolls back one transaction of a cycle of waiting ones.
WaitsFor(r) ==
    IF req[r].step # "save" \/ \E u \in req[r].todo : lock[u] = Free THEN {}
    ELSE {lock[u] : u \in req[r].todo}

\* Faulty variant: nobody resolves a deadlock.
MutDeadlockVictim(r) == FALSE /\ UNCHANGED accountsVars

DeadlockVictim(r) ==
    /\ \E S \in SUBSET Request :
           r \in S /\ \A q \in S : WaitsFor(q) \cap S # {}
    /\ Finish(r)
    /\ UNCHANGED users

-----------------------------------------------------------------------------
(* resetPassword and changeOwnPassword, which differ in who may call them. *)

\* The row is read; hashing takes a while.
PasswordRead(r) ==
    /\ req[r].step = "read"
    /\ Set(r, [req[r] EXCEPT !.step = "diff", !.seen = users[req[r].target]])
    /\ UNCHANGED <<users, lock>>

\* changeOwnPassword: the current password is wrong, or the new one is the same.
PasswordRefused(r) ==
    /\ req[r].step = "diff" /\ req[r].actor = req[r].target
    /\ Finish(r)
    /\ UNCHANGED users

\* save reads the row again...
SaveDiff(r) ==
    /\ req[r].step = "diff"
    /\ Set(r, [req[r] EXCEPT !.step = "write",
                             !.dirty = {c \in Column : req[r].seen[c] # users[req[r].target][c]}])
    /\ UNCHANGED <<users, lock>>

\* ... and updates the columns that differ, the password among them.
SaveWrite(r) ==
    LET u == req[r].target IN
    /\ req[r].step = "write" /\ lock[u] = Free
    /\ users' = [users EXCEPT ![u] =
            [role   |-> IF "role" \in req[r].dirty THEN req[r].seen.role ELSE users[u].role,
             active |-> IF "active" \in req[r].dirty THEN req[r].seen.active ELSE users[u].active]]
    /\ Finish(r)

-----------------------------------------------------------------------------
AccountCall(r) ==
    \E actor \in User :
        \/ CallChangeOwn(r, actor)
        \/ \E target \in User :
               \/ CallReset(r, actor, target)
               \/ \E change \in Change : CallUpdate(r, actor, target, change)
               \/ \E role \in Role : CallCreate(r, actor, target, role)

Progress(r) ==
    \/ Insert(r)
    \/ UpdateLock(r)
    \/ SelectAdmins(r)
    \/ \E u \in User : LockAdmin(r, u)
    \/ UpdateSave(r)
    \/ UpdateRefused(r)
    \/ DeadlockVictim(r)
    \/ PasswordRead(r)
    \/ PasswordRefused(r)
    \/ SaveDiff(r)
    \/ SaveWrite(r)

AccountsNext == \E r \in Request : AccountCall(r) \/ Progress(r)

AccountsSpec == AccountsInit /\ [][AccountsNext]_accountsVars

\* The database and the event loop serve every request; a row lock is granted
\* to a waiting request in the end, which queues for it in Postgres.
AccountsFairness ==
    \A r \in Request :
        /\ WF_accountsVars(Progress(r))
        /\ SF_accountsVars(UpdateLock(r) \/ SaveWrite(r) \/ \E u \in User : LockAdmin(r, u))

-----------------------------------------------------------------------------
Step == {"idle", "insert", "lock", "admins", "save", "read", "diff", "write"}

\* Every variable is well formed; a row is locked by a request that has it as
\* its target or among the admins it looked at, and only in a transaction.
AccountsTypeOK ==
    /\ users \in [User -> Account \cup {Nothing}]
    /\ lock \in [User -> Request \cup {Free}]
    /\ req \in [Request -> [step : Step, actor : User \cup {NoUser}, target : User \cup {NoUser},
                            change : Change, seen : Account \cup {Nothing}, dirty : SUBSET Column,
                            todo : SUBSET User, others : SUBSET User]]
    /\ \A r \in Request :
           /\ req[r].step = "idle" <=> req[r].target = NoUser
           /\ (\E u \in User : lock[u] = r) <=> req[r].step \in {"admins", "save"}

\* No update takes away the last active admin, whatever updates and password
\* saves run beside it: the locks make the count trustworthy.
UpdateKeepsAnAdmin ==
    [][\A r \in Request :
           UpdateSave(r) /\ (\E u \in User : ActiveAdmin(u))
               => (\E u \in User : ActiveAdmin(u))']_accountsVars

\* Every request is answered, though updates of several admins wait for each
\* other's rows.
EveryRequestEnds == \A r \in Request : req[r] # Idle ~> req[r] = Idle

\* What the code does not keep.  README: "The last active admin cannot be
\* demoted or deactivated."  A password save that read a row before it was
\* promoted or reactivated writes the old standing back.
SomeAdmin == \E u \in User : ActiveAdmin(u)
=============================================================================
