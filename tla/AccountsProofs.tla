--------------------------- MODULE AccountsProofs ---------------------------
(***************************************************************************)
(* What Accounts guarantees for any accounts and any number of requests.   *)
(*                                                                         *)
(* The argument: a row that a transaction holds is written by nobody else, *)
(* so what update read of its target, and the admins it counted, are still *)
(* so when it saves.                                                       *)
(***************************************************************************)
EXTENDS MCBackend, TLAPS

-----------------------------------------------------------------------------
(* The inductive invariant: what a request knows at each of its steps.     *)

RequestOK(r) ==
    /\ req[r].step = "insert" => req[r].change \in Account
    /\ req[r].step \in {"lock", "admins", "save", "read", "diff", "write"} => Exists(req[r].target)
    /\ req[r].step \in {"admins", "save"} =>
           lock[req[r].target] = r /\ req[r].seen = users[req[r].target]
    /\ req[r].step \in {"diff", "write"} => req[r].seen \in Account
    /\ req[r].step # "save" => req[r].todo = {} /\ req[r].others = {}
    /\ req[r].target \notin req[r].todo
    /\ \A u \in req[r].others : u # req[r].target /\ lock[u] = r /\ ActiveAdmin(u)

IInv == AccountsTypeOK /\ \A r \in Request : RequestOK(r)

RequestType ==
    [step : Step, actor : User \cup {NoUser}, target : User \cup {NoUser},
     change : Change, seen : Account \cup {Nothing}, dirty : SUBSET Column,
     todo : SUBSET User, others : SUBSET User]

\* The row of an account is never mistaken for no row.
LEMMA NothingIsNoRow == Nothing \notin Account
BY AccountsAssumption DEF Nothing, Account

\* It holds at first.
LEMMA InitIInv == AccountsInit => IInv
<1> SUFFICES ASSUME AccountsInit PROVE IInv
    OBVIOUS
<1> USE AccountsAssumption DEF AccountsInit
<1>1. Idle \in RequestType
    BY DEF Idle, RequestType, Step, Change, Keep, Nothing, Account, Column
<1>2. AccountsTypeOK
    BY <1>1 DEF AccountsTypeOK, RequestType, Account, Nothing, Idle
<1>3. \A r \in Request : RequestOK(r)
    BY DEF RequestOK, Idle
<1>4. QED
    BY <1>2, <1>3 DEF IInv

\* r moves to s: it takes and releases locks for itself only, and writes rows
\* that are free, its own, or not there yet.
Moves(r, s) ==
    /\ req' = [req EXCEPT ![r] = s]
    /\ users' \in [User -> Account \cup {Nothing}]
    /\ lock' \in [User -> Request \cup {Free}]
    /\ \A u \in User : lock'[u] # lock[u] => {lock[u], lock'[u]} \subseteq {Free, r}
    /\ \A u \in User : users'[u] # users[u] =>
           /\ users'[u] \in Account
           /\ lock[u] \in {Free, r} \/ users[u] = Nothing
    /\ s.step = "idle" <=> s.target = NoUser
    /\ (\E u \in User : lock'[u] = r) <=> s.step \in {"admins", "save"}

\* Such a step keeps the invariant if it keeps the request's own part of it.
LEMMA OneRequestMoves ==
    ASSUME IInv, NEW r \in Request, NEW s \in RequestType, Moves(r, s), RequestOK(r)'
    PROVE  IInv'
<1> USE AccountsAssumption DEF IInv, Moves
<1>1. req' \in [Request -> RequestType]
    BY DEF AccountsTypeOK, RequestType
<1>2. ASSUME NEW q \in Request, q # r
      PROVE  /\ req'[q] = req[q]
             /\ \A u \in User : lock'[u] = q <=> lock[u] = q
             /\ \A u \in User : lock[u] = q => users'[u] = users[u] \/ users[u] = Nothing
    BY <1>2 DEF AccountsTypeOK
<1>3. AccountsTypeOK'
    <2>1. ASSUME NEW q \in Request
          PROVE  /\ req'[q].step = "idle" <=> req'[q].target = NoUser
                 /\ (\E u \in User : lock'[u] = q) <=> req'[q].step \in {"admins", "save"}
        BY <1>2, <2>1 DEF AccountsTypeOK
    <2>2. QED
        BY <1>1, <2>1 DEF AccountsTypeOK, RequestType
<1>4. ASSUME NEW q \in Request, q # r PROVE RequestOK(q)'
    <2> USE NothingIsNoRow DEF Exists
    <2>1. RequestOK(q) /\ req[q] \in RequestType
        BY DEF AccountsTypeOK, RequestType
    <2>2. req[q].step # "idle" => req[q].target \in User
        BY <2>1 DEF AccountsTypeOK, RequestType
    <2>3. \A u \in User : Exists(u) => Exists(u)'
        BY DEF Exists
    <2>4. ASSUME req[q].step \in {"admins", "save"}
          PROVE  users'[req[q].target] = users[req[q].target] /\ lock'[req[q].target] = q
        BY <1>2, <1>4, <2>1, <2>2, <2>4 DEF RequestOK
    <2>5. ASSUME NEW u \in req[q].others PROVE lock'[u] = q /\ ActiveAdmin(u)'
        <3>1. u \in User /\ lock[u] = q /\ ActiveAdmin(u)
            BY <2>1 DEF RequestOK, RequestType
        <3>2. users[u] # Nothing
            BY <3>1 DEF ActiveAdmin, Nothing
        <3>3. QED
            BY <1>2, <1>4, <3>1, <3>2 DEF ActiveAdmin
    <2>6. req'[q] = req[q]
        BY <1>2, <1>4
    <2>7. QED
        BY <2>1, <2>2, <2>3, <2>4, <2>5, <2>6 DEF RequestOK
<1>5. QED
    BY <1>3, <1>4

-----------------------------------------------------------------------------
(* Each step keeps it.                                                     *)

\* The end of a request that has written at most a row that is free, its own,
\* or new.
LEMMA Finished ==
    ASSUME IInv, NEW r \in Request, Finish(r), NEW t \in User,
           users' = users \/ \E row \in Account : users' = [users EXCEPT ![t] = row],
           lock[t] \in {Free, r} \/ users[t] = Nothing
    PROVE  IInv'
<1> USE AccountsAssumption DEF Finish, Set, Unlocked, IInv
<1>1. Idle \in RequestType
    BY DEF Idle, RequestType, Step, Change, Keep, Nothing, Account, Column
<1>2. RequestOK(r)'
    BY DEF RequestOK, Idle, AccountsTypeOK
<1>3. /\ users' \in [User -> Account \cup {Nothing}]
      /\ \A u \in User : users'[u] # users[u] => u = t /\ users'[u] \in Account
    BY DEF AccountsTypeOK
<1>4. Moves(r, Idle)
    BY <1>1, <1>3 DEF Moves, AccountsTypeOK, Idle
<1>5. QED
    BY <1>1, <1>2, <1>4, OneRequestMoves

\* The end of a request that has written nothing.
LEMMA FinishedUnchanged ==
    ASSUME IInv, NEW r \in Request, Finish(r), UNCHANGED users
    PROVE  IInv'
<1> USE AccountsAssumption DEF Finish, Set, Unlocked, IInv
<1>1. Idle \in RequestType
    BY DEF Idle, RequestType, Step, Change, Keep, Nothing, Account, Column
<1>2. RequestOK(r)'
    BY DEF RequestOK, Idle, AccountsTypeOK
<1>3. Moves(r, Idle)
    BY <1>1 DEF Moves, AccountsTypeOK, Idle
<1>4. QED
    BY <1>1, <1>2, <1>3, OneRequestMoves

\* A request that comes in starts out right.
LEMMA CallKeeps ==
    ASSUME IInv, NEW r \in Request, AccountCall(r)
    PROVE  IInv'
<1> USE AccountsAssumption DEF IInv
<1>1. req[r] = Idle
    BY DEF AccountCall, CallChangeOwn, CallReset, CallUpdate, CallCreate
<1>2. \A u \in User : lock[u] # r
    BY <1>1 DEF AccountsTypeOK, Idle
<1>3. \A u \in User : Active(u) \/ ActiveAdmin(u) => Exists(u)
    BY DEF Active, ActiveAdmin, Exists, Nothing
<1>4. ASSUME NEW actor \in User, NEW target \in User, NEW change \in Change,
             NEW step \in {"lock", "read", "insert"},
             step # "insert" => Exists(target),
             step = "insert" => change \in Account,
             req' = [req EXCEPT ![r] = Called(step, actor, target, change)],
             UNCHANGED <<users, lock>>
      PROVE  IInv'
    <2>1. Called(step, actor, target, change) \in RequestType
        BY DEF Called, Idle, RequestType, Step, Nothing, Account, Column
    <2>2. RequestOK(r)'
        BY <1>4 DEF RequestOK, Called, Idle, AccountsTypeOK, Exists
    <2>3. Moves(r, Called(step, actor, target, change))
        BY <1>2, <1>4 DEF Moves, AccountsTypeOK, Called, Idle
    <2>4. QED
        BY <2>1, <2>2, <2>3, OneRequestMoves
<1>5. Keep \in Change /\ \A role \in Role : [role |-> role, active |-> "yes"] \in Change \cap Account
    BY DEF Keep, Change, Account
<1>6. ASSUME NEW actor \in User, CallChangeOwn(r, actor) PROVE IInv'
    BY <1>3, <1>4, <1>5, <1>6 DEF CallChangeOwn, Set
<1>7. ASSUME NEW actor \in User, NEW target \in User, CallReset(r, actor, target) PROVE IInv'
    BY <1>4, <1>5, <1>7 DEF CallReset, Set
<1>8. ASSUME NEW actor \in User, NEW target \in User, NEW change \in Change,
             CallUpdate(r, actor, target, change)
      PROVE  IInv'
    BY <1>4, <1>8 DEF CallUpdate, Set
<1>9. ASSUME NEW actor \in User, NEW target \in User, NEW role \in Role,
             CallCreate(r, actor, target, role)
      PROVE  IInv'
    BY <1>4, <1>5, <1>9 DEF CallCreate, Set
<1>10. QED
    BY <1>6, <1>7, <1>8, <1>9 DEF AccountCall

\* What a running request refers to.
LEMMA Running ==
    ASSUME IInv, NEW r \in Request, req[r].step # "idle"
    PROVE  req[r].target \in User /\ req[r] \in RequestType /\ RequestOK(r)
BY AccountsAssumption DEF IInv, AccountsTypeOK, RequestType

\* The steps of update.
LEMMA UpdateKeeps ==
    ASSUME IInv, NEW r \in Request,
           \/ UpdateLock(r) \/ SelectAdmins(r) \/ \E u \in User : LockAdmin(r, u)
           \/ UpdateSave(r) \/ UpdateRefused(r) \/ DeadlockVictim(r)
    PROVE  IInv'
<1> USE AccountsAssumption, NothingIsNoRow DEF IInv
<1> DEFINE t == req[r].target
<1>1. ASSUME UpdateLock(r) PROVE IInv'
    <2> DEFINE s == [req[r] EXCEPT !.step = "admins", !.seen = users[t]]
    <2>1. t \in User /\ req[r] \in RequestType /\ RequestOK(r)
        BY <1>1, Running DEF UpdateLock
    <2>2. s \in RequestType
        BY <2>1 DEF AccountsTypeOK, RequestType, Step
    <2>3. RequestOK(r)'
        BY <1>1, <2>1 DEF UpdateLock, Set, RequestOK, AccountsTypeOK, Exists
    <2>4. Moves(r, s)
        BY <1>1, <2>1 DEF UpdateLock, Set, Moves, AccountsTypeOK
    <2>5. QED
        BY <2>2, <2>3, <2>4, OneRequestMoves
<1>2. ASSUME SelectAdmins(r) PROVE IInv'
    <2> DEFINE others == {u \in User \ {t} : ActiveAdmin(u)}
    <2>1. t \in User /\ req[r] \in RequestType /\ RequestOK(r)
        BY <1>2, Running DEF SelectAdmins
    <2>2. PICK todo \in {others, {}} :
              req' = [req EXCEPT ![r] = [req[r] EXCEPT !.step = "save", !.todo = todo]]
        BY <1>2 DEF SelectAdmins, Set
    <2> DEFINE s == [req[r] EXCEPT !.step = "save", !.todo = todo]
    <2>3. s \in RequestType
        BY <2>1 DEF RequestType, Step
    <2>4. RequestOK(r)'
        BY <1>2, <2>1, <2>2 DEF SelectAdmins, RequestOK, AccountsTypeOK, Exists
    <2>5. Moves(r, s)
        BY <1>2, <2>1, <2>2 DEF SelectAdmins, Moves, AccountsTypeOK
    <2>6. QED
        BY <2>3, <2>4, <2>5, OneRequestMoves
<1>3. ASSUME NEW u \in User, LockAdmin(r, u) PROVE IInv'
    <2>1. t \in User /\ req[r] \in RequestType /\ RequestOK(r)
        BY <1>3, Running DEF LockAdmin
    <2> DEFINE others == IF ActiveAdmin(u) THEN req[r].others \cup {u} ELSE req[r].others
               s == [req[r] EXCEPT !.todo = req[r].todo \ {u}, !.others = others]
    <2>2. req' = [req EXCEPT ![r] = s] /\ lock' = [lock EXCEPT ![u] = r] /\ users' = users
        BY <1>3 DEF LockAdmin, Set
    <2>3. others \subseteq User /\ \A v \in others : (v = u /\ ActiveAdmin(u)) \/ v \in req[r].others
        BY <2>1 DEF RequestType
    <2> HIDE DEF others
    <2>4. s \in RequestType
        BY <2>1, <2>3 DEF RequestType
    <2>5. req[r].step = "save" /\ u \in req[r].todo /\ lock[u] = Free
        BY <1>3 DEF LockAdmin
    <2>6. /\ req'[r] = s /\ s.step = "save" /\ s.target = t
          /\ s.todo = req[r].todo \ {u} /\ s.others = others /\ s.seen = req[r].seen
        BY <2>1, <2>2, <2>5 DEF AccountsTypeOK, RequestType
    <2>7. RequestOK(r)'
        BY <2>1, <2>2, <2>3, <2>5, <2>6 DEF RequestOK, AccountsTypeOK, Exists, ActiveAdmin
    <2>8. Moves(r, s)
        BY <2>1, <2>2, <2>5, <2>6 DEF Moves, AccountsTypeOK
    <2>9. QED
        BY <2>4, <2>7, <2>8, OneRequestMoves
<1>4. ASSUME UpdateSave(r) PROVE IInv'
    <2>1. t \in User /\ req[r] \in RequestType /\ RequestOK(r)
        BY <1>4, Running DEF UpdateSave
    <2>2. lock[t] = r /\ req[r].seen \in Account
        BY <1>4, <2>1 DEF UpdateSave, RequestOK, AccountsTypeOK, Exists
    <2>3. Changed(req[r].seen, req[r].change) \in Account
        BY <2>1, <2>2 DEF Changed, Account, RequestType, Change
    <2>4. QED
        BY <1>4, <2>1, <2>2, <2>3, Finished DEF UpdateSave
<1>5. ASSUME UpdateRefused(r) \/ DeadlockVictim(r) PROVE IInv'
    <2>1. req[r].step # "idle"
        BY <1>5 DEF UpdateRefused, DeadlockVictim, WaitsFor
    <2>2. t \in User /\ RequestOK(r) /\ req[r].step = "save"
        BY <1>5, <2>1, Running DEF UpdateRefused, DeadlockVictim, WaitsFor
    <2>3. QED
        BY <1>5, <2>2, Finished DEF UpdateRefused, DeadlockVictim, RequestOK
<1>6. QED
    BY <1>1, <1>2, <1>3, <1>4, <1>5

\* The steps of create and of the two password handlers.
LEMMA OtherKeeps ==
    ASSUME IInv, NEW r \in Request,
           Insert(r) \/ PasswordRead(r) \/ PasswordRefused(r) \/ SaveDiff(r) \/ SaveWrite(r)
    PROVE  IInv'
<1> USE AccountsAssumption, NothingIsNoRow DEF IInv
<1> DEFINE t == req[r].target
<1>1. t \in User /\ req[r] \in RequestType /\ RequestOK(r)
    BY Running DEF Insert, PasswordRead, PasswordRefused, SaveDiff, SaveWrite
<1>2. ASSUME Insert(r) PROVE IInv'
    <2>1. req[r].change \in Account
        BY <1>1, <1>2 DEF Insert, RequestOK
    <2>2. CASE Exists(t)
        <3>1. \A u \in User : lock[u] # r
            BY <1>2 DEF Insert, AccountsTypeOK
        <3>2. QED
            BY <1>1, <1>2, <2>1, <2>2, FinishedUnchanged DEF Insert
    <2>3. CASE ~Exists(t)
        BY <1>1, <1>2, <2>1, <2>3, Finished DEF Insert, Exists
    <2>4. QED
        BY <2>2, <2>3
<1>3. ASSUME PasswordRead(r) PROVE IInv'
    <2> DEFINE s == [req[r] EXCEPT !.step = "diff", !.seen = users[t]]
    <2>1. s \in RequestType
        BY <1>1 DEF AccountsTypeOK, RequestType, Step
    <2>2. RequestOK(r)'
        BY <1>1, <1>3 DEF PasswordRead, Set, RequestOK, AccountsTypeOK, Exists
    <2>3. Moves(r, s)
        BY <1>1, <1>3 DEF PasswordRead, Set, Moves, AccountsTypeOK
    <2>4. QED
        BY <2>1, <2>2, <2>3, OneRequestMoves
<1>4. ASSUME PasswordRefused(r) PROVE IInv'
    BY <1>1, <1>4, FinishedUnchanged DEF PasswordRefused
<1>5. ASSUME SaveDiff(r) PROVE IInv'
    <2> DEFINE dirty == {c \in Column : req[r].seen[c] # users[t][c]}
               s == [req[r] EXCEPT !.step = "write", !.dirty = dirty]
    <2>1. s \in RequestType
        BY <1>1 DEF RequestType, Step
    <2>2. req' = [req EXCEPT ![r] = s]
        BY <1>5 DEF SaveDiff, Set
    <2> HIDE DEF dirty
    <2>3. RequestOK(r)'
        BY <1>1, <1>5, <2>2 DEF SaveDiff, RequestOK, AccountsTypeOK, Exists
    <2>4. Moves(r, s)
        BY <1>1, <1>5, <2>2 DEF SaveDiff, Moves, AccountsTypeOK
    <2> HIDE DEF s
    <2>5. QED
        BY <2>1, <2>3, <2>4, OneRequestMoves
<1>6. ASSUME SaveWrite(r) PROVE IInv'
    <2> DEFINE row == [role   |-> IF "role" \in req[r].dirty THEN req[r].seen.role ELSE users[t].role,
                       active |-> IF "active" \in req[r].dirty THEN req[r].seen.active
                                  ELSE users[t].active]
    <2>1. req[r].seen \in Account /\ users[t] \in Account
        BY <1>1, <1>6 DEF SaveWrite, RequestOK, AccountsTypeOK, Exists
    <2>2. row \in Account
        BY <2>1 DEF Account
    <2>3. users' = [users EXCEPT ![t] = row] /\ lock[t] = Free /\ Finish(r)
        BY <1>6 DEF SaveWrite
    <2>4. QED
        BY <1>1, <2>2, <2>3, Finished
<1>7. QED
    BY <1>2, <1>3, <1>4, <1>5, <1>6

-----------------------------------------------------------------------------
\* Whatever requests are served beside each other, every one of them knows at
\* each step what the invariant says.
THEOREM Invariance == AccountsSpec => []IInv
<1>1. IInv /\ [AccountsNext]_accountsVars => IInv'
    <2> SUFFICES ASSUME IInv, [AccountsNext]_accountsVars PROVE IInv'
        OBVIOUS
    <2>1. CASE UNCHANGED accountsVars
        BY <2>1 DEF accountsVars, IInv, AccountsTypeOK, RequestOK, Exists, ActiveAdmin
    <2>2. ASSUME NEW r \in Request, AccountCall(r) \/ Progress(r) PROVE IInv'
        BY <2>2, CallKeeps, UpdateKeeps, OtherKeeps DEF Progress
    <2>3. QED
        BY <2>1, <2>2 DEF AccountsNext
<1>2. QED
    BY InitIInv, <1>1, PTL DEF AccountsSpec

\* Every reachable state is well typed, and rows are locked only by the
\* transactions that use them.
THEOREM TypeCorrect == AccountsSpec => []AccountsTypeOK
<1>1. IInv => AccountsTypeOK
    BY DEF IInv
<1>2. QED
    BY <1>1, Invariance, PTL

\* No update takes away the last active admin: another one is locked when it
\* saves, or its target was not one, or stays one.
THEOREM LastAdminStays == AccountsSpec => UpdateKeepsAnAdmin
<1> DEFINE Kept == \A r \in Request :
               UpdateSave(r) /\ (\E u \in User : ActiveAdmin(u)) => (\E u \in User : ActiveAdmin(u))'
<1>1. IInv => Kept
    <2> SUFFICES ASSUME IInv, NEW r \in Request, UpdateSave(r), NEW v \in User, ActiveAdmin(v)
                 PROVE  \E u \in User : ActiveAdmin(u)'
        OBVIOUS
    <2> DEFINE t == req[r].target
               row == Changed(req[r].seen, req[r].change)
    <2>1. t \in User /\ req[r] \in RequestType /\ RequestOK(r)
        BY Running DEF UpdateSave
    <2>2. users' = [users EXCEPT ![t] = row] /\ users \in [User -> Account \cup {Nothing}]
        BY DEF UpdateSave, IInv, AccountsTypeOK
    <2>3. \A u \in User : u # t /\ ActiveAdmin(u) => ActiveAdmin(u)'
        BY <2>1, <2>2 DEF ActiveAdmin
    <2>4. CASE LosingAdmin(r)
        <3>1. PICK u \in req[r].others : TRUE
            BY <2>4 DEF UpdateSave, Refused
        <3>2. u \in User /\ u # t /\ ActiveAdmin(u)
            BY <2>1, <3>1 DEF RequestOK, RequestType
        <3>3. QED
            BY <2>3, <3>2
    <2>5. CASE ~LosingAdmin(r) /\ v = t
        <3>1. req[r].seen = [role |-> "admin", active |-> "yes"]
            BY <2>1, <2>5 DEF UpdateSave, RequestOK, ActiveAdmin
        <3>2. row = [role |-> "admin", active |-> "yes"]
            BY <2>1, <2>5, <3>1 DEF LosingAdmin, Changed, RequestType, Change
        <3>3. QED
            BY <2>1, <2>2, <3>2 DEF ActiveAdmin
    <2>6. QED
        BY <2>3, <2>4, <2>5
<1>2. QED
    BY <1>1, Invariance, PTL DEF UpdateKeepsAnAdmin

-----------------------------------------------------------------------------
(* The accounts beside anchoring.                                          *)

\* The accounts and the anchoring of batches together do what each of them may do,
\* so all that is proved of one holds of the whole.
THEOREM BackendDoesBoth == MCSpec => Spec /\ AccountsSpec
<1>1. MCInit => Init /\ AccountsInit
    BY DEF MCInit
<1>2. [MCNext]_<<vars, accountsVars, part>> => [Next]_vars /\ [AccountsNext]_accountsVars
    BY DEF MCNext
<1>3. QED
    BY <1>1, <1>2, PTL DEF MCSpec, Spec, AccountsSpec
=============================================================================
