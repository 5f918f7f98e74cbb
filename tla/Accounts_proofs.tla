----------------------------- MODULE Accounts_proofs -----------------------------
(***************************************************************************)
(* Accounts, logins and tokens, for any number of sessions, users, tokens  *)
(* and spellings.                                                          *)
(***************************************************************************)
EXTENDS Accounts, TLAPS

\* What a task has to be for register_user to go on with it.
TaskOK(t) ==
  /\ t \in Task
  /\ t.stage = "insert" => t.address \in Addresses /\ t.password \in Passwords

\* The empty task is in order.
LEMMA NoTaskOK == NoToken \in Token /\ NoTask \in Task
  BY AccountsAssumption DEF NoToken, Token, NoTask, Task, Stages, Closed

\* The time in whole seconds is a natural number.
LEMMA SecondsNat == ASSUME NEW n \in Nat PROVE Seconds(n) \in Nat
  BY AccountsAssumption DEF Seconds

\* A session that moves to a task in order keeps the tasks in order.
LEMMA TaskStep ==
  ASSUME TypeOK, NEW r \in Sessions, NEW t, TaskOK(t), task' = [task EXCEPT ![r] = t]
  PROVE  /\ task' \in [Sessions -> Task]
         /\ \A p \in Sessions : TaskOK(task'[p])
  BY DEF TypeOK, TaskOK

\* A step that keeps the types and the addresses of the users keeps the invariant.
LEMMA UsersKept ==
  ASSUME AccountsInv, TypeOK', DOMAIN users' = DOMAIN users,
         \A i \in DOMAIN users : users'[i].email = users[i].email
  PROVE  AccountsInv'
  BY DEF AccountsInv, OneAccountPerAddress

\* A new account with an address in lower case that no account has.
LEMMA UserAdded ==
  ASSUME AccountsInv, TypeOK', NEW row \in Account, users' = Append(users, row),
         Lower[row.email] = row.email, WithEmail(row.email) = {}
  PROVE  AccountsInv'
<1>1. users \in Seq(Account) BY DEF AccountsInv, TypeOK
<1>2. DOMAIN users' = DOMAIN users \cup {Len(users) + 1} BY <1>1
<1>3. \A i \in DOMAIN users : users'[i] = users[i] /\ i # Len(users) + 1 BY <1>1
<1>4. users'[Len(users) + 1] = row BY <1>1
<1>5. \A i \in DOMAIN users' : Lower[users'[i].email] = users'[i].email
  BY <1>2, <1>3, <1>4 DEF AccountsInv
<1>6. \A i \in DOMAIN users : users[i].email # row.email BY DEF WithEmail
<1>7. OneAccountPerAddress'
  BY <1>2, <1>3, <1>4, <1>5, <1>6 DEF AccountsInv, OneAccountPerAddress
<1> QED BY <1>5, <1>7 DEF AccountsInv

\* Every step keeps the types.
LEMMA TypeStep == ASSUME TypeOK, [Next]_vars PROVE TypeOK'
<1> USE NoTaskOK DEF Closed, Stages
<1>1. ASSUME NEW r \in Sessions, RegisterLookup(r) PROVE TypeOK'
  <2>1. PICK a \in Addresses :
          \/ Begin(r, [NoTask EXCEPT !.stage = "taken", !.address = a])
          \/ \E p \in Passwords, role \in Roles :
               Begin(r, [NoTask EXCEPT !.stage = "insert", !.address = a, !.password = p,
                                       !.role = role])
    BY <1>1 DEF RegisterLookup
  <2>2. CASE Begin(r, [NoTask EXCEPT !.stage = "taken", !.address = a])
    <3>1. TaskOK([NoTask EXCEPT !.stage = "taken", !.address = a]) BY DEF TaskOK, Task
    <3> QED BY <3>1, <2>2, <1>1, TaskStep DEF Begin, RegisterLookup, TypeOK, TaskOK
  <2>3. ASSUME NEW p \in Passwords, NEW role \in Roles,
               Begin(r, [NoTask EXCEPT !.stage = "insert", !.address = a, !.password = p,
                                       !.role = role])
        PROVE  TypeOK'
    <3>1. TaskOK([NoTask EXCEPT !.stage = "insert", !.address = a, !.password = p,
                                !.role = role])
      BY DEF TaskOK, Task
    <3> QED BY <3>1, <2>3, <1>1, TaskStep DEF Begin, RegisterLookup, TypeOK, TaskOK
  <2> QED BY <2>1, <2>2, <2>3
<1>2. ASSUME NEW r \in Sessions, RegisterInsert(r) PROVE TypeOK'
  <2> DEFINE t == task[r]
             email == RegisterEmail(t.address)
  <2>1. t \in Task /\ t.address \in Addresses /\ t.password \in Passwords
    BY <1>2 DEF RegisterInsert, TypeOK
  <2>2. CASE task' = [task EXCEPT ![r] = [NoTask EXCEPT !.stage = "taken", !.address = t.address]]
             /\ UNCHANGED users
    <3>1. TaskOK([NoTask EXCEPT !.stage = "taken", !.address = t.address])
      BY <2>1 DEF TaskOK, Task
    <3> QED BY <3>1, <2>2, <1>2, TaskStep DEF RegisterInsert, TypeOK, TaskOK
  <2>3. CASE /\ users' = Append(users, [email |-> email, digest |-> Digest[t.password],
                                        role |-> t.role, active |-> TRUE])
             /\ Done(r, "registered")
    <3>1. [email |-> email, digest |-> Digest[t.password], role |-> t.role, active |-> TRUE]
            \in Account
      BY <2>1, AccountsAssumption DEF Account, Task, RegisterEmail
    <3>2. users' \in Seq(Account) BY <3>1, <2>3 DEF TypeOK
    <3>3. TaskOK([NoTask EXCEPT !.stage = "registered"]) BY DEF TaskOK, Task
    <3> QED BY <3>2, <3>3, <2>3, <1>2, TaskStep DEF RegisterInsert, Done, TypeOK, TaskOK
  <2> QED BY <1>2, <2>2, <2>3 DEF RegisterInsert
<1>3. ASSUME NEW r \in Sessions, LoginSelect(r) PROVE TypeOK'
  <2>1. PICK a \in Addresses, p \in Passwords :
          LET args == [NoTask EXCEPT !.address = a, !.password = p, !.seen = Len(users)] IN
          \/ Begin(r, [args EXCEPT !.stage = "bad_credentials"])
          \/ \E i \in DOMAIN users :
               Begin(r, [args EXCEPT !.stage = "verify", !.user = i, !.role = users[i].role])
    BY <1>3 DEF LoginSelect, WithEmail
  <2> DEFINE args == [NoTask EXCEPT !.address = a, !.password = p, !.seen = Len(users)]
  <2>u. users \in Seq(Account) BY DEF TypeOK
  <2>s. Len(users) \in Nat BY <2>u
  <2>2. args \in Task BY <2>s DEF Task
  <2>3. \A i \in DOMAIN users : i \in Nat /\ users[i].role \in Roles
    <3>1. \A i \in DOMAIN users : i \in Nat /\ users[i] \in Account BY <2>u
    <3> QED BY <3>1 DEF Account
  <2>4. CASE Begin(r, [args EXCEPT !.stage = "bad_credentials"])
    <3>1. TaskOK([args EXCEPT !.stage = "bad_credentials"]) BY <2>2 DEF TaskOK, Task
    <3> QED BY <3>1, <2>4, <1>3, TaskStep DEF Begin, LoginSelect, TypeOK, TaskOK
  <2>5. ASSUME NEW i \in DOMAIN users,
               Begin(r, [args EXCEPT !.stage = "verify", !.user = i, !.role = users[i].role])
        PROVE  TypeOK'
    <3>1. TaskOK([args EXCEPT !.stage = "verify", !.user = i, !.role = users[i].role])
      BY <2>2, <2>3 DEF TaskOK, Task
    <3> QED BY <3>1, <2>5, <1>3, TaskStep DEF Begin, LoginSelect, TypeOK, TaskOK
  <2> QED BY <2>1, <2>4, <2>5
<1>4. ASSUME NEW r \in Sessions, LoginVerify(r) PROVE TypeOK'
  <2>1. task[r] \in Task BY DEF TypeOK
  <2>2. CASE Goto(r, "bad_credentials") /\ UNCHANGED tokens
    BY <2>1, <2>2, <1>4 DEF LoginVerify, Goto, TypeOK, Task
  <2>3. CASE Done(r, "logged_in") /\ tokens' = tokens \cup {NewToken(task[r])}
    <3>1. NewToken(task[r]) \in Token
      <4>1. clock \in Nat /\ clock + Lifetime \in Nat BY AccountsAssumption DEF TypeOK
      <4> QED BY <4>1, <2>1, SecondsNat DEF NewToken, Token, Task
    <3>2. TaskOK([NoTask EXCEPT !.stage = "logged_in"]) BY DEF TaskOK, Task
    <3> QED BY <3>1, <3>2, <2>3, <1>4, TaskStep DEF LoginVerify, Done, TypeOK, TaskOK
  <2> QED BY <1>4, <2>2, <2>3 DEF LoginVerify
<1>5. ASSUME NEW r \in Sessions, DecodeToken(r) PROVE TypeOK'
  <2>1. PICK token \in tokens :
          LET args == [NoTask EXCEPT !.token = token, !.at = clock] IN
          \/ Begin(r, [args EXCEPT !.stage = "expired"])
          \/ \E need \in Needs :
               Begin(r, [args EXCEPT !.stage = "load", !.need = need,
                                     !.could = MayEnter(users[token.sub], need)])
    BY <1>5 DEF DecodeToken
  <2> DEFINE args == [NoTask EXCEPT !.token = token, !.at = clock]
  <2>2. args \in Task BY DEF Task, TypeOK
  <2>3. CASE Begin(r, [args EXCEPT !.stage = "expired"])
    <3>1. TaskOK([args EXCEPT !.stage = "expired"]) BY <2>2 DEF TaskOK, Task
    <3> QED BY <3>1, <2>3, <1>5, TaskStep DEF Begin, DecodeToken, TypeOK, TaskOK
  <2>4. ASSUME NEW need \in Needs,
               Begin(r, [args EXCEPT !.stage = "load", !.need = need,
                                     !.could = MayEnter(users[token.sub], need)])
        PROVE  TypeOK'
    <3>1. need \in SUBSET {"client", "specialist", "admin"} BY AccountsAssumption DEF Needs
    <3>2. MayEnter(users[token.sub], need) \in BOOLEAN BY DEF MayEnter
    <3>3. TaskOK([args EXCEPT !.stage = "load", !.need = need,
                              !.could = MayEnter(users[token.sub], need)])
      BY <2>2, <3>1, <3>2 DEF TaskOK, Task
    <3> QED BY <3>3, <2>4, <1>5, TaskStep DEF Begin, DecodeToken, TypeOK, TaskOK
  <2> QED BY <2>1, <2>3, <2>4
<1>6. ASSUME NEW r \in Sessions, LoadUser(r) PROVE TypeOK'
  <2>1. CASE Goto(r, "admitted") BY <2>1, <1>6 DEF LoadUser, Goto, TypeOK, Task
  <2>2. ASSUME NEW stage \in {"inactive", "forbidden"}, Done(r, stage) PROVE TypeOK'
    <3>1. TaskOK([NoTask EXCEPT !.stage = stage]) BY DEF TaskOK, Task
    <3> QED BY <3>1, <2>2, <1>6, TaskStep DEF LoadUser, Done, TypeOK, TaskOK
  <2> QED BY <1>6, <2>1, <2>2 DEF LoadUser
<1>7. ASSUME NEW r \in Sessions, Close(r) PROVE TypeOK'
  <2>1. TaskOK(NoTask) BY DEF TaskOK, NoTask
  <2> QED BY <2>1, <1>7, TaskStep DEF Close, TypeOK, TaskOK
<1>8. ASSUME NEW i \in DOMAIN users, ChangeUser(i) PROVE TypeOK'
  <2>1. PICK row \in {[users[i] EXCEPT !.active = ~@]}
                       \cup {[users[i] EXCEPT !.role = role] : role \in Roles \ {users[i].role}} :
          /\ users' = [users EXCEPT ![i] = row]
          /\ task' = [r \in Sessions |->
                        IF task[r].stage = "load" /\ task[r].token.sub = i
                          THEN [task[r] EXCEPT !.could = @ \/ MayEnter(row, task[r].need)]
                          ELSE task[r]]
    BY <1>8 DEF ChangeUser
  <2>2. users[i] \in Account BY DEF TypeOK
  <2>3. row \in Account BY <2>1, <2>2 DEF Account
  <2>4. users' \in Seq(Account) BY <2>1, <2>3 DEF TypeOK
  <2>5. ASSUME NEW r \in Sessions PROVE TaskOK(task'[r])
    <3>1. TaskOK(task[r]) BY DEF TypeOK, TaskOK
    <3>2. (task[r].could \/ MayEnter(row, task[r].need)) \in BOOLEAN OBVIOUS
    <3> QED BY <2>1, <3>1, <3>2 DEF TaskOK, Task
  <2>6. task' \in [Sessions -> Task] BY <2>1, <2>5 DEF TaskOK
  <2> QED BY <2>4, <2>5, <2>6, <1>8 DEF ChangeUser, TypeOK, TaskOK
<1>9. CASE Tick BY <1>9 DEF Tick, TypeOK
<1>10. CASE UNCHANGED vars BY <1>10 DEF vars, TypeOK
<1> QED BY <1>1, <1>2, <1>3, <1>4, <1>5, <1>6, <1>7, <1>8, <1>9, <1>10 DEF Next

\* Every step preserves the invariant: only RegisterInsert adds an account, and
\* only ChangeUser changes one.
LEMMA AccountsStep == ASSUME AccountsInv, [Next]_vars PROVE AccountsInv'
<1>1. TypeOK /\ TypeOK' BY TypeStep DEF AccountsInv
<1>2. ASSUME NEW r \in Sessions, RegisterInsert(r) PROVE AccountsInv'
  <2> DEFINE t == task[r]
             email == RegisterEmail(t.address)
             row == [email |-> email, digest |-> Digest[t.password],
                     role |-> t.role, active |-> TRUE]
  <2>1. t \in Task /\ t.address \in Addresses /\ t.password \in Passwords
    BY <1>1, <1>2 DEF RegisterInsert, TypeOK
  <2>2. email \in Addresses /\ Lower[email] = email
    BY <2>1, AccountsAssumption DEF RegisterEmail
  <2>3. CASE UNCHANGED users BY <2>3, <1>1, UsersKept
  <2>4. CASE ~EmailTaken(email) /\ users' = Append(users, row)
    <3>1. row \in Account BY <2>1, <2>2 DEF Account, Task
    <3>2. row.email = email /\ WithEmail(email) = {} BY <2>4 DEF EmailTaken
    <3> QED BY <3>1, <3>2, <2>2, <2>4, <1>1, UserAdded
  <2> QED BY <1>2, <2>3, <2>4 DEF RegisterInsert
<1>3. ASSUME NEW i \in DOMAIN users, ChangeUser(i) PROVE AccountsInv'
  <2>1. users[i] \in Account /\ users \in Seq(Account) BY <1>1 DEF TypeOK
  <2>2. PICK row : row.email = users[i].email /\ users' = [users EXCEPT ![i] = row]
    BY <1>3, <2>1 DEF ChangeUser, Account
  <2> QED BY <2>1, <2>2, <1>1, UsersKept
<1>4. CASE UNCHANGED users BY <1>4, <1>1, UsersKept
<1> QED
  BY <1>2, <1>3, <1>4
  DEF Next, vars, RegisterLookup, LoginSelect, LoginVerify, DecodeToken, LoadUser, Close, Tick

\* Every variable of the accounts model keeps its type.
THEOREM AccountsTyped == Spec => []TypeOK
<1>1. Init => TypeOK BY NoTaskOK DEF Init, TypeOK, NoTask
<1> QED BY <1>1, TypeStep, PTL DEF Spec

\* However many requests register an address at once, and however they spell it,
\* register_user and the unique index of users.email leave it with one account.
THEOREM OneAccountHolds == Spec => []OneAccountPerAddress
<1>1. Init => AccountsInv
  BY NoTaskOK DEF Init, AccountsInv, TypeOK, OneAccountPerAddress, NoTask
<1>2. AccountsInv => OneAccountPerAddress BY DEF AccountsInv
<1> QED BY <1>1, <1>2, AccountsStep, PTL DEF Spec

-------------------------------------------------------------------------------
\* What holds of session data that is refused, under way or admitted, given the
\* users and the tokens.
SessionOK(t, rows, made) ==
  /\ t.stage \in {"taken", "verify", "bad_credentials"} => t.address \in Addresses
  /\ t.stage = "taken" => \E i \in DOMAIN rows : Lower[rows[i].email] = Lower[t.address]
  /\ t.stage \in {"verify", "bad_credentials"} => t.seen <= Len(rows)
  /\ t.stage = "verify" => t.user \in DOMAIN rows /\ rows[t.user].email = Lower[t.address]
  /\ t.stage = "bad_credentials" =>
       \A i \in 1 .. t.seen :
         Lower[rows[i].email] = Lower[t.address] => rows[i].digest # Digest[t.password]
  /\ t.stage \in {"load", "admitted"} => t.token \in made /\ ~(t.token.exp < Seconds(t.at))
  /\ t.stage = "expired" => t.token \in made /\ t.token.exp < Seconds(t.at)
  /\ t.stage = "admitted" => t.could

\* Whoever may enter now could have entered at some moment since the token was
\* decoded.
LoadOK(t, rows) == t.stage = "load" /\ MayEnter(rows[t.token.sub], t.need) => t.could

TokensOK(rows, made) ==
  \A token \in made : token.sub \in DOMAIN rows /\ token.exp = Seconds(token.issued + Lifetime)

AccessInv ==
  /\ AccountsInv
  /\ TokensOK(users, tokens)
  /\ \A r \in Sessions : SessionOK(task[r], users, tokens) /\ LoadOK(task[r], users)

\* The accounts are those there were, with more behind them: the address and the
\* digest of an account never change.
Grown(rows, more) ==
  /\ Len(rows) <= Len(more)
  /\ \A i \in DOMAIN rows : more[i].email = rows[i].email /\ more[i].digest = rows[i].digest

\* More accounts and more tokens keep what holds of a session.
LEMMA SessionKept ==
  ASSUME NEW rows \in Seq(Account), NEW more \in Seq(Account), Grown(rows, more),
         NEW made, NEW t \in Task, SessionOK(t, rows, made)
  PROVE  \A extra : SessionOK(t, more, made \cup extra)
<1> SUFFICES ASSUME NEW extra PROVE SessionOK(t, more, made \cup extra) OBVIOUS
<1>1. /\ DOMAIN rows = 1 .. Len(rows) /\ DOMAIN more = 1 .. Len(more)
      /\ Len(rows) \in Nat /\ Len(more) \in Nat /\ Len(rows) <= Len(more)
  BY DEF Grown
<1>2. \A i \in DOMAIN rows : i \in DOMAIN more BY <1>1
<1>3. t.seen \in Nat BY DEF Task
<1>4. t.seen <= Len(rows) => t.seen <= Len(more) /\ \A i \in 1 .. t.seen : i \in DOMAIN rows
  BY <1>1, <1>3
<1> QED BY <1>2, <1>4 DEF SessionOK, Grown

\* ... and what holds of the tokens.
LEMMA TokensKept ==
  ASSUME NEW rows \in Seq(Account), NEW more \in Seq(Account), Grown(rows, more),
         NEW made, TokensOK(rows, made)
  PROVE  TokensOK(more, made)
<1>1. /\ DOMAIN rows = 1 .. Len(rows) /\ DOMAIN more = 1 .. Len(more)
      /\ Len(rows) \in Nat /\ Len(more) \in Nat /\ Len(rows) <= Len(more)
  BY DEF Grown
<1> QED BY <1>1 DEF TokensOK

\* A step that leaves users and tokens alone and moves r to a task that is in order.
LEMMA SessionMoves ==
  ASSUME AccessInv, AccountsInv', NEW r \in Sessions, NEW t, task' = [task EXCEPT ![r] = t],
         UNCHANGED <<users, tokens>>, SessionOK(t, users, tokens), LoadOK(t, users)
  PROVE  AccessInv'
<1>1. task \in [Sessions -> Task] BY DEF AccessInv, AccountsInv, TypeOK
<1>2. \A p \in Sessions : task'[p] = IF p = r THEN t ELSE task[p] BY <1>1
<1>3. \A p \in Sessions : SessionOK(task'[p], users, tokens) /\ LoadOK(task'[p], users)
  BY <1>2 DEF AccessInv
<1> QED BY <1>3 DEF AccessInv

\* A task that is over in a stage nothing is known of.
LEMMA PlainTask ==
  ASSUME NEW stage \in {"idle", "registered", "logged_in", "inactive", "forbidden", "insert"},
         NEW t, t.stage = stage, NEW rows, NEW made
  PROVE  SessionOK(t, rows, made) /\ LoadOK(t, rows)
  BY DEF SessionOK, LoadOK

\* Every step preserves what holds of the sessions and the tokens.
LEMMA AccessStep == ASSUME AccessInv, [Next]_vars PROVE AccessInv'
<1>1. AccountsInv /\ AccountsInv' BY AccountsStep DEF AccessInv
<1>2. /\ TypeOK /\ users \in Seq(Account) /\ users' \in Seq(Account)
      /\ tokens \subseteq Token /\ task \in [Sessions -> Task] /\ clock \in Nat
      /\ DOMAIN users = 1 .. Len(users) /\ Len(users) \in Nat
  BY <1>1 DEF AccountsInv, TypeOK
<1>3. ASSUME NEW r \in Sessions, RegisterLookup(r) PROVE AccessInv'
  <2>1. UNCHANGED <<users, tokens>> BY <1>3 DEF RegisterLookup
  <2>2. PICK a \in Addresses :
          \/ /\ WithEmail(Lower[a]) # {}
             /\ Begin(r, [NoTask EXCEPT !.stage = "taken", !.address = a])
          \/ \E p \in Passwords, role \in Roles :
               Begin(r, [NoTask EXCEPT !.stage = "insert", !.address = a, !.password = p,
                                       !.role = role])
    BY <1>3 DEF RegisterLookup, RegisterEmail
  <2>3. CASE /\ WithEmail(Lower[a]) # {}
             /\ Begin(r, [NoTask EXCEPT !.stage = "taken", !.address = a])
    <3> DEFINE t == [NoTask EXCEPT !.stage = "taken", !.address = a]
    <3>1. t.stage = "taken" /\ t.address = a BY DEF NoTask
    <3>2. PICK i \in DOMAIN users : users[i].email = Lower[a] BY <2>3 DEF WithEmail
    <3>3. Lower[users[i].email] = Lower[a] BY <3>2, AccountsAssumption
    <3> HIDE DEF t
    <3>4. SessionOK(t, users, tokens) /\ LoadOK(t, users) BY <3>1, <3>3 DEF SessionOK, LoadOK
    <3> QED BY <3>4, <2>1, <2>3, <1>1, SessionMoves DEF Begin, t
  <2>4. ASSUME NEW p \in Passwords, NEW role \in Roles,
               Begin(r, [NoTask EXCEPT !.stage = "insert", !.address = a, !.password = p,
                                       !.role = role])
        PROVE  AccessInv'
    <3> DEFINE t == [NoTask EXCEPT !.stage = "insert", !.address = a, !.password = p,
                                   !.role = role]
    <3>1. t.stage = "insert" BY DEF NoTask
    <3>2. SessionOK(t, users, tokens) /\ LoadOK(t, users) BY <3>1, PlainTask
    <3> HIDE DEF t
    <3> QED BY <3>2, <2>1, <2>4, <1>1, SessionMoves DEF Begin, t
  <2> QED BY <2>2, <2>3, <2>4
<1>4. ASSUME NEW r \in Sessions, LoginSelect(r) PROVE AccessInv'
  <2>1. UNCHANGED <<users, tokens>> BY <1>4 DEF LoginSelect
  <2>2. PICK a \in Addresses, p \in Passwords :
          LET args == [NoTask EXCEPT !.address = a, !.password = p, !.seen = Len(users)] IN
          \/ /\ WithEmail(Lower[a]) = {}
             /\ Begin(r, [args EXCEPT !.stage = "bad_credentials"])
          \/ \E i \in WithEmail(Lower[a]) :
               Begin(r, [args EXCEPT !.stage = "verify", !.user = i, !.role = users[i].role])
    BY <1>4 DEF LoginSelect, LoginEmail
  <2> DEFINE args == [NoTask EXCEPT !.address = a, !.password = p, !.seen = Len(users)]
  <2>3. CASE /\ WithEmail(Lower[a]) = {}
             /\ Begin(r, [args EXCEPT !.stage = "bad_credentials"])
    <3> DEFINE t == [args EXCEPT !.stage = "bad_credentials"]
    <3>1. /\ t.stage = "bad_credentials" /\ t.address = a
          /\ t.seen = Len(users) /\ t.password = p
      BY DEF NoTask
    <3>2. \A i \in 1 .. Len(users) : Lower[users[i].email] # Lower[a]
      BY <2>3, <1>1, <1>2 DEF WithEmail, AccountsInv
    <3> HIDE DEF t
    <3>3. SessionOK(t, users, tokens) /\ LoadOK(t, users)
      BY <3>1, <3>2, <1>2 DEF SessionOK, LoadOK
    <3> QED BY <3>3, <2>1, <2>3, <1>1, SessionMoves DEF Begin, t
  <2>4. ASSUME NEW i \in WithEmail(Lower[a]),
               Begin(r, [args EXCEPT !.stage = "verify", !.user = i, !.role = users[i].role])
        PROVE  AccessInv'
    <3> DEFINE t == [args EXCEPT !.stage = "verify", !.user = i, !.role = users[i].role]
    <3>1. t.stage = "verify" /\ t.address = a /\ t.seen = Len(users) /\ t.user = i
      BY DEF NoTask
    <3>2. i \in DOMAIN users /\ users[i].email = Lower[a] BY <2>4 DEF WithEmail
    <3> HIDE DEF t
    <3>3. SessionOK(t, users, tokens) /\ LoadOK(t, users)
      BY <3>1, <3>2, <1>2 DEF SessionOK, LoadOK
    <3> QED BY <3>3, <2>1, <2>4, <1>1, SessionMoves DEF Begin, t
  <2> QED BY <2>2, <2>3, <2>4
<1>5. ASSUME NEW r \in Sessions, DecodeToken(r) PROVE AccessInv'
  <2>1. UNCHANGED <<users, tokens>> BY <1>5 DEF DecodeToken
  <2>2. PICK token \in tokens :
          LET args == [NoTask EXCEPT !.token = token, !.at = clock] IN
          \/ /\ Expired(token)
             /\ Begin(r, [args EXCEPT !.stage = "expired"])
          \/ /\ ~Expired(token)
             /\ \E need \in Needs :
                  Begin(r, [args EXCEPT !.stage = "load", !.need = need,
                                        !.could = MayEnter(users[token.sub], need)])
    BY <1>5 DEF DecodeToken
  <2> DEFINE args == [NoTask EXCEPT !.token = token, !.at = clock]
  <2>3. CASE Expired(token) /\ Begin(r, [args EXCEPT !.stage = "expired"])
    <3> DEFINE t == [args EXCEPT !.stage = "expired"]
    <3>1. t.stage = "expired" /\ t.token = token /\ t.at = clock BY DEF NoTask
    <3> HIDE DEF t
    <3>2. SessionOK(t, users, tokens) /\ LoadOK(t, users)
      BY <3>1, <2>3 DEF SessionOK, LoadOK, Expired
    <3> QED BY <3>2, <2>1, <2>3, <1>1, SessionMoves DEF Begin, t
  <2>4. ASSUME ~Expired(token), NEW need \in Needs,
               Begin(r, [args EXCEPT !.stage = "load", !.need = need,
                                     !.could = MayEnter(users[token.sub], need)])
        PROVE  AccessInv'
    <3> DEFINE t == [args EXCEPT !.stage = "load", !.need = need,
                                 !.could = MayEnter(users[token.sub], need)]
    <3>1. /\ t.stage = "load" /\ t.token = token /\ t.at = clock /\ t.need = need
          /\ t.could = MayEnter(users[token.sub], need)
      BY DEF NoTask
    <3> HIDE DEF t
    <3>2. SessionOK(t, users, tokens) /\ LoadOK(t, users)
      BY <3>1, <2>4 DEF SessionOK, LoadOK, Expired
    <3> QED BY <3>2, <2>1, <2>4, <1>1, SessionMoves DEF Begin, t
  <2> QED BY <2>2, <2>3, <2>4
<1>6. ASSUME NEW r \in Sessions, LoadUser(r) PROVE AccessInv'
  <2>1. UNCHANGED <<users, tokens>> /\ task[r].stage = "load" BY <1>6 DEF LoadUser
  <2>2. ASSUME NEW stage \in {"inactive", "forbidden"}, Done(r, stage) PROVE AccessInv'
    <3> DEFINE t == [NoTask EXCEPT !.stage = stage]
    <3>1. t.stage = stage BY DEF NoTask
    <3>2. SessionOK(t, users, tokens) /\ LoadOK(t, users) BY <3>1, PlainTask
    <3> HIDE DEF t
    <3> QED BY <3>2, <2>1, <2>2, <1>1, SessionMoves DEF Done, t
  <2>3. CASE /\ users[task[r].token.sub].active
             /\ CurrentRole(task[r].token) \in task[r].need
             /\ Goto(r, "admitted")
    <3> DEFINE t == [task[r] EXCEPT !.stage = "admitted"]
    <3>1. task[r] \in Task BY <1>2
    <3>2. /\ t.stage = "admitted" /\ t.token = task[r].token /\ t.at = task[r].at
          /\ t.could = task[r].could
      BY <3>1 DEF Task
    <3>3. SessionOK(task[r], users, tokens) /\ LoadOK(task[r], users) BY DEF AccessInv
    <3>4. MayEnter(users[task[r].token.sub], task[r].need) BY <2>3 DEF MayEnter, CurrentRole
    <3>5. task' = [task EXCEPT ![r] = t] BY <2>3, <1>2 DEF Goto
    <3> HIDE DEF t
    <3>6. SessionOK(t, users, tokens) /\ LoadOK(t, users)
      BY <3>2, <3>3, <3>4, <2>1 DEF SessionOK, LoadOK
    <3> QED BY <3>5, <3>6, <2>1, <1>1, SessionMoves
  <2> QED BY <1>6, <2>2, <2>3 DEF LoadUser
<1>7. ASSUME NEW r \in Sessions, Close(r) PROVE AccessInv'
  <2>1. NoTask.stage = "idle" BY DEF NoTask
  <2>2. SessionOK(NoTask, users, tokens) /\ LoadOK(NoTask, users) BY <2>1, PlainTask
  <2> QED BY <2>2, <1>1, <1>7, SessionMoves DEF Close
<1>8. ASSUME NEW r \in Sessions, LoginVerify(r) PROVE AccessInv'
  <2> DEFINE s == task[r]
  <2>1. s.stage = "verify" /\ UNCHANGED users BY <1>8 DEF LoginVerify
  <2>2. s \in Task /\ SessionOK(s, users, tokens) BY <1>2 DEF AccessInv
  <2>3. CASE Digest[s.password] # users[s.user].digest /\ Goto(r, "bad_credentials")
             /\ UNCHANGED tokens
    <3> DEFINE t == [s EXCEPT !.stage = "bad_credentials"]
    <3>1. /\ t.stage = "bad_credentials" /\ t.address = s.address
          /\ t.seen = s.seen /\ t.password = s.password
      BY <2>2 DEF Task
    <3>2. task' = [task EXCEPT ![r] = t] BY <2>3, <1>2 DEF Goto
    <3>3. /\ s.address \in Addresses /\ s.seen <= Len(users)
          /\ s.user \in DOMAIN users /\ users[s.user].email = Lower[s.address]
      BY <2>1, <2>2 DEF SessionOK
    <3>4. s.seen \in Nat BY <2>2 DEF Task
    <3>5. \A i \in 1 .. s.seen : i \in DOMAIN users BY <3>3, <3>4, <1>2
    <3>6. \A i \in 1 .. s.seen : Lower[users[i].email] = Lower[s.address] => i = s.user
      BY <3>3, <3>5, <1>1, AccountsAssumption DEF AccountsInv, OneAccountPerAddress
    <3> HIDE DEF t
    <3>7. SessionOK(t, users, tokens) /\ LoadOK(t, users)
      BY <3>1, <3>3, <3>6, <2>3 DEF SessionOK, LoadOK
    <3> QED BY <3>2, <3>7, <2>1, <2>3, <1>1, SessionMoves
  <2>4. CASE tokens' = tokens \cup {NewToken(s)} /\ Done(r, "logged_in")
    <3> DEFINE t == [NoTask EXCEPT !.stage = "logged_in"]
    <3>1. t.stage = "logged_in" BY DEF NoTask
    <3>2. SessionOK(t, users, tokens') /\ LoadOK(t, users) BY <3>1, PlainTask
    <3>3. Grown(users, users) BY <1>2 DEF Grown
    <3>4. \A p \in Sessions : SessionOK(task[p], users, tokens') /\ LoadOK(task[p], users)
      BY <3>3, <2>4, <1>2, SessionKept DEF AccessInv
    <3>5. task' = [task EXCEPT ![r] = t] BY <2>4 DEF Done
    <3>6. \A p \in Sessions : task'[p] = IF p = r THEN t ELSE task[p] BY <3>5, <1>2
    <3>7. s.user \in DOMAIN users BY <2>1, <2>2 DEF SessionOK
    <3>8. NewToken(s).sub = s.user /\ NewToken(s).exp = Seconds(NewToken(s).issued + Lifetime)
      BY DEF NewToken
    <3>9. TokensOK(users, tokens') BY <3>7, <3>8, <2>4 DEF AccessInv, TokensOK
    <3> HIDE DEF t
    <3> QED BY <3>2, <3>4, <3>6, <3>9, <2>1, <1>1 DEF AccessInv
  <2> QED BY <1>8, <2>3, <2>4 DEF LoginVerify
<1>9. ASSUME NEW r \in Sessions, RegisterInsert(r) PROVE AccessInv'
  <2> DEFINE s == task[r]
  <2>1. s.stage = "insert" /\ UNCHANGED tokens BY <1>9 DEF RegisterInsert
  <2>2. s \in Task /\ s.address \in Addresses BY <2>1, <1>2 DEF TypeOK
  <2>3. CASE /\ EmailTaken(Lower[s.address]) /\ UNCHANGED users
             /\ task' = [task EXCEPT ![r] = [NoTask EXCEPT !.stage = "taken", !.address = s.address]]
    <3> DEFINE t == [NoTask EXCEPT !.stage = "taken", !.address = s.address]
    <3>1. t.stage = "taken" /\ t.address = s.address BY DEF NoTask
    <3>2. PICK i \in DOMAIN users : users[i].email = Lower[s.address]
      BY <2>3 DEF EmailTaken, WithEmail
    <3>3. Lower[users[i].email] = Lower[s.address] BY <3>2, <2>2, AccountsAssumption
    <3> HIDE DEF t
    <3>4. SessionOK(t, users, tokens) /\ LoadOK(t, users)
      BY <3>1, <3>3, <2>2 DEF SessionOK, LoadOK
    <3> QED BY <3>4, <2>1, <2>3, <1>1, SessionMoves DEF t
  <2>4. ASSUME NEW row, users' = Append(users, row), Done(r, "registered") PROVE AccessInv'
    <3> DEFINE t == [NoTask EXCEPT !.stage = "registered"]
    <3>1. t.stage = "registered" BY DEF NoTask
    <3>2. SessionOK(t, users', tokens) /\ LoadOK(t, users') BY <3>1, PlainTask
    <3>3. /\ Len(users') = Len(users) + 1
          /\ \A i \in DOMAIN users : users'[i] = users[i]
      BY <2>4, <1>2
    <3>4. Grown(users, users') BY <3>3, <1>2 DEF Grown
    <3>5. tokens \cup {} = tokens OBVIOUS
    <3>6. \A p \in Sessions : SessionOK(task[p], users', tokens)
      BY <3>4, <3>5, <1>2, SessionKept DEF AccessInv
    <3>7. \A p \in Sessions : LoadOK(task[p], users')
      <4> SUFFICES ASSUME NEW p \in Sessions, task[p].stage = "load" PROVE LoadOK(task[p], users')
        BY DEF LoadOK
      <4>1. task[p].token \in tokens BY DEF AccessInv, SessionOK
      <4>2. task[p].token.sub \in DOMAIN users BY <4>1 DEF AccessInv, TokensOK
      <4> QED BY <4>2, <3>3 DEF AccessInv, LoadOK
    <3>8. task' = [task EXCEPT ![r] = t] BY <2>4 DEF Done
    <3>9. \A p \in Sessions : task'[p] = IF p = r THEN t ELSE task[p] BY <3>8, <1>2
    <3>10. TokensOK(users', tokens) BY <3>4, <1>2, TokensKept DEF AccessInv
    <3> HIDE DEF t
    <3> QED BY <3>2, <3>6, <3>7, <3>9, <3>10, <2>1, <1>1 DEF AccessInv
  <2> QED BY <1>9, <2>3, <2>4 DEF RegisterInsert, RegisterEmail
<1>10. ASSUME NEW i \in DOMAIN users, ChangeUser(i) PROVE AccessInv'
  <2>1. PICK row \in {[users[i] EXCEPT !.active = ~@]}
                       \cup {[users[i] EXCEPT !.role = role] : role \in Roles \ {users[i].role}} :
          /\ users' = [users EXCEPT ![i] = row]
          /\ task' = [r \in Sessions |->
                        IF task[r].stage = "load" /\ task[r].token.sub = i
                          THEN [task[r] EXCEPT !.could = @ \/ MayEnter(row, task[r].need)]
                          ELSE task[r]]
    BY <1>10 DEF ChangeUser
  <2>2. users[i] \in Account BY <1>2
  <2>3. row.email = users[i].email /\ row.digest = users[i].digest BY <2>1, <2>2 DEF Account
  <2>4. /\ UNCHANGED tokens /\ Len(users') = Len(users) /\ users'[i] = row
        /\ \A j \in DOMAIN users \ {i} : users'[j] = users[j]
    BY <2>1, <1>2, <1>10 DEF ChangeUser
  <2>5. Grown(users, users') BY <2>3, <2>4, <1>2 DEF Grown
  <2>6. TokensOK(users', tokens) BY <2>5, <1>2, TokensKept DEF AccessInv
  <2>7. ASSUME NEW p \in Sessions
        PROVE  SessionOK(task'[p], users', tokens) /\ LoadOK(task'[p], users')
    <3>1. tokens \cup {} = tokens OBVIOUS
    <3>2. SessionOK(task[p], users', tokens)
      <4>1. task[p] \in Task /\ SessionOK(task[p], users, tokens) BY <1>2 DEF AccessInv
      <4>2. SessionOK(task[p], users', tokens \cup {}) BY <4>1, <2>5, <1>2, SessionKept
      <4> QED BY <4>2, <3>1
    <3>3. task[p] \in Task BY <1>2
    <3>4. CASE task[p].stage = "load" /\ task[p].token.sub = i
      <4>1. /\ task'[p].stage = "load" /\ task'[p].token = task[p].token /\ task'[p].at = task[p].at
            /\ task'[p].need = task[p].need
            /\ MayEnter(row, task[p].need) => task'[p].could
        BY <2>1, <3>3, <3>4 DEF Task
      <4> QED BY <4>1, <3>2, <3>4, <2>4 DEF SessionOK, LoadOK
    <3>5. CASE ~(task[p].stage = "load" /\ task[p].token.sub = i)
      <4>1. task'[p] = task[p] BY <2>1, <3>5
      <4>2. LoadOK(task[p], users')
        <5> SUFFICES ASSUME task[p].stage = "load" PROVE LoadOK(task[p], users') BY DEF LoadOK
        <5>1. task[p].token \in tokens BY DEF AccessInv, SessionOK
        <5>2. task[p].token.sub \in DOMAIN users BY <5>1 DEF AccessInv, TokensOK
        <5> QED BY <5>2, <3>5, <2>4 DEF AccessInv, LoadOK
      <4> QED BY <4>1, <4>2, <3>2
    <3> QED BY <3>4, <3>5
  <2> QED BY <2>4, <2>6, <2>7, <1>1 DEF AccessInv
<1>11. CASE Tick BY <1>1, <1>11 DEF Tick, AccessInv
<1>12. CASE UNCHANGED vars BY <1>1, <1>12 DEF vars, AccessInv
<1> QED BY <1>3, <1>4, <1>5, <1>6, <1>7, <1>8, <1>9, <1>10, <1>11, <1>12 DEF Next

LEMMA AccessInvariant == Spec => []AccessInv
<1>1. Init => AccessInv
  BY NoTaskOK
  DEF Init, AccessInv, AccountsInv, TypeOK, OneAccountPerAddress, NoTask, TokensOK, SessionOK, LoadOK
<1> QED BY <1>1, AccessStep, PTL DEF Spec

-------------------------------------------------------------------------------
\* A whole number of seconds and a rest of less than one.
LEMMA SecondsBounds ==
  ASSUME NEW n \in Nat
  PROVE  Seconds(n) * Second <= n /\ n < Seconds(n) * Second + Second
  BY AccountsAssumption DEF Seconds

\* Later whole seconds begin at least a second later.
LEMMA SecondsApart ==
  ASSUME NEW a \in Nat, NEW b \in Nat, a < b
  PROVE  a * Second + Second <= b * Second
  BY AccountsAssumption

\* Whoever was answered 201 by register_user can log in, and a registration is
\* refused only for an address that is taken.
THEOREM RefusalIsRealHolds == Spec => []RefusalIsReal
<1>1. AccessInv => RefusalIsReal BY DEF AccessInv, SessionOK, RefusalIsReal
<1> QED BY <1>1, AccessInvariant, PTL

\* What create_access_token writes as "exp" and jose compares with the clock, both
\* in whole seconds, lets a token live its configured time, and less than a second
\* more.
THEOREM TokenLifetimeHolds == Spec => []TokenLifetime
<1>1. ASSUME AccessInv, NEW r \in Sessions
      PROVE  LET t == task[r]
                 age == t.at - t.token.issued IN
             /\ t.stage \in {"load", "admitted"} => age < Lifetime + Second
             /\ t.stage = "expired" => age > Lifetime
  <2> DEFINE t == task[r]
             k == t.token
             end == k.issued + Lifetime
  <2>1. t \in Task BY <1>1 DEF AccessInv, AccountsInv, TypeOK
  <2>2. t.at \in Nat /\ k.issued \in Nat BY <2>1 DEF Task, Token
  <2>3. Lifetime \in Nat /\ Second \in Nat BY AccountsAssumption
  <2>4. end \in Nat BY <2>2, <2>3
  <2>5. Seconds(t.at) \in Nat /\ Seconds(end) \in Nat BY <2>2, <2>4, SecondsNat
  <2>6. SessionOK(t, users, tokens) /\ TokensOK(users, tokens) BY <1>1 DEF AccessInv
  <2>7. /\ Seconds(end) * Second <= end /\ end < Seconds(end) * Second + Second
        /\ Seconds(t.at) * Second <= t.at /\ t.at < Seconds(t.at) * Second + Second
    BY <2>2, <2>4, SecondsBounds
  <2> DEFINE x == Seconds(end) * Second
             y == Seconds(t.at) * Second
  <2>8. x \in Nat /\ y \in Nat BY <2>3, <2>5
  <2>9. ASSUME t.stage \in {"load", "admitted"} PROVE t.at - k.issued < Lifetime + Second
    <3>1. ~(Seconds(end) < Seconds(t.at)) BY <2>6, <2>9 DEF SessionOK, TokensOK
    <3>2. y <= x
      <4>1. CASE Seconds(t.at) = Seconds(end) BY <4>1, <2>8
      <4>2. CASE Seconds(t.at) < Seconds(end)
        <5>1. y + Second <= x BY <4>2, <2>5, SecondsApart
        <5> HIDE DEF x, y
        <5> QED BY <5>1, <2>3, <2>8
      <4> QED BY <3>1, <4>1, <4>2, <2>5
    <3>3. x <= end /\ t.at < y + Second BY <2>7
    <3> HIDE DEF x, y, k, t
    <3> QED BY <3>2, <3>3, <2>2, <2>3, <2>8
  <2>10. ASSUME t.stage = "expired" PROVE t.at - k.issued > Lifetime
    <3>1. Seconds(end) < Seconds(t.at) BY <2>6, <2>10 DEF SessionOK, TokensOK
    <3>2. x + Second <= y BY <3>1, <2>5, SecondsApart
    <3>3. end < x + Second /\ y <= t.at BY <2>7
    <3> HIDE DEF x, y, k, t
    <3> QED BY <3>2, <3>3, <2>2, <2>3, <2>8
  <2> QED BY <2>9, <2>10
<1>2. AccessInv => TokenLifetime BY <1>1 DEF TokenLifetime
<1> QED BY <1>2, AccessInvariant, PTL

\* get_current_user and require_roles let nobody in who could not have been let in
\* at some moment of the request, whatever the token claims.
THEOREM AdmittedAsIsHolds == Spec => []AdmittedAsIs
<1>1. AccessInv => AdmittedAsIs BY DEF AccessInv, SessionOK, AdmittedAsIs
<1> QED BY <1>1, AccessInvariant, PTL
===============================================================================
