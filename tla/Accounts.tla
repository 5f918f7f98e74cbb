-------------------------------- MODULE Accounts --------------------------------
(***************************************************************************)
(* Registration, login and the check of the bearer token that every        *)
(* protected endpoint starts with (app/services/auth_service.py,           *)
(* app/core/security.py, app/api/deps.py).  Tokens are not stored: a token *)
(* is good until its "exp", for whatever its user is by then.  The service *)
(* never changes or removes a user; is_active and role are changed from    *)
(* outside, in the database.                                               *)
(*                                                                         *)
(* Time is counted in ticks, Second of them a second: JWT times are whole  *)
(* seconds.                                                                *)
(***************************************************************************)
EXTENDS Naturals, Sequences, FiniteSets

CONSTANTS
  Sessions,    \* API worker threads
  Addresses,   \* e-mail addresses, in every spelling clients use
  Lower,       \* Lower[a]: str.lower()
  Passwords,   \* passwords that pass validation
  Digest,      \* Digest[p]: what bcrypt makes of a password, the salt apart
  Roles,       \* UserRole, or those of its members that are in use
  Second,      \* ticks in a second
  Lifetime,    \* settings.access_token_expire_minutes, in ticks
  Nil,         \* no value
  MaxUsers,    \* bound: accounts
  MaxTokens,   \* bound: distinct tokens
  MaxChanges,  \* bound: changes of users from outside
  MaxClock     \* bound: the last tick

ASSUME AccountsAssumption ==
  /\ Lower \in [Addresses -> Addresses]
  /\ \A a \in Addresses : Lower[Lower[a]] = Lower[a]
  /\ DOMAIN Digest = Passwords
  /\ Roles \subseteq {"client", "specialist", "admin"} /\ "client" \in Roles
  /\ Second \in Nat \ {0}
  /\ Lifetime \in {k * Second : k \in 0 .. Lifetime}
  /\ {MaxUsers, MaxTokens, MaxChanges, MaxClock} \subseteq Nat

VARIABLES
  clock,    \* datetime.now(UTC), in ticks
  users,    \* users, in the order of their ids
  tokens,   \* the tokens handed out
  changes,  \* how often a user was changed from outside
  task      \* task[r]: where session r is, its arguments and its answer

vars == <<clock, users, tokens, changes, task>>

\* require_roles of the endpoints; get_current_user alone admits every role.
Needs == {Roles, {"client", "admin"}, {"specialist", "admin"}, {"admin"}}

\* 'issued' is a history field: "exp" is all the token says of time.
NoToken == [sub |-> 0, role |-> "client", issued |-> 0, exp |-> 0]

Closed == {"idle", "registered", "taken", "logged_in", "bad_credentials",
           "expired", "inactive", "forbidden", "admitted"}
Stages == Closed \cup {"insert", "verify", "load"}

\* History: 'seen' is how many accounts there were when a login began, 'at' the
\* tick at which a token was decoded, and 'could' whether its user could have been
\* let in at some moment since.
NoTask ==
  [stage |-> "idle", address |-> Nil, password |-> Nil, role |-> "client", user |-> 0,
   token |-> NoToken, need |-> {}, at |-> 0, seen |-> 0, could |-> FALSE]

Init ==
  /\ clock = 0
  /\ users = <<>>
  /\ tokens = {}
  /\ changes = 0
  /\ task = [r \in Sessions |-> NoTask]

Goto(r, stage) == task' = [task EXCEPT ![r].stage = stage]

\* An answer of which no property asks what it was given to.
Done(r, stage) == task' = [task EXCEPT ![r] = [NoTask EXCEPT !.stage = stage]]

Begin(r, args) ==
  /\ task[r].stage = "idle"
  /\ task' = [task EXCEPT ![r] = args]

WithEmail(a) == {i \in DOMAIN users : users[i].email = a}

-------------------------------------------------------------------------------
(***************************************************************************)
(* POST /auth/register                                                     *)
(***************************************************************************)
RegisterEmail(a) == Lower[a]

RegisterLookup(r) ==
  /\ \E a \in Addresses :
       \/ /\ WithEmail(RegisterEmail(a)) # {}
          /\ Begin(r, [NoTask EXCEPT !.stage = "taken", !.address = a])
       \/ /\ WithEmail(RegisterEmail(a)) = {}
          /\ \E p \in Passwords, role \in Roles :
               Begin(r, [NoTask EXCEPT !.stage = "insert", !.address = a, !.password = p,
                                       !.role = role])
  /\ UNCHANGED <<clock, users, tokens, changes>>

\* Mutant: the column is not unique.
EmailNeverTaken(a) == FALSE

\* The unique index of users.email, met by the INSERT.
EmailTaken(a) == WithEmail(a) # {}

\* get_password_hash, INSERT and COMMIT, or IntegrityError and ROLLBACK.
RegisterInsert(r) ==
  LET t == task[r]
      email == RegisterEmail(t.address) IN
  /\ t.stage = "insert"
  /\ \/ /\ EmailTaken(email)
        /\ task' = [task EXCEPT ![r] = [NoTask EXCEPT !.stage = "taken", !.address = t.address]]
        /\ UNCHANGED users
     \/ /\ ~EmailTaken(email)
        /\ Len(users) < MaxUsers
        /\ users' = Append(users, [email |-> email, digest |-> Digest[t.password],
                                   role |-> t.role, active |-> TRUE])
        /\ Done(r, "registered")
  /\ UNCHANGED <<clock, tokens, changes>>

-------------------------------------------------------------------------------
(***************************************************************************)
(* POST /auth/login.  An inactive user is given a token as well.           *)
(***************************************************************************)
\* Mutant: the address is looked up as it was typed.
LoginEmailAsTyped(a) == a

LoginEmail(a) == Lower[a]

LoginSelect(r) ==
  /\ \E a \in Addresses, p \in Passwords :
       LET found == WithEmail(LoginEmail(a))
           args == [NoTask EXCEPT !.address = a, !.password = p, !.seen = Len(users)] IN
       \/ /\ found = {}
          /\ Begin(r, [args EXCEPT !.stage = "bad_credentials"])
       \/ \E i \in found :
            Begin(r, [args EXCEPT !.stage = "verify", !.user = i, !.role = users[i].role])
  /\ UNCHANGED <<clock, users, tokens, changes>>

\* Whole seconds of a tick: what jose keeps of a datetime.
Seconds(tick) == tick \div Second

\* Mutant: "exp" is the time of the login.
NewTokenExpired(t) ==
  [sub |-> t.user, role |-> t.role, issued |-> clock, exp |-> Seconds(clock)]

\* create_access_token: the claims are those of the row as it was selected.
NewToken(t) ==
  [sub |-> t.user, role |-> t.role, issued |-> clock, exp |-> Seconds(clock + Lifetime)]

\* verify_password takes a while, and the clock is read after it.
LoginVerify(r) ==
  LET t == task[r]
      match == Digest[t.password] = users[t.user].digest IN
  /\ t.stage = "verify"
  /\ \/ /\ ~match
        /\ Goto(r, "bad_credentials")
        /\ UNCHANGED tokens
     \/ /\ match
        /\ tokens' = tokens \cup {NewToken(t)}
        /\ Cardinality(tokens') <= MaxTokens
        /\ Done(r, "logged_in")
  /\ UNCHANGED <<clock, users, changes>>

-------------------------------------------------------------------------------
(***************************************************************************)
(* get_current_user and require_roles, with a token that was handed out:   *)
(* any other does not decode.                                              *)
(***************************************************************************)
\* jose: ExpiredSignatureError if exp < now.
Expired(token) == token.exp < Seconds(clock)

MayEnter(row, need) == row.active /\ row.role \in need

DecodeToken(r) ==
  /\ \E token \in tokens :
       LET args == [NoTask EXCEPT !.token = token, !.at = clock] IN
       \/ Expired(token) /\ Begin(r, [args EXCEPT !.stage = "expired"])
       \/ /\ ~Expired(token)
          /\ \E need \in Needs :
               Begin(r, [args EXCEPT !.stage = "load", !.need = need,
                                     !.could = MayEnter(users[token.sub], need)])
  /\ UNCHANGED <<clock, users, tokens, changes>>

\* Mutant: the role is taken from the token.
ClaimedRole(token) == token.role

\* current_user.role: of the row, not of the token.
CurrentRole(token) == users[token.sub].role

\* SELECT of the user by "sub", is_active, and the role.
LoadUser(r) ==
  LET t == task[r]
      active == users[t.token.sub].active
      permitted == CurrentRole(t.token) \in t.need IN
  /\ t.stage = "load"
  /\ \/ ~active /\ Done(r, "inactive")
     \/ active /\ ~permitted /\ Done(r, "forbidden")
     \/ active /\ permitted /\ Goto(r, "admitted")
  /\ UNCHANGED <<clock, users, tokens, changes>>

\* get_db closes the session.
Close(r) ==
  /\ task[r].stage \in Closed \ {"idle"}
  /\ task' = [task EXCEPT ![r] = NoTask]
  /\ UNCHANGED <<clock, users, tokens, changes>>

-------------------------------------------------------------------------------
\* Somebody sets is_active or role of a user in the database.
ChangeUser(i) ==
  /\ changes < MaxChanges
  /\ \E row \in {[users[i] EXCEPT !.active = ~@]}
                  \cup {[users[i] EXCEPT !.role = role] : role \in Roles \ {users[i].role}} :
       /\ users' = [users EXCEPT ![i] = row]
       /\ task' = [r \in Sessions |->
                     IF task[r].stage = "load" /\ task[r].token.sub = i
                       THEN [task[r] EXCEPT !.could = @ \/ MayEnter(row, task[r].need)]
                       ELSE task[r]]
  /\ changes' = changes + 1
  /\ UNCHANGED <<clock, tokens>>

Tick ==
  /\ clock < MaxClock
  /\ clock' = clock + 1
  /\ UNCHANGED <<users, tokens, changes, task>>

Next ==
  \/ \E r \in Sessions :
       RegisterLookup(r) \/ RegisterInsert(r) \/ LoginSelect(r) \/ LoginVerify(r)
         \/ DecodeToken(r) \/ LoadUser(r) \/ Close(r)
  \/ \E i \in DOMAIN users : ChangeUser(i)
  \/ Tick

Spec == Init /\ [][Next]_vars

-------------------------------------------------------------------------------
Account == [email: Addresses, digest: {Digest[p] : p \in Passwords}, role: Roles, active: BOOLEAN]
Token == [sub: Nat, role: Roles, issued: Nat, exp: Nat]
Task ==
  [stage: Stages, address: Addresses \cup {Nil}, password: Passwords \cup {Nil}, role: Roles,
   user: Nat, token: Token, need: SUBSET {"client", "specialist", "admin"}, at: Nat, seen: Nat,
   could: BOOLEAN]

\* Every variable has its type, and a registration under way has what it inserts.
TypeOK ==
  /\ clock \in Nat
  /\ users \in Seq(Account)
  /\ tokens \subseteq Token
  /\ task \in [Sessions -> Task]
  /\ \A r \in Sessions : task[r].stage = "insert" =>
       task[r].address \in Addresses /\ task[r].password \in Passwords

\* An address has one account, however it is spelled and however many requests
\* register it at once: the lookup of register_user and its INSERT are apart.
OneAccountPerAddress ==
  \A i, j \in DOMAIN users : Lower[users[i].email] = Lower[users[j].email] => i = j

\* The inductive invariant behind OneAccountPerAddress: addresses are stored in
\* lower case, so that the index compares addresses and not spellings.
AccountsInv ==
  /\ TypeOK
  /\ \A i \in DOMAIN users : Lower[users[i].email] = users[i].email
  /\ OneAccountPerAddress

\* A registration is refused only for an address that has an account, and a login
\* only if no account that was there when it began has that address, in any
\* spelling, and that password: whoever was answered 201 can log in.
RefusalIsReal ==
  \A r \in Sessions :
    LET t == task[r]
        Own(i) == Lower[users[i].email] = Lower[t.address] IN
    /\ t.stage = "taken" => \E i \in DOMAIN users : Own(i)
    /\ t.stage = "bad_credentials" =>
         \A i \in 1 .. t.seen : Own(i) => users[i].digest # Digest[t.password]

\* A token is accepted for access_token_expire_minutes from the moment it was made,
\* and for less than a second longer, although "exp" and the clock it is compared
\* with are both cut to whole seconds.
TokenLifetime ==
  \A r \in Sessions :
    LET t == task[r]
        age == t.at - t.token.issued IN
    /\ t.stage \in {"load", "admitted"} => age < Lifetime + Second
    /\ t.stage = "expired" => age > Lifetime

\* Nobody is let in who could not have been let in at any moment of the request: a
\* token made before its user was deactivated or given another role is worth what
\* the user is worth now.
AdmittedAsIs == \A r \in Sessions : task[r].stage = "admitted" => task[r].could
===============================================================================
