------------------------------- MODULE Sessions -------------------------------
(***************************************************************************)
(* Accounts and sessions: AuthService (services/api/src/auth/service.rs)   *)
(* over PgUserRepository (services/api/src/auth/repository.rs).            *)
(*                                                                         *)
(* Every request is a sequence of repository calls, each atomic by itself: *)
(* registration checks the names and inserts later, a refresh revokes the  *)
(* old token and stores the new one later, a password reset consumes its   *)
(* token, replaces the password and revokes the sessions in three calls.   *)
(* Requests run concurrently and may be abandoned between two calls.       *)
(***************************************************************************)
EXTENDS Naturals, FiniteSets

CONSTANTS
  Users,        \* the UUIDs registration draws, in any fixed order
  Names,        \* login names; a username may look like an e-mail address
  Emails,       \* the names that are accepted as e-mail addresses
  Passwords,    \* passwords clients choose
  Tokens,       \* refresh tokens the generator may draw, each once
  ResetTokens,  \* password reset tokens, likewise
  NoToken,      \* a login or registration has no token before it
  Tasks,        \* requests the server works on at the same time
  SessionLife,  \* refresh_token_expiry_days
  ResetLife,    \* the hour of a reset token
  MaxTime,      \* bound of the clock
  MaxEra        \* bound of the logouts and password changes of a user

ASSUME SessionsAssumption ==
  /\ Users # {} /\ Names # {} /\ Passwords # {}
  /\ Emails \subseteq Names
  /\ NoToken \notin Tokens
  /\ SessionLife \in Nat \ {0} /\ ResetLife \in Nat \ {0}
  /\ MaxTime \in Nat /\ MaxEra \in Nat

VARIABLES
  now,       \* Utc::now()
  accounts,  \* the users table
  sessions,  \* the refresh_tokens table
  resets,    \* the password_reset_tokens table
  pc,        \* where a task is in its request
  req,       \* the locals of its request
  held,      \* ghost: the refresh tokens clients have been given
  root,      \* ghost: the token of the login a refresh token descends from
  era,       \* ghost: logouts and password changes of a user so far
  born,      \* ghost: the era in which a client was given a refresh token
  closed,    \* ghost: the latest era whose logout or reset was confirmed
  changes    \* ghost: how often the password of a user was replaced

table == <<accounts, sessions, resets>>
ghost == <<held, root, era, born, closed, changes>>
vars == <<now, accounts, sessions, resets, pc, req, held, root, era, born, closed, changes>>

-------------------------------------------------------------------------------
(***************************************************************************)
(* Data.                                                                   *)
(***************************************************************************)
Account == [registered : BOOLEAN, username : Names, email : Names, password : Passwords]
Session == [status : {"undrawn", "active", "revoked"}, user : Users, expires_at : Nat]
Reset == [status : {"undrawn", "unused", "used"}, user : Users, expires_at : Nat]

\* A request checks its username ("registering") and its e-mail address
\* ("checked_name"), inserts the account ("checked_email"), stores a token
\* ("issuing") and hands it out ("answering"); a reset replaces the password
\* ("resetting"); a logout or a reset revokes the sessions ("revoking").
Steps == {"idle", "registering", "checked_name", "checked_email", "issuing", "answering",
          "resetting", "revoking"}

\* user: whom the request is about; username, email, password: what it carries;
\* parent: the token it exchanged; token: the token it has stored; era: the one it
\* began when it replaced the password or arrived as a logout.
Request == [user : Users, username : Names, email : Names, password : Passwords,
            parent : Tokens \cup {NoToken}, token : Tokens \cup {NoToken}, era : Nat]

AnyUser == CHOOSE u \in Users : TRUE
AnyName == CHOOSE n \in Names : TRUE
AnyPassword == CHOOSE p \in Passwords : TRUE

NoAccount == [registered |-> FALSE, username |-> AnyName, email |-> AnyName,
              password |-> AnyPassword]
NoRequest == [user |-> AnyUser, username |-> AnyName, email |-> AnyName,
              password |-> AnyPassword, parent |-> NoToken, token |-> NoToken, era |-> 0]

Registered == {u \in Users : accounts[u].registered}

\* find_by_username_or_email: the accounts LIMIT 1 picks one of.
Found(name) == {u \in Registered : name \in {accounts[u].username, accounts[u].email}}

\* What validate_and_revoke_refresh_token accepts.
Active(tok) == sessions[tok].status = "active" /\ sessions[tok].expires_at > now

Init ==
  /\ now = 0
  /\ accounts = [u \in Users |-> NoAccount]
  /\ sessions = [k \in Tokens |-> [status |-> "undrawn", user |-> AnyUser, expires_at |-> 0]]
  /\ resets = [k \in ResetTokens |-> [status |-> "undrawn", user |-> AnyUser, expires_at |-> 0]]
  /\ pc = [t \in Tasks |-> "idle"]
  /\ req = [t \in Tasks |-> NoRequest]
  /\ held = {}
  /\ root = [k \in Tokens |-> k]
  /\ era = [u \in Users |-> 0]
  /\ born = [k \in Tokens |-> 0]
  /\ closed = [u \in Users |-> 0]
  /\ changes = [u \in Users |-> 0]

\* The request returns, or its future is dropped.
Finish(t) ==
  /\ pc' = [pc EXCEPT ![t] = "idle"]
  /\ req' = [req EXCEPT ![t] = NoRequest]

-------------------------------------------------------------------------------
(***************************************************************************)
(* register.                                                               *)
(***************************************************************************)

StartRegister(t, name, email, pass) ==
  /\ pc[t] = "idle"
  /\ pc' = [pc EXCEPT ![t] = "registering"]
  /\ req' = [req EXCEPT ![t] = [NoRequest EXCEPT !.username = name, !.email = email,
                                                 !.password = pass]]
  /\ UNCHANGED <<now, table, ghost>>

\* "Username is already taken" ends the request.
CheckUsername(t) ==
  /\ pc[t] = "registering"
  /\ IF Found(req[t].username) = {}
     THEN pc' = [pc EXCEPT ![t] = "checked_name"] /\ UNCHANGED req
     ELSE Finish(t)
  /\ UNCHANGED <<now, table, ghost>>

\* "Email is already registered" ends it as well.
CheckEmail(t) ==
  /\ pc[t] = "checked_name"
  /\ IF Found(req[t].email) = {}
     THEN pc' = [pc EXCEPT ![t] = "checked_email"] /\ UNCHANGED req
     ELSE Finish(t)
  /\ UNCHANGED <<now, table, ghost>>

\* The unique columns of the users table.
Conflicts(name, email) ==
  \E u \in Registered : accounts[u].username = name \/ accounts[u].email = email

\* Uuid::new_v4.
NewUser == CHOOSE u \in Users : u \notin Registered

\* Mutant: without the unique columns the insert trusts the two checks before it.
InsertUnchecked(t) ==
  /\ pc[t] = "checked_email"
  /\ Registered # Users
  /\ accounts' = [accounts EXCEPT ![NewUser] =
       [registered |-> TRUE, username |-> req[t].username, email |-> req[t].email,
        password |-> req[t].password]]
  /\ pc' = [pc EXCEPT ![t] = "issuing"]
  /\ req' = [req EXCEPT ![t].user = NewUser]
  /\ UNCHANGED <<now, sessions, resets, ghost>>

\* create_user: the INSERT, or its unique violation.
CreateUser(t) ==
  /\ pc[t] = "checked_email"
  /\ Registered # Users
  /\ ~Conflicts(req[t].username, req[t].email)
  /\ accounts' = [accounts EXCEPT ![NewUser] =
       [registered |-> TRUE, username |-> req[t].username, email |-> req[t].email,
        password |-> req[t].password]]
  /\ pc' = [pc EXCEPT ![t] = "issuing"]
  /\ req' = [req EXCEPT ![t].user = NewUser]
  /\ UNCHANGED <<now, sessions, resets, ghost>>

RefuseUser(t) ==
  /\ pc[t] = "checked_email"
  /\ Conflicts(req[t].username, req[t].email)
  /\ Finish(t)
  /\ UNCHANGED <<now, table, ghost>>

-------------------------------------------------------------------------------
(***************************************************************************)
(* login, refresh and generate_auth_response.                              *)
(***************************************************************************)

\* The account is read and the password compared with the hash that was read; a
\* wrong one ends the request.
StartLogin(t, name, pass, u) ==
  /\ pc[t] = "idle"
  /\ u \in Found(name)
  /\ accounts[u].password = pass
  /\ pc' = [pc EXCEPT ![t] = "issuing"]
  /\ req' = [req EXCEPT ![t] = [NoRequest EXCEPT !.user = u]]
  /\ UNCHANGED <<now, table, ghost>>

\* Mutant: the refresh token is looked up and not revoked.
ExchangeKeepingToken(t, tok) ==
  /\ pc[t] = "idle"
  /\ Active(tok)
  /\ pc' = [pc EXCEPT ![t] = "issuing"]
  /\ req' = [req EXCEPT ![t] = [NoRequest EXCEPT !.user = sessions[tok].user, !.parent = tok]]
  /\ UNCHANGED <<now, table, ghost>>

\* refresh: one UPDATE tests the token and revokes it; find_by_id then finds the
\* account, since accounts are never removed.
ExchangeToken(t, tok) ==
  /\ pc[t] = "idle"
  /\ Active(tok)
  /\ sessions' = [sessions EXCEPT ![tok].status = "revoked"]
  /\ pc' = [pc EXCEPT ![t] = "issuing"]
  /\ req' = [req EXCEPT ![t] = [NoRequest EXCEPT !.user = sessions[tok].user, !.parent = tok]]
  /\ UNCHANGED <<now, accounts, resets, ghost>>

\* Mutant: the record is made like that of a reset token.
StoreUnused(t, tok) ==
  /\ pc[t] = "issuing"
  /\ sessions[tok].status = "undrawn"
  /\ sessions' = [sessions EXCEPT ![tok] =
       [status |-> "unused", user |-> req[t].user, expires_at |-> now + ResetLife]]
  /\ pc' = [pc EXCEPT ![t] = "answering"]
  /\ req' = [req EXCEPT ![t].token = tok]
  /\ UNCHANGED <<now, accounts, resets, ghost>>

\* store_refresh_token.
StoreToken(t, tok) ==
  /\ pc[t] = "issuing"
  /\ sessions[tok].status = "undrawn"
  /\ sessions' = [sessions EXCEPT ![tok] =
       [status |-> "active", user |-> req[t].user, expires_at |-> now + SessionLife]]
  /\ root' = [root EXCEPT ![tok] = IF req[t].parent = NoToken THEN tok ELSE root[req[t].parent]]
  /\ pc' = [pc EXCEPT ![t] = "answering"]
  /\ req' = [req EXCEPT ![t].token = tok]
  /\ UNCHANGED <<now, accounts, resets, held, era, born, closed, changes>>

\* The AuthResponse reaches the client.
AnswerAuth(t) ==
  /\ pc[t] = "answering"
  /\ held' = held \cup {req[t].token}
  /\ born' = [born EXCEPT ![req[t].token] = era[req[t].user]]
  /\ Finish(t)
  /\ UNCHANGED <<now, table, root, era, closed, changes>>

-------------------------------------------------------------------------------
(***************************************************************************)
(* logout, forgot_password, reset_password.                                *)
(***************************************************************************)

StartLogout(t, u) ==
  /\ pc[t] = "idle"
  /\ u \in Registered
  /\ era[u] < MaxEra
  /\ era' = [era EXCEPT ![u] = @ + 1]
  /\ pc' = [pc EXCEPT ![t] = "revoking"]
  /\ req' = [req EXCEPT ![t] = [NoRequest EXCEPT !.user = u, !.era = era[u] + 1]]
  /\ UNCHANGED <<now, table, held, root, born, closed, changes>>

\* forgot_password: another reset token beside those the account has already.
ForgotPassword(u, tok) ==
  /\ u \in Registered
  /\ resets[tok].status = "undrawn"
  /\ resets' = [resets EXCEPT ![tok] =
       [status |-> "unused", user |-> u, expires_at |-> now + ResetLife]]
  /\ UNCHANGED <<now, accounts, sessions, pc, req, ghost>>

\* Mutant: the reset token is looked up and not marked as used.
ConsumeKeepingToken(t, tok, pass) ==
  /\ pc[t] = "idle"
  /\ resets[tok].status = "unused" /\ resets[tok].expires_at > now
  /\ pc' = [pc EXCEPT ![t] = "resetting"]
  /\ req' = [req EXCEPT ![t] = [NoRequest EXCEPT !.user = resets[tok].user, !.password = pass]]
  /\ UNCHANGED <<now, table, ghost>>

\* validate_and_consume_reset_token.
ConsumeReset(t, tok, pass) ==
  /\ pc[t] = "idle"
  /\ resets[tok].status = "unused" /\ resets[tok].expires_at > now
  /\ resets' = [resets EXCEPT ![tok].status = "used"]
  /\ pc' = [pc EXCEPT ![t] = "resetting"]
  /\ req' = [req EXCEPT ![t] = [NoRequest EXCEPT !.user = resets[tok].user, !.password = pass]]
  /\ UNCHANGED <<now, accounts, sessions, ghost>>

\* Mutant: the reset is confirmed once the password is replaced.
ConfirmUnrevoked(t) ==
  LET u == req[t].user
  IN  /\ pc[t] = "resetting"
      /\ era[u] < MaxEra
      /\ accounts' = [accounts EXCEPT ![u].password = req[t].password]
      /\ era' = [era EXCEPT ![u] = @ + 1]
      /\ closed' = [closed EXCEPT ![u] = era[u] + 1]
      /\ changes' = [changes EXCEPT ![u] = @ + 1]
      /\ Finish(t)
      /\ UNCHANGED <<now, sessions, resets, held, root, born>>

\* update_password_hash.
UpdatePassword(t) ==
  LET u == req[t].user
  IN  /\ pc[t] = "resetting"
      /\ era[u] < MaxEra
      /\ accounts' = [accounts EXCEPT ![u].password = req[t].password]
      /\ era' = [era EXCEPT ![u] = @ + 1]
      /\ pc' = [pc EXCEPT ![t] = "revoking"]
      /\ req' = [req EXCEPT ![t].era = era[u] + 1]
      /\ changes' = [changes EXCEPT ![u] = @ + 1]
      /\ UNCHANGED <<now, sessions, resets, held, root, born, closed>>

\* The sessions of an account, revoked in one UPDATE.
RevokeAll(u) ==
  sessions' = [k \in Tokens |->
    IF sessions[k].user = u /\ sessions[k].status = "active"
    THEN [sessions[k] EXCEPT !.status = "revoked"] ELSE sessions[k]]

\* revoke_all_user_refresh_tokens, the last call of a logout and of a reset.
RevokeSessions(t) ==
  /\ pc[t] = "revoking"
  /\ RevokeAll(req[t].user)
  /\ closed' = [closed EXCEPT ![req[t].user] = IF @ < req[t].era THEN req[t].era ELSE @]
  /\ Finish(t)
  /\ UNCHANGED <<now, accounts, resets, held, root, era, born, changes>>

-------------------------------------------------------------------------------
\* A future is dropped between two calls, a call fails, or the process restarts
\* (all tasks are dropped, one after the other).
Abandon(t) ==
  /\ pc[t] # "idle"
  /\ Finish(t)
  /\ UNCHANGED <<now, table, ghost>>

Tick ==
  /\ now < MaxTime
  /\ now' = now + 1
  /\ UNCHANGED <<table, pc, req, ghost>>

Next ==
  \/ \E t \in Tasks, n \in Names, e \in Emails, p \in Passwords : StartRegister(t, n, e, p)
  \/ \E t \in Tasks : CheckUsername(t) \/ CheckEmail(t) \/ RefuseUser(t) \/ CreateUser(t)
  \/ \E t \in Tasks, n \in Names, p \in Passwords, u \in Users : StartLogin(t, n, p, u)
  \/ \E t \in Tasks, k \in Tokens : ExchangeToken(t, k) \/ StoreToken(t, k)
  \/ \E t \in Tasks : AnswerAuth(t)
  \/ \E t \in Tasks, u \in Users : StartLogout(t, u)
  \/ \E u \in Users, k \in ResetTokens : ForgotPassword(u, k)
  \/ \E t \in Tasks, k \in ResetTokens, p \in Passwords : ConsumeReset(t, k, p)
  \/ \E t \in Tasks : UpdatePassword(t) \/ RevokeSessions(t) \/ Abandon(t)
  \/ Tick

Spec == Init /\ [][Next]_vars

-------------------------------------------------------------------------------
(***************************************************************************)
(* Properties.                                                             *)
(***************************************************************************)

\* Every variable has its type.
TypeOK ==
  /\ now \in 0..MaxTime
  /\ accounts \in [Users -> Account]
  /\ sessions \in [Tokens -> Session]
  /\ resets \in [ResetTokens -> Reset]
  /\ pc \in [Tasks -> Steps]
  /\ req \in [Tasks -> Request]
  /\ held \subseteq Tokens
  /\ root \in [Tokens -> Tokens]
  /\ era \in [Users -> 0..MaxEra]
  /\ born \in [Tokens -> 0..MaxEra]
  /\ closed \in [Users -> 0..MaxEra]
  /\ changes \in [Users -> Nat]

\* However often and concurrently the tokens of one login are refreshed, retried
\* or abandoned, at most one token that descends from it can be used: the chain
\* never forks.
ChainsDoNotFork ==
  \A a, b \in Tokens :
    sessions[a].status = "active" /\ sessions[b].status = "active" /\ root[a] = root[b] => a = b

\* Once a logout or a password reset is confirmed, no refresh token that a client
\* was given before the logout arrived, or before the password changed, can be
\* used, although other logins, refreshes and resets of the account ran in
\* between.
ConfirmedEndsSessions ==
  \A k \in held : sessions[k].status = "active" => born[k] >= closed[sessions[k].user]

\* Two registrations that both passed the checks never leave two accounts with
\* one username or one e-mail address.
AccountsAreDistinct ==
  \A u, v \in Registered :
    accounts[u].username = accounts[v].username \/ accounts[u].email = accounts[v].email => u = v

\* The resets of an account that hold a consumed token, and the tokens consumed.
Resetting(u) == {t \in Tasks : pc[t] = "resetting" /\ req[t].user = u}
UsedResets(u) == {k \in ResetTokens : resets[k].user = u /\ resets[k].status = "used"}

\* However resets of one account interleave and fail, every change of its password,
\* done or under way, has used up a reset token of its own.
ChangesNeedTokens ==
  \A u \in Users : changes[u] + Cardinality(Resetting(u)) <= Cardinality(UsedResets(u))

-------------------------------------------------------------------------------
(***************************************************************************)
(* The inductive invariant behind the safety properties.                   *)
(***************************************************************************)

\* A token that is about to be answered, or that a client has, is in the table, and
\* the one about to be answered is of the account of its request.
TokensAreStored ==
  /\ \A k \in held : sessions[k].status # "undrawn"
  /\ \A t \in Tasks :
       pc[t] = "answering" => /\ req[t].token \in Tokens
                              /\ sessions[req[t].token].status # "undrawn"
                              /\ sessions[req[t].token].user = req[t].user

\* An undrawn token is a chain of its own.
ChainsStartDrawn ==
  \A k \in Tokens :
    /\ sessions[k].status = "undrawn" => root[k] = k
    /\ sessions[k].status # "undrawn" => sessions[root[k]].status # "undrawn"

\* While a refresh has revoked its token and not yet stored the next one, its chain
\* has no active token and no other refresh.
Exchanging(t) == pc[t] = "issuing" /\ req[t].parent # NoToken

ExchangesAreAlone ==
  \A t \in Tasks :
    Exchanging(t)
      => /\ sessions[req[t].parent].status # "undrawn"
         /\ \A k \in Tokens :
              sessions[k].status = "active" => root[k] # root[req[t].parent]
         /\ \A u \in Tasks \ {t} : Exchanging(u) => root[req[u].parent] # root[req[t].parent]

\* A registration exchanges no token.
RegistrationsAreFresh ==
  \A t \in Tasks :
    pc[t] \in {"registering", "checked_name", "checked_email"} => req[t].parent = NoToken

\* An era is confirmed only after it began.
ErasInOrder ==
  /\ \A u \in Users : closed[u] <= era[u]
  /\ \A t \in Tasks : pc[t] = "revoking" => req[t].era <= era[req[t].user]

SessionsIInv ==
  /\ TypeOK
  /\ TokensAreStored
  /\ ChainsStartDrawn
  /\ ExchangesAreAlone
  /\ RegistrationsAreFresh
  /\ ErasInOrder
  /\ ChainsDoNotFork
  /\ ConfirmedEndsSessions
===============================================================================
