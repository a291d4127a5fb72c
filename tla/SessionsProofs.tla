---------------------------- MODULE SessionsProofs ----------------------------
(***************************************************************************)
(* Proofs about Sessions, for any number of accounts, tokens and           *)
(* concurrent requests.                                                    *)
(***************************************************************************)
EXTENDS Sessions, FiniteSetTheorems, TLAPS

LEMMA PlaceholderTypes ==
  /\ AnyUser \in Users /\ NoAccount \in Account /\ NoRequest \in Request
  /\ NoRequest.parent = NoToken
<1>1. AnyUser \in Users /\ AnyName \in Names /\ AnyPassword \in Passwords
  BY SessionsAssumption DEF AnyUser, AnyName, AnyPassword
<1>2. QED
  BY <1>1 DEF NoAccount, Account, NoRequest, Request

\* An account that is not registered yet is there to be drawn.
LEMMA NewUserType ==
  ASSUME Registered # Users
  PROVE  NewUser \in Users /\ ~accounts[NewUser].registered
  BY DEF NewUser, Registered

\* A request that returns takes only its own locals along.
LEMMA FinishEffect ==
  ASSUME TypeOK, NEW t \in Tasks, Finish(t)
  PROVE  /\ pc' \in [Tasks -> Steps] /\ req' \in [Tasks -> Request]
         /\ pc'[t] = "idle"
         /\ \A u \in Tasks \ {t} : pc'[u] = pc[u] /\ req'[u] = req[u]
  BY PlaceholderTypes DEF TypeOK, Finish, Steps

\* A request that moves on to step s with locals r leaves the others alone.
LEMMA MoveEffect ==
  ASSUME TypeOK, NEW t \in Tasks, NEW s \in Steps, NEW r \in Request,
         pc' = [pc EXCEPT ![t] = s], req' = [req EXCEPT ![t] = r]
  PROVE  /\ pc' \in [Tasks -> Steps] /\ req' \in [Tasks -> Request]
         /\ pc'[t] = s /\ req'[t] = r
         /\ \A u \in Tasks \ {t} : pc'[u] = pc[u] /\ req'[u] = req[u]
  BY DEF TypeOK

\* The locals a request begins with.
LEMMA RequestTypes ==
  ASSUME NEW u \in Users
  PROVE  /\ [NoRequest EXCEPT !.user = u] \in Request
         /\ [NoRequest EXCEPT !.user = u].user = u
         /\ [NoRequest EXCEPT !.user = u].parent = NoToken
         /\ \A tok \in Tokens :
              /\ [NoRequest EXCEPT !.user = u, !.parent = tok] \in Request
              /\ [NoRequest EXCEPT !.user = u, !.parent = tok].parent = tok
         /\ \A e \in Nat :
              /\ [NoRequest EXCEPT !.user = u, !.era = e] \in Request
              /\ [NoRequest EXCEPT !.user = u, !.era = e].era = e
              /\ [NoRequest EXCEPT !.user = u, !.era = e].user = u
         /\ \A p \in Passwords :
              /\ [NoRequest EXCEPT !.user = u, !.password = p] \in Request
              /\ [NoRequest EXCEPT !.user = u, !.password = p].user = u
  BY PlaceholderTypes DEF Request

\* Revoking the sessions of an account ends the active ones and changes no owner.
LEMMA RevokeEffect ==
  ASSUME TypeOK, NEW u \in Users, RevokeAll(u)
  PROVE  /\ sessions' \in [Tokens -> Session]
         /\ \A k \in Tokens :
              /\ sessions'[k].user = sessions[k].user
              /\ sessions'[k].status = "undrawn" <=> sessions[k].status = "undrawn"
              /\ sessions'[k].status = "active"
                   => sessions[k].status = "active" /\ sessions[k].user # u
<1> SUFFICES ASSUME NEW k \in Tokens
             PROVE  /\ sessions'[k] \in Session
                    /\ sessions'[k].user = sessions[k].user
                    /\ sessions'[k].status = "undrawn" <=> sessions[k].status = "undrawn"
                    /\ sessions'[k].status = "active"
                         => sessions[k].status = "active" /\ sessions[k].user # u
  BY DEF RevokeAll
<1>1. sessions[k] \in Session
  BY DEF TypeOK
<1>2. CASE sessions[k].user = u /\ sessions[k].status = "active"
  <2>1. sessions'[k] = [sessions[k] EXCEPT !.status = "revoked"]
    BY <1>2 DEF RevokeAll
  <2>2. QED
    BY <1>1, <1>2, <2>1 DEF Session
<1>3. CASE ~(sessions[k].user = u /\ sessions[k].status = "active")
  BY <1>1, <1>3 DEF RevokeAll
<1>4. QED
  BY <1>2, <1>3

\* Using a refresh token up revokes it and no other.
LEMMA ExchangeEffect ==
  ASSUME TypeOK, NEW tok \in Tokens,
         sessions' = [sessions EXCEPT ![tok].status = "revoked"]
  PROVE  /\ sessions' \in [Tokens -> Session]
         /\ sessions'[tok].status = "revoked"
         /\ sessions'[tok].user = sessions[tok].user
         /\ \A k \in Tokens \ {tok} : sessions'[k] = sessions[k]
<1>1. sessions[tok] \in Session
  BY DEF TypeOK
<1>2. sessions' = [sessions EXCEPT ![tok] = [sessions[tok] EXCEPT !.status = "revoked"]]
  OBVIOUS
<1>3. QED
  BY <1>1, <1>2 DEF TypeOK, Session

\* Replacing a password changes nothing else of an account.
LEMMA PasswordEffect ==
  ASSUME TypeOK, NEW u \in Users, NEW p \in Passwords,
         accounts' = [accounts EXCEPT ![u].password = p]
  PROVE  /\ accounts' \in [Users -> Account]
         /\ \A v \in Users : /\ accounts'[v].registered = accounts[v].registered
                             /\ accounts'[v].username = accounts[v].username
                             /\ accounts'[v].email = accounts[v].email
<1>1. accounts[u] \in Account
  BY DEF TypeOK
<1>2. accounts' = [accounts EXCEPT ![u] = [accounts[u] EXCEPT !.password = p]]
  OBVIOUS
<1>3. QED
  BY <1>1, <1>2 DEF TypeOK, Account

\* Using a reset token up leaves its owner and the other tokens as they are.
LEMMA ResetEffect ==
  ASSUME TypeOK, NEW tok \in ResetTokens, resets' = [resets EXCEPT ![tok].status = "used"]
  PROVE  /\ resets' \in [ResetTokens -> Reset]
         /\ resets'[tok].status = "used" /\ resets'[tok].user = resets[tok].user
         /\ \A k \in ResetTokens \ {tok} : resets'[k] = resets[k]
<1> DEFINE new == [resets[tok] EXCEPT !.status = "used"]
<1>1. new \in Reset /\ new.status = "used" /\ new.user = resets[tok].user
  BY DEF TypeOK, Reset
<1>2. resets' = [resets EXCEPT ![tok] = new]
  OBVIOUS
<1> HIDE DEF new
<1>3. QED
  BY <1>1, <1>2 DEF TypeOK

-------------------------------------------------------------------------------
(***************************************************************************)
(* The inductive invariant.                                                *)
(***************************************************************************)

LEMMA InitIInv == Init => SessionsIInv
<1> SUFFICES ASSUME Init
             PROVE  SessionsIInv
  OBVIOUS
<1>1. TypeOK
  BY PlaceholderTypes, SessionsAssumption DEF Init, TypeOK, Session, Reset, Steps
<1>2. QED
  BY <1>1, PlaceholderTypes DEF Init, SessionsIInv, TokensAreStored, ChainsStartDrawn, Exchanging,
              ExchangesAreAlone, RegistrationsAreFresh, ErasInOrder, ChainsDoNotFork,
              ConfirmedEndsSessions

LEMMA StepTypeOK ==
  ASSUME SessionsIInv, [Next]_vars
  PROVE  TypeOK'
<1>0. TypeOK
  BY DEF SessionsIInv
<1> USE DEF table, ghost
<1>1. ASSUME NEW t \in Tasks, NEW n \in Names, NEW e \in Emails, NEW p \in Passwords,
             StartRegister(t, n, e, p)
      PROVE  TypeOK'
  <2>1. [NoRequest EXCEPT !.username = n, !.email = e, !.password = p] \in Request
    BY PlaceholderTypes, SessionsAssumption DEF Request
  <2>2. QED
    BY <1>0, <1>1, <2>1 DEF TypeOK, StartRegister, Steps
<1>2. ASSUME NEW t \in Tasks, CheckUsername(t)
      PROVE  TypeOK'
  BY <1>0, <1>2, FinishEffect DEF TypeOK, CheckUsername, Steps
<1>3. ASSUME NEW t \in Tasks, CheckEmail(t)
      PROVE  TypeOK'
  BY <1>0, <1>3, FinishEffect DEF TypeOK, CheckEmail, Steps
<1>4. ASSUME NEW t \in Tasks, RefuseUser(t) \/ Abandon(t)
      PROVE  TypeOK'
  BY <1>0, <1>4, FinishEffect DEF TypeOK, RefuseUser, Abandon
<1>5. ASSUME NEW t \in Tasks, CreateUser(t)
      PROVE  TypeOK'
  <2>1. NewUser \in Users /\ req[t] \in Request
    BY <1>0, <1>5, NewUserType DEF CreateUser, TypeOK
  <2>2. /\ [registered |-> TRUE, username |-> req[t].username, email |-> req[t].email,
            password |-> req[t].password] \in Account
        /\ [req[t] EXCEPT !.user = NewUser] \in Request
    BY <2>1 DEF Account, Request
  <2>3. QED
    BY <1>0, <1>5, <2>1, <2>2 DEF TypeOK, CreateUser, Steps
<1>6. ASSUME NEW t \in Tasks, NEW n \in Names, NEW p \in Passwords, NEW u \in Users,
             StartLogin(t, n, p, u)
      PROVE  TypeOK'
  BY <1>0, <1>6, RequestTypes DEF TypeOK, StartLogin, Steps
<1>7. ASSUME NEW t \in Tasks, NEW tok \in Tokens, ExchangeToken(t, tok)
      PROVE  TypeOK'
  <2>1. sessions[tok].user \in Users
    BY <1>0 DEF TypeOK, Session
  <2>2. sessions' \in [Tokens -> Session]
    BY <1>0, <1>7, ExchangeEffect DEF ExchangeToken
  <2>3. [NoRequest EXCEPT !.user = sessions[tok].user, !.parent = tok] \in Request
    BY <2>1, RequestTypes
  <2>4. QED
    BY <1>0, <1>7, <2>2, <2>3 DEF TypeOK, ExchangeToken, Steps
<1>8. ASSUME NEW t \in Tasks, NEW tok \in Tokens, StoreToken(t, tok)
      PROVE  TypeOK'
  <2>1. /\ req[t] \in Request /\ req[t].user \in Users /\ now + SessionLife \in Nat
        /\ req[t].parent = NoToken \/ req[t].parent \in Tokens
    BY <1>0, SessionsAssumption DEF TypeOK, Request
  <2>2. /\ [status |-> "active", user |-> req[t].user, expires_at |-> now + SessionLife]
             \in Session
        /\ [req[t] EXCEPT !.token = tok] \in Request
    BY <2>1 DEF Session, Request
  <2>3. (IF req[t].parent = NoToken THEN tok ELSE root[req[t].parent]) \in Tokens
    BY <1>0, <2>1 DEF TypeOK
  <2>4. QED
    BY <1>0, <1>8, <2>2, <2>3 DEF TypeOK, StoreToken, Steps
<1>9. ASSUME NEW t \in Tasks, AnswerAuth(t)
      PROVE  TypeOK'
  <2>1. req[t].token \in Tokens /\ era[req[t].user] \in 0..MaxEra
    BY <1>9 DEF SessionsIInv, TokensAreStored, AnswerAuth, TypeOK, Request
  <2>2. QED
    BY <1>0, <1>9, <2>1, FinishEffect DEF TypeOK, AnswerAuth
<1>10. ASSUME NEW t \in Tasks, NEW u \in Users, StartLogout(t, u)
       PROVE  TypeOK'
  <2>1. era[u] + 1 \in 0..MaxEra /\ era[u] + 1 \in Nat
    BY <1>0, <1>10, SessionsAssumption DEF TypeOK, StartLogout
  <2>2. QED
    BY <1>0, <1>10, <2>1, RequestTypes DEF TypeOK, StartLogout, Steps
<1>11. ASSUME NEW u \in Users, NEW k \in ResetTokens, ForgotPassword(u, k)
       PROVE  TypeOK'
  <2>1. [status |-> "unused", user |-> u, expires_at |-> now + ResetLife] \in Reset
    BY <1>0, SessionsAssumption DEF TypeOK, Reset
  <2>2. QED
    BY <1>0, <1>11, <2>1 DEF TypeOK, ForgotPassword
<1>12. ASSUME NEW t \in Tasks, NEW k \in ResetTokens, NEW p \in Passwords, ConsumeReset(t, k, p)
       PROVE  TypeOK'
  <2>1. resets' \in [ResetTokens -> Reset] /\ resets[k].user \in Users
    BY <1>0, <1>12, ResetEffect DEF ConsumeReset, TypeOK, Reset
  <2>2. [NoRequest EXCEPT !.user = resets[k].user, !.password = p] \in Request
    BY <2>1, RequestTypes
  <2>3. QED
    BY <1>0, <1>12, <2>1, <2>2 DEF TypeOK, ConsumeReset, Steps
<1>13. ASSUME NEW t \in Tasks, UpdatePassword(t)
       PROVE  TypeOK'
  <2>1. PICK u \in Users : u = req[t].user
    BY <1>0 DEF TypeOK, Request
  <2>2. /\ req[t] \in Request /\ req[t].password \in Passwords
        /\ era[u] + 1 \in 0..MaxEra /\ era[u] + 1 \in Nat
    BY <1>0, <1>13, <2>1, SessionsAssumption DEF TypeOK, Request, UpdatePassword
  <2>3. accounts' \in [Users -> Account]
    BY <1>0, <1>13, <2>1, <2>2, PasswordEffect DEF UpdatePassword
  <2>4. [req[t] EXCEPT !.era = era[u] + 1] \in Request
    BY <2>2 DEF Request
  <2>5. changes[u] + 1 \in Nat
    BY <1>0 DEF TypeOK
  <2>6. QED
    BY <1>0, <1>13, <2>1, <2>2, <2>3, <2>4, <2>5 DEF TypeOK, UpdatePassword, Steps
<1>14. ASSUME NEW t \in Tasks, RevokeSessions(t)
       PROVE  TypeOK'
  <2>1. PICK u \in Users : u = req[t].user
    BY <1>0 DEF TypeOK, Request
  <2>2. req[t].era \in 0..MaxEra
    BY <1>14, <2>1, SessionsAssumption
       DEF SessionsIInv, ErasInOrder, RevokeSessions, TypeOK, Request
  <2>3. sessions' \in [Tokens -> Session]
    BY <1>0, <1>14, <2>1, RevokeEffect DEF RevokeSessions
  <2>4. QED
    BY <1>0, <1>14, <2>1, <2>2, <2>3, FinishEffect DEF TypeOK, RevokeSessions
<1>15. CASE Tick
  BY <1>0, <1>15, SessionsAssumption DEF TypeOK, Tick
<1>16. CASE UNCHANGED vars
  BY <1>0, <1>16 DEF TypeOK, vars
<1>17. QED
  BY <1>1, <1>2, <1>3, <1>4, <1>5, <1>6, <1>7, <1>8, <1>9, <1>10, <1>11, <1>12, <1>13, <1>14,
     <1>15, <1>16 DEF Next

\* The part of the invariant that is about sessions.
SessionsHold ==
  /\ TokensAreStored /\ ChainsStartDrawn /\ ExchangesAreAlone /\ RegistrationsAreFresh
  /\ ErasInOrder /\ ChainsDoNotFork /\ ConfirmedEndsSessions

\* A step that touches no session keeps all of it.
LEMMA UntouchedSessions ==
  ASSUME SessionsIInv, UNCHANGED <<sessions, held, root, era, born, closed, pc, req>>
  PROVE  SessionsHold'
  BY DEF SessionsIInv, SessionsHold, TokensAreStored, ChainsStartDrawn, Exchanging,
         ExchangesAreAlone, RegistrationsAreFresh, ErasInOrder, ChainsDoNotFork,
         ConfirmedEndsSessions

\* So does a request that gets to a step where it holds no token and revokes none.
LEMMA OtherRequests ==
  ASSUME SessionsIInv, UNCHANGED <<sessions, held, root, era, born, closed>>, NEW t \in Tasks,
         pc'[t] \notin {"answering", "revoking"},
         pc'[t] \in {"idle", "resetting"} \/ req'[t].parent = NoToken,
         \A u \in Tasks \ {t} : pc'[u] = pc[u] /\ req'[u] = req[u]
  PROVE  SessionsHold'
<1>1. TokensAreStored' /\ RegistrationsAreFresh'
  BY DEF SessionsIInv, TokensAreStored, RegistrationsAreFresh
<1>2. ExchangesAreAlone'
  <2>1. ~Exchanging(t)'
    BY DEF Exchanging
  <2>2. \A u \in Tasks \ {t} : Exchanging(u)' => Exchanging(u) /\ req'[u] = req[u]
    BY DEF Exchanging
  <2>3. QED
    BY <2>1, <2>2 DEF SessionsIInv, ExchangesAreAlone
<1>3. ErasInOrder'
  BY DEF SessionsIInv, ErasInOrder
<1>4. ChainsStartDrawn' /\ ChainsDoNotFork' /\ ConfirmedEndsSessions'
  BY DEF SessionsIInv, ChainsStartDrawn, ChainsDoNotFork, ConfirmedEndsSessions
<1>5. QED
  BY <1>1, <1>2, <1>3, <1>4 DEF SessionsHold

\* A refresh revokes the one active token of its chain, and has the chain for itself.
LEMMA ExchangeHolds ==
  ASSUME SessionsIInv, NEW t \in Tasks, NEW tok \in Tokens, ExchangeToken(t, tok)
  PROVE  SessionsHold'
<1>0. TypeOK /\ UNCHANGED <<held, root, era, born, closed>>
  BY DEF SessionsIInv, ExchangeToken, ghost
<1>1. sessions[tok].user \in Users /\ sessions[tok].status = "active"
  BY <1>0 DEF TypeOK, Session, ExchangeToken, Active
<1>2. /\ sessions'[tok].status = "revoked" /\ sessions'[tok].user = sessions[tok].user
      /\ \A k \in Tokens \ {tok} : sessions'[k] = sessions[k]
  BY <1>0, ExchangeEffect DEF ExchangeToken
<1>3. /\ pc'[t] = "issuing" /\ req'[t].parent = tok
      /\ \A u \in Tasks \ {t} : pc'[u] = pc[u] /\ req'[u] = req[u]
  <2>1. PICK r \in Request :
          /\ r = [NoRequest EXCEPT !.user = sessions[tok].user, !.parent = tok]
          /\ r.parent = tok
    BY ZenonT(60), <1>1, RequestTypes
  <2>2. pc' = [pc EXCEPT ![t] = "issuing"] /\ req' = [req EXCEPT ![t] = r]
    BY <2>1 DEF ExchangeToken
  <2>3. QED
    BY <1>0, <2>1, <2>2 DEF TypeOK
<1>4. TokensAreStored' /\ RegistrationsAreFresh' /\ ErasInOrder'
  BY SMTT(30), <1>0, <1>1, <1>2, <1>3
     DEF SessionsIInv, TokensAreStored, RegistrationsAreFresh, ErasInOrder, TypeOK
<1>5. ChainsStartDrawn'
  BY <1>0, <1>1, <1>2 DEF SessionsIInv, ChainsStartDrawn, TypeOK
<1>6. ChainsDoNotFork' /\ ConfirmedEndsSessions'
  BY <1>0, <1>2 DEF SessionsIInv, ChainsDoNotFork, ConfirmedEndsSessions, TypeOK
<1>7. ExchangesAreAlone'
  <2>1. \A u \in Tasks \ {t} : Exchanging(u)' => Exchanging(u) /\ req'[u] = req[u]
    BY <1>3 DEF Exchanging
  <2>2. ASSUME NEW k \in Tokens, sessions'[k].status = "active"
        PROVE  sessions[k].status = "active" /\ root[k] # root[tok]
    BY <1>1, <1>2, <2>2 DEF SessionsIInv, ChainsDoNotFork
  <2>3. \A u \in Tasks \ {t} : Exchanging(u) => root[req[u].parent] # root[tok]
    BY <1>1 DEF SessionsIInv, ExchangesAreAlone
  <2>4. \A u \in Tasks \ {t} : Exchanging(u) => sessions'[req[u].parent].status # "undrawn"
    BY <1>0, <1>2 DEF SessionsIInv, ExchangesAreAlone, Exchanging, TypeOK, Request
  <2>5. QED
    BY <1>0, <1>2, <1>3, <2>1, <2>2, <2>3, <2>4 DEF SessionsIInv, ExchangesAreAlone
<1>8. QED
  BY <1>4, <1>5, <1>6, <1>7 DEF SessionsHold

\* A new token is alone in its chain: it starts one, or inherits one its request has
\* for itself.
LEMMA StoreHolds ==
  ASSUME SessionsIInv, NEW t \in Tasks, NEW tok \in Tokens, StoreToken(t, tok)
  PROVE  SessionsHold'
<1> DEFINE heir == IF req[t].parent = NoToken THEN tok ELSE root[req[t].parent]
<1>0. /\ TypeOK /\ UNCHANGED <<held, era, born, closed>>
      /\ pc[t] = "issuing" /\ sessions[tok].status = "undrawn"
      /\ root' = [root EXCEPT ![tok] = heir]
  BY DEF SessionsIInv, StoreToken
<1>1. /\ req[t] \in Request /\ req[t].user \in Users
      /\ req[t].parent = NoToken \/ req[t].parent \in Tokens
  BY <1>0 DEF TypeOK, Request
<1>2. /\ sessions'[tok].status = "active" /\ sessions'[tok].user = req[t].user
      /\ \A k \in Tokens \ {tok} : sessions'[k] = sessions[k]
  BY <1>0 DEF TypeOK, StoreToken
<1>3. /\ pc'[t] = "answering" /\ req'[t].token = tok /\ req'[t].user = req[t].user
      /\ \A u \in Tasks \ {t} : pc'[u] = pc[u] /\ req'[u] = req[u]
  BY <1>0, <1>1 DEF TypeOK, StoreToken, Request
<1>4. /\ root'[tok] = heir /\ heir \in Tokens
      /\ \A k \in Tokens \ {tok} : root'[k] = root[k]
  BY <1>0, <1>1 DEF TypeOK
<1>5. TokensAreStored' /\ RegistrationsAreFresh' /\ ErasInOrder'
  BY <1>0, <1>2, <1>3
     DEF SessionsIInv, TokensAreStored, RegistrationsAreFresh, ErasInOrder, TypeOK
\* Nobody descends from a token before it is drawn.
<1>6. \A k \in Tokens \ {tok} : root[k] # tok
  BY <1>0 DEF SessionsIInv, ChainsStartDrawn, TypeOK
<1>7. heir = tok \/ sessions[heir].status # "undrawn"
  BY <1>0, <1>1
     DEF SessionsIInv, ExchangesAreAlone, Exchanging, ChainsStartDrawn
<1>8. ChainsStartDrawn'
  BY <1>0, <1>2, <1>4, <1>6, <1>7 DEF SessionsIInv, ChainsStartDrawn, TypeOK
<1>9. \A k \in Tokens \ {tok} : sessions[k].status = "active" => root[k] # heir
  BY <1>0, <1>1, <1>6 DEF SessionsIInv, ExchangesAreAlone, Exchanging
<1>10. ChainsDoNotFork' /\ ConfirmedEndsSessions'
  <2>1. ChainsDoNotFork'
    BY <1>2, <1>4, <1>9 DEF SessionsIInv, ChainsDoNotFork
  <2>2. tok \notin held
    BY <1>0 DEF SessionsIInv, TokensAreStored
  <2>3. QED
    BY <1>0, <1>2, <2>1, <2>2 DEF SessionsIInv, ConfirmedEndsSessions, TypeOK
<1>11. ExchangesAreAlone'
  <2>1. ~Exchanging(t)'
    BY <1>3 DEF Exchanging
  <2>2. ASSUME NEW u \in Tasks \ {t}, Exchanging(u)'
        PROVE  /\ Exchanging(u) /\ req'[u] = req[u]
               /\ req[u].parent \in Tokens \ {tok}
               /\ root'[req[u].parent] = root[req[u].parent]
               /\ root[req[u].parent] # heir
    <3>1. /\ Exchanging(u) /\ req'[u] = req[u] /\ req[u].parent \in Tokens
          /\ sessions[req[u].parent].status # "undrawn"
      BY <1>0, <1>3, <2>2 DEF Exchanging, SessionsIInv, ExchangesAreAlone, TypeOK, Request
    <3>2. root[req[u].parent] # heir
      BY <1>0, <1>1, <1>6, <3>1 DEF SessionsIInv, ExchangesAreAlone, Exchanging
    <3>3. QED
      BY <1>0, <1>4, <3>1, <3>2
  <2>3. QED
    BY <1>0, <1>2, <1>4, <2>1, <2>2 DEF SessionsIInv, ExchangesAreAlone
<1>12. QED
  BY <1>5, <1>8, <1>10, <1>11 DEF SessionsHold

\* A token a client is given was born in the present era of its account.
LEMMA AnswerHolds ==
  ASSUME SessionsIInv, NEW t \in Tasks, AnswerAuth(t)
  PROVE  SessionsHold'
<1>0. /\ TypeOK /\ UNCHANGED <<sessions, root, era, closed>>
      /\ pc[t] = "answering"
      /\ Finish(t)
  BY DEF SessionsIInv, AnswerAuth, table
<1>1. PICK k \in Tokens : k = req[t].token
  BY <1>0 DEF SessionsIInv, TokensAreStored
<1>2. /\ sessions[k].status # "undrawn" /\ sessions[k].user = req[t].user
      /\ sessions[k].user \in Users
  BY <1>0, <1>1 DEF SessionsIInv, TokensAreStored, TypeOK, Session
<1>3. held' = held \cup {k} /\ born' = [born EXCEPT ![k] = era[sessions[k].user]]
  BY <1>1, <1>2 DEF AnswerAuth
<1>4. /\ pc'[t] = "idle"
      /\ \A u \in Tasks \ {t} : pc'[u] = pc[u] /\ req'[u] = req[u]
  BY <1>0, FinishEffect
<1>5. TokensAreStored' /\ RegistrationsAreFresh' /\ ErasInOrder'
  BY <1>0, <1>2, <1>3, <1>4
     DEF SessionsIInv, TokensAreStored, RegistrationsAreFresh, ErasInOrder
<1>6. ExchangesAreAlone'
  <2>1. \A u \in Tasks : Exchanging(u)' => u # t /\ Exchanging(u) /\ req'[u] = req[u]
    BY <1>4 DEF Exchanging
  <2>2. QED
    BY <1>0, <2>1 DEF SessionsIInv, ExchangesAreAlone
<1>7. ChainsStartDrawn' /\ ChainsDoNotFork'
  BY <1>0 DEF SessionsIInv, ChainsStartDrawn, ChainsDoNotFork
<1>8. ConfirmedEndsSessions'
  <2>1. era[sessions[k].user] >= closed[sessions[k].user]
    BY <1>0, <1>2, SessionsAssumption DEF SessionsIInv, ErasInOrder, TypeOK
  <2>2. QED
    BY <1>0, <1>3, <2>1 DEF SessionsIInv, ConfirmedEndsSessions, TypeOK
<1>9. QED
  BY <1>5, <1>6, <1>7, <1>8 DEF SessionsHold

\* A logout that arrives, or a password that is replaced, begins an era.
LEMMA BeginHolds ==
  ASSUME SessionsIInv, NEW t \in Tasks, NEW u \in Users,
         UNCHANGED <<sessions, held, root, born, closed>>,
         era' = [era EXCEPT ![u] = era[u] + 1],
         pc'[t] = "revoking", req'[t].user = u, req'[t].era = era[u] + 1,
         \A v \in Tasks \ {t} : pc'[v] = pc[v] /\ req'[v] = req[v]
  PROVE  SessionsHold'
<1>0. TypeOK /\ era[u] \in Nat
  BY SessionsAssumption DEF SessionsIInv, TypeOK
<1>1. TokensAreStored' /\ RegistrationsAreFresh'
  BY DEF SessionsIInv, TokensAreStored, RegistrationsAreFresh
<1>2. ErasInOrder'
  <2>1. era'[u] = era[u] + 1 /\ \A v \in Users \ {u} : era'[v] = era[v]
    BY <1>0 DEF TypeOK
  <2>2. \A v \in Users : closed[v] \in Nat /\ era[v] \in Nat
    BY <1>0, SessionsAssumption DEF TypeOK
  <2>3. \A v \in Tasks : req[v].user \in Users /\ req[v].era \in Nat
    BY <1>0 DEF TypeOK, Request
  <2>4. QED
    BY <1>0, <2>1, <2>2, <2>3 DEF SessionsIInv, ErasInOrder
<1>3. ExchangesAreAlone'
  <2>1. \A v \in Tasks : Exchanging(v)' => v # t /\ Exchanging(v) /\ req'[v] = req[v]
    BY DEF Exchanging
  <2>2. QED
    BY <2>1 DEF SessionsIInv, ExchangesAreAlone
<1>4. ChainsStartDrawn' /\ ChainsDoNotFork' /\ ConfirmedEndsSessions'
  BY DEF SessionsIInv, ChainsStartDrawn, ChainsDoNotFork, ConfirmedEndsSessions
<1>5. QED
  BY <1>1, <1>2, <1>3, <1>4 DEF SessionsHold

\* A confirmed logout or reset leaves no session of the account.
LEMMA RevokeHolds ==
  ASSUME SessionsIInv, NEW t \in Tasks, RevokeSessions(t)
  PROVE  SessionsHold'
<1>0. /\ TypeOK /\ UNCHANGED <<held, root, era, born>>
      /\ pc[t] = "revoking" /\ Finish(t)
  BY DEF SessionsIInv, RevokeSessions
<1>1. PICK u \in Users : u = req[t].user
  BY <1>0 DEF TypeOK, Request
<1>2. \A k \in Tokens :
        /\ sessions'[k].user = sessions[k].user
        /\ sessions'[k].status = "undrawn" <=> sessions[k].status = "undrawn"
        /\ sessions'[k].status = "active" => sessions[k].status = "active" /\ sessions[k].user # u
  BY <1>0, <1>1, RevokeEffect DEF RevokeSessions
<1>3. /\ pc'[t] = "idle"
      /\ \A v \in Tasks \ {t} : pc'[v] = pc[v] /\ req'[v] = req[v]
  BY <1>0, FinishEffect
<1>4. /\ closed'[u] = IF closed[u] < req[t].era THEN req[t].era ELSE closed[u]
      /\ \A v \in Users \ {u} : closed'[v] = closed[v]
  BY <1>0, <1>1 DEF TypeOK, RevokeSessions
<1>5. TokensAreStored' /\ RegistrationsAreFresh'
  BY SMTT(30), <1>0, <1>2, <1>3 DEF SessionsIInv, TokensAreStored, RegistrationsAreFresh, TypeOK
<1>6. ErasInOrder'
  <2>1. closed'[u] <= era[u]
    BY <1>0, <1>1, <1>4 DEF SessionsIInv, ErasInOrder
  <2>2. QED
    BY <1>0, <1>3, <1>4, <2>1 DEF SessionsIInv, ErasInOrder
<1>7. ChainsStartDrawn' /\ ChainsDoNotFork'
  BY <1>0, <1>2 DEF SessionsIInv, ChainsStartDrawn, ChainsDoNotFork, TypeOK
<1>8. ExchangesAreAlone'
  <2>1. \A v \in Tasks : Exchanging(v)' => v # t /\ Exchanging(v) /\ req'[v] = req[v]
    BY <1>3 DEF Exchanging
  <2>2. \A v \in Tasks : Exchanging(v) => req[v].parent \in Tokens
    BY <1>0 DEF Exchanging, TypeOK, Request
  <2>3. QED
    BY <1>0, <1>2, <2>1, <2>2 DEF SessionsIInv, ExchangesAreAlone
<1>9. ConfirmedEndsSessions'
  <2> SUFFICES ASSUME NEW k \in held, sessions'[k].status = "active"
               PROVE  born[k] >= closed'[sessions'[k].user]
    BY <1>0 DEF ConfirmedEndsSessions
  <2>1. k \in Tokens /\ sessions[k].user \in Users
    BY <1>0 DEF TypeOK, Session
  <2>2. QED
    BY <1>2, <1>4, <2>1 DEF SessionsIInv, ConfirmedEndsSessions
<1>10. QED
  BY <1>5, <1>6, <1>7, <1>8, <1>9 DEF SessionsHold

LEMMA StepIInv == SessionsIInv /\ [Next]_vars => SessionsIInv'
<1> SUFFICES ASSUME SessionsIInv, [Next]_vars
             PROVE  SessionsHold'
  BY StepTypeOK DEF SessionsIInv, SessionsHold
<1>0. TypeOK
  BY DEF SessionsIInv
<1> USE DEF table, ghost
<1>1. ASSUME NEW t \in Tasks, NEW n \in Names, NEW e \in Emails, NEW p \in Passwords,
             StartRegister(t, n, e, p)
      PROVE  SessionsHold'
  <2>1. [NoRequest EXCEPT !.username = n, !.email = e, !.password = p].parent = NoToken
    BY PlaceholderTypes DEF Request
  <2>2. /\ pc'[t] = "registering" /\ req'[t].parent = NoToken
        /\ \A u \in Tasks \ {t} : pc'[u] = pc[u] /\ req'[u] = req[u]
    BY <1>0, <1>1, <2>1 DEF StartRegister, TypeOK
  <2>3. QED
    BY <1>1, <2>2, OtherRequests DEF StartRegister
<1>2. ASSUME NEW t \in Tasks, CheckUsername(t) \/ CheckEmail(t)
      PROVE  SessionsHold'
  <2>1. req[t].parent = NoToken
    BY <1>2 DEF SessionsIInv, RegistrationsAreFresh, CheckUsername, CheckEmail
  <2>2. CASE Finish(t)
    BY <1>0, <1>2, <2>2, FinishEffect, OtherRequests DEF CheckUsername, CheckEmail
  <2>3. CASE /\ \E s \in {"checked_name", "checked_email"} : pc' = [pc EXCEPT ![t] = s]
             /\ UNCHANGED req
    BY <1>0, <1>2, <2>1, <2>3, OtherRequests DEF CheckUsername, CheckEmail, TypeOK
  <2>4. QED
    BY <1>2, <2>2, <2>3 DEF CheckUsername, CheckEmail
<1>3. ASSUME NEW t \in Tasks, RefuseUser(t) \/ Abandon(t)
      PROVE  SessionsHold'
  BY <1>0, <1>3, FinishEffect, OtherRequests DEF RefuseUser, Abandon
<1>4. ASSUME NEW t \in Tasks, CreateUser(t)
      PROVE  SessionsHold'
  <2>1. req[t].parent = NoToken /\ req[t] \in Request
    BY <1>0, <1>4 DEF SessionsIInv, RegistrationsAreFresh, CreateUser, TypeOK
  <2>2. /\ pc'[t] = "issuing" /\ req'[t].parent = NoToken
        /\ \A u \in Tasks \ {t} : pc'[u] = pc[u] /\ req'[u] = req[u]
    BY <1>0, <1>4, <2>1 DEF CreateUser, TypeOK, Request
  <2>3. QED
    BY <1>4, <2>2, OtherRequests DEF CreateUser
<1>5. ASSUME NEW t \in Tasks, NEW n \in Names, NEW p \in Passwords, NEW u \in Users,
             StartLogin(t, n, p, u)
      PROVE  SessionsHold'
  <2>1. PICK r \in Request : r = [NoRequest EXCEPT !.user = u] /\ r.parent = NoToken
    BY RequestTypes
  <2>2. pc' = [pc EXCEPT ![t] = "issuing"] /\ req' = [req EXCEPT ![t] = r]
    BY <1>5, <2>1 DEF StartLogin
  <2>3. /\ pc'[t] = "issuing" /\ req'[t] = r
        /\ \A v \in Tasks \ {t} : pc'[v] = pc[v] /\ req'[v] = req[v]
    BY <1>0, <2>2 DEF TypeOK
  <2>4. QED
    BY <1>5, <2>1, <2>3, OtherRequests DEF StartLogin
<1>6. ASSUME NEW t \in Tasks, NEW u \in Users, StartLogout(t, u)
      PROVE  SessionsHold'
  <2>0. PICK e \in Nat : e = era[u] + 1
    BY <1>0, SessionsAssumption DEF TypeOK
  <2>1. PICK r \in Request : /\ r = [NoRequest EXCEPT !.user = u, !.era = e]
                             /\ r.user = u /\ r.era = e
    BY ZenonT(60), RequestTypes
  <2>2. pc' = [pc EXCEPT ![t] = "revoking"] /\ req' = [req EXCEPT ![t] = r]
    BY <1>6, <2>0, <2>1 DEF StartLogout
  <2>3. /\ pc'[t] = "revoking" /\ req'[t] = r
        /\ \A v \in Tasks \ {t} : pc'[v] = pc[v] /\ req'[v] = req[v]
    BY <1>0, <2>2 DEF TypeOK
  <2>4. QED
    BY <1>6, <2>0, <2>1, <2>3, BeginHolds DEF StartLogout
<1>7. ASSUME NEW t \in Tasks, UpdatePassword(t)
      PROVE  SessionsHold'
  <2>1. PICK u \in Users : u = req[t].user
    BY <1>0 DEF TypeOK, Request
  <2>2. req[t] \in Request /\ era[u] + 1 \in Nat
    BY <1>0, SessionsAssumption DEF TypeOK
  <2>3. PICK r \in Request : /\ r = [req[t] EXCEPT !.era = era[u] + 1]
                             /\ r.user = u /\ r.era = era[u] + 1
    <3> DEFINE s == [req[t] EXCEPT !.era = era[u] + 1]
    <3>1. s \in Request /\ s.user = u /\ s.era = era[u] + 1
      BY <2>1, <2>2 DEF Request
    <3>2. QED
      BY <3>1
  <2>4. pc' = [pc EXCEPT ![t] = "revoking"] /\ req' = [req EXCEPT ![t] = r]
    BY <1>7, <2>1, <2>3 DEF UpdatePassword
  <2>5. /\ pc'[t] = "revoking" /\ req'[t] = r
        /\ \A v \in Tasks \ {t} : pc'[v] = pc[v] /\ req'[v] = req[v]
    BY <1>0, <2>4 DEF TypeOK
  <2>6. QED
    BY <1>7, <2>1, <2>3, <2>5, BeginHolds DEF UpdatePassword
<1>8. ASSUME NEW t \in Tasks, NEW k \in ResetTokens, NEW p \in Passwords, ConsumeReset(t, k, p)
      PROVE  SessionsHold'
  <2>1. /\ pc'[t] = "resetting"
        /\ \A v \in Tasks \ {t} : pc'[v] = pc[v] /\ req'[v] = req[v]
    BY <1>0, <1>8 DEF ConsumeReset, TypeOK
  <2>2. QED
    BY <1>8, <2>1, OtherRequests DEF ConsumeReset
<1>9. CASE Tick \/ UNCHANGED vars \/ \E u \in Users, k \in ResetTokens : ForgotPassword(u, k)
  BY <1>9, UntouchedSessions DEF Tick, vars, ForgotPassword
<1>10. QED
  BY <1>1, <1>2, <1>3, <1>4, <1>5, <1>6, <1>7, <1>8, <1>9, ExchangeHolds, StoreHolds, AnswerHolds,
     RevokeHolds DEF Next

LEMMA Inductive == Spec => []SessionsIInv
  BY InitIInv, StepIInv, PTL DEF Spec

\* Type correctness of accounts, sessions and requests.
THEOREM TypeCorrect == Spec => []TypeOK
<1>1. SessionsIInv => TypeOK
  BY DEF SessionsIInv
<1>2. QED
  BY <1>1, Inductive, PTL

\* At most one usable token descends from a login, however its tokens are refreshed,
\* retried or abandoned.
THEOREM OneTokenPerLogin == Spec => []ChainsDoNotFork
<1>1. SessionsIInv => ChainsDoNotFork
  BY DEF SessionsIInv
<1>2. QED
  BY <1>1, Inductive, PTL

\* No token a client had before a confirmed logout or reset began can be used.
THEOREM ConfirmationIsFinal == Spec => []ConfirmedEndsSessions
<1>1. SessionsIInv => ConfirmedEndsSessions
  BY DEF SessionsIInv
<1>2. QED
  BY <1>1, Inductive, PTL

-------------------------------------------------------------------------------
(***************************************************************************)
(* Accounts.                                                               *)
(***************************************************************************)

\* Only an insert that violates no unique column adds an account, and names are never
\* changed.
LEMMA StepDistinct == SessionsIInv /\ AccountsAreDistinct /\ [Next]_vars => AccountsAreDistinct'
<1> SUFFICES ASSUME SessionsIInv, AccountsAreDistinct, [Next]_vars
             PROVE  AccountsAreDistinct'
  OBVIOUS
<1>0. TypeOK
  BY DEF SessionsIInv
<1>1. ASSUME NEW t \in Tasks, CreateUser(t)
      PROVE  AccountsAreDistinct'
  <2>1. PICK n \in Users : n = NewUser /\ ~accounts[n].registered
    BY <1>1, NewUserType DEF CreateUser
  <2>2. /\ accounts'[n].username = req[t].username /\ accounts'[n].email = req[t].email
        /\ \A v \in Users \ {n} : accounts'[v] = accounts[v]
    BY <1>0, <1>1, <2>1 DEF CreateUser, TypeOK
  <2>3. ASSUME NEW v \in Registered' \ {n}
        PROVE  /\ v \in Registered /\ accounts'[v] = accounts[v]
               /\ accounts[v].username # req[t].username /\ accounts[v].email # req[t].email
    BY <1>1, <2>2 DEF CreateUser, Conflicts, Registered
  <2>4. QED
    BY <2>2, <2>3 DEF AccountsAreDistinct, Registered
<1>2. ASSUME NEW t \in Tasks, UpdatePassword(t)
      PROVE  AccountsAreDistinct'
  <2>1. req[t].user \in Users /\ req[t].password \in Passwords
    BY <1>0 DEF TypeOK, Request
  <2>2. \A v \in Users : /\ accounts'[v].registered = accounts[v].registered
                         /\ accounts'[v].username = accounts[v].username
                         /\ accounts'[v].email = accounts[v].email
    BY <1>0, <1>2, <2>1, PasswordEffect DEF UpdatePassword
  <2>3. QED
    BY <2>2 DEF AccountsAreDistinct, Registered
<1>3. CASE UNCHANGED accounts
  BY <1>3 DEF AccountsAreDistinct, Registered
<1>4. QED
  BY <1>1, <1>2, <1>3
     DEF Next, vars, table, ghost, StartRegister, CheckUsername, CheckEmail, RefuseUser,
         StartLogin, ExchangeToken, StoreToken, AnswerAuth, StartLogout, ForgotPassword,
         ConsumeReset, RevokeSessions, Abandon, Tick

\* Two registrations never leave two accounts with one username or e-mail address.
THEOREM NamesAreTakenOnce == Spec => []AccountsAreDistinct
<1>1. Init => AccountsAreDistinct
  BY DEF Init, AccountsAreDistinct, Registered, NoAccount
<1>2. QED
  BY <1>1, StepDistinct, Inductive, PTL DEF Spec

-------------------------------------------------------------------------------
(***************************************************************************)
(* Password changes.                                                       *)
(***************************************************************************)

\* The two sets are finite in every state, so that they can be counted.
CountsHold ==
  \A u \in Users :
    /\ IsFiniteSet(Resetting(u)) /\ IsFiniteSet(UsedResets(u))
    /\ changes[u] + Cardinality(Resetting(u)) <= Cardinality(UsedResets(u))

\* A request that ends or does not reset anything uses no token.
LEMMA NoResetCounts ==
  ASSUME TypeOK, CountsHold, UNCHANGED changes,
         \A u \in Users : Resetting(u)' \subseteq Resetting(u) /\ UsedResets(u)' = UsedResets(u)
  PROVE  CountsHold'
<1> SUFFICES ASSUME NEW u \in Users
             PROVE  /\ IsFiniteSet(Resetting(u)') /\ IsFiniteSet(UsedResets(u)')
                    /\ changes'[u] + Cardinality(Resetting(u)') <= Cardinality(UsedResets(u)')
  BY DEF CountsHold
<1>1. /\ IsFiniteSet(Resetting(u)') /\ Cardinality(Resetting(u)') <= Cardinality(Resetting(u))
      /\ IsFiniteSet(Resetting(u)) /\ IsFiniteSet(UsedResets(u))
  BY FS_Subset DEF CountsHold
<1>2. /\ Cardinality(Resetting(u)) \in Nat /\ Cardinality(Resetting(u)') \in Nat
      /\ Cardinality(UsedResets(u)) \in Nat /\ changes[u] \in Nat
  BY <1>1, FS_CardinalityType DEF TypeOK
<1>3. QED
  BY <1>1, <1>2 DEF CountsHold

\* A consumed token stands for the reset that consumed it ...
LEMMA ConsumeCounts ==
  ASSUME SessionsIInv, CountsHold, NEW t \in Tasks, NEW k \in ResetTokens, NEW p \in Passwords,
         ConsumeReset(t, k, p)
  PROVE  CountsHold'
<1>0. TypeOK /\ UNCHANGED changes
  BY DEF SessionsIInv, ConsumeReset, ghost
<1>1. PICK v \in Users : v = resets[k].user
  BY <1>0 DEF TypeOK, Reset
<1>2. /\ resets'[k].status = "used" /\ resets'[k].user = v /\ resets[k].status = "unused"
      /\ \A j \in ResetTokens \ {k} : resets'[j] = resets[j]
  BY <1>0, <1>1, ResetEffect DEF ConsumeReset
<1>3. /\ pc[t] = "idle" /\ pc'[t] = "resetting" /\ req'[t].user = v
      /\ \A u \in Tasks \ {t} : pc'[u] = pc[u] /\ req'[u] = req[u]
  <2>1. PICK r \in Request : r = [NoRequest EXCEPT !.user = v, !.password = p] /\ r.user = v
    BY ZenonT(60), RequestTypes
  <2>2. pc' = [pc EXCEPT ![t] = "resetting"] /\ req' = [req EXCEPT ![t] = r]
    BY <1>1, <2>1 DEF ConsumeReset
  <2>3. QED
    BY <1>0, <2>1, <2>2 DEF TypeOK, ConsumeReset
<1>4. /\ Resetting(v)' = Resetting(v) \cup {t} /\ t \notin Resetting(v)
      /\ UsedResets(v)' = UsedResets(v) \cup {k} /\ k \notin UsedResets(v)
  BY <1>1, <1>2, <1>3 DEF Resetting, UsedResets
<1>5. \A u \in Users \ {v} : Resetting(u)' = Resetting(u) /\ UsedResets(u)' = UsedResets(u)
  BY <1>1, <1>2, <1>3 DEF Resetting, UsedResets
<1>6. /\ IsFiniteSet(Resetting(v)') /\ IsFiniteSet(UsedResets(v)')
      /\ Cardinality(Resetting(v)') = Cardinality(Resetting(v)) + 1
      /\ Cardinality(UsedResets(v)') = Cardinality(UsedResets(v)) + 1
  BY <1>4, FS_AddElement DEF CountsHold
<1>7. /\ Cardinality(Resetting(v)) \in Nat /\ Cardinality(UsedResets(v)) \in Nat
      /\ changes[v] \in Nat
  BY <1>0, FS_CardinalityType DEF CountsHold, TypeOK
<1>8. changes[v] + Cardinality(Resetting(v)) <= Cardinality(UsedResets(v))
  BY DEF CountsHold
<1>9. changes'[v] + Cardinality(Resetting(v)') <= Cardinality(UsedResets(v)')
  BY <1>0, <1>6, <1>7, <1>8
<1>10. QED
  BY <1>0, <1>5, <1>6, <1>9 DEF CountsHold

\* ... and afterwards for the change it made.
LEMMA UpdateCounts ==
  ASSUME SessionsIInv, CountsHold, NEW t \in Tasks, UpdatePassword(t)
  PROVE  CountsHold'
<1>0. TypeOK /\ UNCHANGED resets
  BY DEF SessionsIInv, UpdatePassword
<1>1. PICK v \in Users : v = req[t].user
  BY <1>0 DEF TypeOK, Request
<1>2. /\ pc[t] = "resetting" /\ pc'[t] = "revoking"
      /\ \A u \in Tasks \ {t} : pc'[u] = pc[u] /\ req'[u] = req[u]
      /\ changes'[v] = changes[v] + 1 /\ \A u \in Users \ {v} : changes'[u] = changes[u]
  BY <1>0, <1>1 DEF TypeOK, UpdatePassword
<1>3. Resetting(v)' = Resetting(v) \ {t} /\ t \in Resetting(v)
  BY <1>1, <1>2 DEF Resetting
<1>4. /\ \A u \in Users \ {v} : Resetting(u)' = Resetting(u)
      /\ \A u \in Users : UsedResets(u)' = UsedResets(u)
  BY <1>0, <1>1, <1>2 DEF Resetting, UsedResets
<1>5. /\ IsFiniteSet(Resetting(v)')
      /\ Cardinality(Resetting(v)') = Cardinality(Resetting(v)) - 1
  BY <1>3, FS_RemoveElement DEF CountsHold
<1>6. /\ Cardinality(Resetting(v)) \in Nat /\ Cardinality(UsedResets(v)) \in Nat
      /\ changes[v] \in Nat
  BY <1>0, FS_CardinalityType DEF CountsHold, TypeOK
<1>7. changes[v] + Cardinality(Resetting(v)) <= Cardinality(UsedResets(v))
  BY DEF CountsHold
<1>8. changes'[v] + Cardinality(Resetting(v)') <= Cardinality(UsedResets(v)')
  BY <1>2, <1>4, <1>5, <1>6, <1>7
<1>9. QED
  BY <1>2, <1>4, <1>5, <1>8 DEF CountsHold

LEMMA StepCounts == SessionsIInv /\ CountsHold /\ [Next]_vars => CountsHold'
<1> SUFFICES ASSUME SessionsIInv, CountsHold, [Next]_vars
             PROVE  CountsHold'
  OBVIOUS
<1>0. TypeOK
  BY DEF SessionsIInv
<1>1. ASSUME UNCHANGED <<resets, changes>>, NEW t \in Tasks,
             \E s \in Steps \ {"resetting"} : pc' = [pc EXCEPT ![t] = s],
             \E r : req' = [req EXCEPT ![t] = r]
      PROVE  CountsHold'
  <2>1. \A u \in Users : Resetting(u)' \subseteq Resetting(u) /\ UsedResets(u)' = UsedResets(u)
    BY <1>0, <1>1 DEF TypeOK, Resetting, UsedResets
  <2>2. QED
    BY <1>0, <1>1, <2>1, NoResetCounts
<1>2. ASSUME NEW t \in Tasks,
             \/ \E n \in Names, e \in Emails, p \in Passwords : StartRegister(t, n, e, p)
             \/ CreateUser(t) \/ RefuseUser(t)
             \/ \E n \in Names, p \in Passwords, u \in Users : StartLogin(t, n, p, u)
             \/ \E k \in Tokens : ExchangeToken(t, k) \/ StoreToken(t, k)
             \/ AnswerAuth(t) \/ RevokeSessions(t) \/ Abandon(t)
             \/ \E u \in Users : StartLogout(t, u)
      PROVE  CountsHold'
  <2>1. UNCHANGED <<resets, changes>>
    BY <1>2 DEF StartRegister, CreateUser, RefuseUser, StartLogin, ExchangeToken, StoreToken,
                AnswerAuth, RevokeSessions, Abandon, StartLogout, table, ghost
  <2>2. /\ \E s \in Steps \ {"resetting"} : pc' = [pc EXCEPT ![t] = s]
        /\ \E r : req' = [req EXCEPT ![t] = r]
    BY <1>2 DEF StartRegister, CreateUser, RefuseUser, StartLogin, ExchangeToken, StoreToken,
                AnswerAuth, RevokeSessions, Abandon, StartLogout, Finish, Steps
  <2>3. QED
    BY <1>1, <2>1, <2>2
<1>3. ASSUME NEW t \in Tasks, CheckUsername(t) \/ CheckEmail(t)
      PROVE  CountsHold'
  <2>1. UNCHANGED <<resets, changes>> /\ pc[t] # "resetting"
    BY <1>3 DEF CheckUsername, CheckEmail, table, ghost
  <2>2. /\ pc'[t] # "resetting"
        /\ \A u \in Tasks \ {t} : pc'[u] = pc[u] /\ req'[u] = req[u]
    BY <1>0, <1>3 DEF CheckUsername, CheckEmail, Finish, TypeOK
  <2>3. \A u \in Users : Resetting(u)' \subseteq Resetting(u) /\ UsedResets(u)' = UsedResets(u)
    BY <2>1, <2>2 DEF Resetting, UsedResets
  <2>4. QED
    BY <1>0, <2>1, <2>3, NoResetCounts
<1>4. ASSUME NEW v \in Users, NEW k \in ResetTokens, ForgotPassword(v, k)
      PROVE  CountsHold'
  <2>1. \A u \in Users : Resetting(u)' = Resetting(u) /\ UsedResets(u)' = UsedResets(u)
    BY <1>0, <1>4 DEF TypeOK, ForgotPassword, Resetting, UsedResets
  <2>2. UNCHANGED changes
    BY <1>4 DEF ForgotPassword, ghost
  <2>3. QED
    BY <1>0, <2>1, <2>2, NoResetCounts
<1>5. CASE Tick \/ UNCHANGED vars
  BY <1>5 DEF Tick, vars, table, ghost, CountsHold, Resetting, UsedResets
<1>6. QED
  BY <1>2, <1>3, <1>4, <1>5, ConsumeCounts, UpdateCounts DEF Next

\* Every change of a password, done or under way, has used up a reset token of its own.
THEOREM ResetsPayForChanges == Spec => []ChangesNeedTokens
<1>1. Init => CountsHold
  <2> SUFFICES ASSUME Init, NEW u \in Users
               PROVE  /\ IsFiniteSet(Resetting(u)) /\ IsFiniteSet(UsedResets(u))
                      /\ changes[u] + Cardinality(Resetting(u)) <= Cardinality(UsedResets(u))
    BY DEF CountsHold
  <2>1. Resetting(u) = {} /\ UsedResets(u) = {} /\ changes[u] = 0
    BY DEF Init, Resetting, UsedResets
  <2>2. QED
    BY <2>1, FS_EmptySet
<1>2. CountsHold => ChangesNeedTokens
  BY DEF CountsHold, ChangesNeedTokens
<1>3. QED
  BY <1>1, <1>2, StepCounts, Inductive, PTL DEF Spec
===============================================================================
