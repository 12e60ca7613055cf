---------------------------- MODULE SessionsProofs ----------------------------
(***************************************************************************)
(* What module Sessions promises, proved for any number of users, sessions *)
(* and requests, and any number of password changes.                       *)
(***************************************************************************)
EXTENDS Sessions, TLAPS

USE AdminsAssumption, NoTokenAssumption, NoUserAssumption, MaxChangesAssumption

(***************************************************************************)
(* What a request in flight knows.  The session it came with was there and *)
(* has not gone from the table since, so its owner is the one the request  *)
(* was let in for; passwords it has seen do not lie in the future.         *)
(***************************************************************************)
HasSession(r) == token[r] \in Tokens /\ session[token[r]] # "none"

RequestOK(r) ==
  step[r] # "idle" =>
    /\ target[r] \in Users
    /\ seen[r] <= pwd[target[r]]
    /\ step[r] = "create" => op[r] = "login"
    /\ step[r] # "create" => HasSession(r)
    /\ step[r] = "renew" => op[r] \in {"read", "change", "patch"}
    /\ op[r] = "change" => owner[token[r]] = target[r]
    /\ op[r] = "patch" => /\ owner[token[r]] \in Admins
                          /\ body[r].active = "off" => target[r] # owner[token[r]]
    /\ step[r] = "active" => op[r] = "patch" /\ body[r].active # "none"

RequestInv == \A r \in Requests : RequestOK(r)

\* Nobody has known a password before it was set.
SinceInv == \A t \in Tokens : session[t] # "none" => since[t] <= pwd[owner[t]]

(***************************************************************************)
(* Old sessions.  A session opened with an old password has a request at   *)
(* its revocation that will revoke it, or that was made with it and knows  *)
(* the current password; a login that verified an old password has one     *)
(* too, or has been marked by one that is through.                         *)
(***************************************************************************)
Cures(r, t) ==
  /\ step[r] = "revoke" /\ target[r] = owner[t]
  /\ Spared(r, t) => seen[r] = pwd[owner[t]]

SessionCured(t) ==
  session[t] \in {"live", "expired"} =>
    \/ since[t] = pwd[owner[t]]
    \/ owner[t] \in missed
    \/ \E r \in Requests : Cures(r, t)

LoginCured(q) ==
  step[q] = "create" =>
    \/ seen[q] = pwd[target[q]]
    \/ overtaken[q]
    \/ target[q] \in missed
    \/ \E r \in Requests : step[r] = "revoke" /\ target[r] = target[q]

CureInv ==
  /\ \A t \in Tokens : SessionCured(t)
  /\ \A q \in Requests : LoginCured(q)

SessionsInv == TypeOK /\ RequestInv /\ SinceInv /\ CureInv

-----------------------------------------------------------------------------
\* What starting, answering and moving on do to a request.
LEMMA StartTypes ==
  ASSUME TypeOK, NEW r \in Requests, NEW s \in Step, NEW o \in Operation, NEW b \in Body,
         NEW t \in Tokens \union {NoToken}, NEW u \in Users, Start(r, s, o, b, t, u)
  PROVE  TypeOK'
BY DEF Start, Goto, TypeOK, accountVars, sessionVars

LEMMA AnswerTypes ==
  ASSUME TypeOK, NEW r \in Requests, Leave(r)
  PROVE  /\ step' \in [Requests -> Step] /\ op' \in [Requests -> Operation]
         /\ body' \in [Requests -> Body]
         /\ token' \in [Requests -> Tokens \union {NoToken}]
         /\ target' \in [Requests -> Users \union {NoUser}]
         /\ seen' \in [Requests -> 0..MaxChanges]
BY DEF Leave, Goto, TypeOK, Step, Operation, Body, Empty

LEMMA GoTypes ==
  ASSUME TypeOK, NEW r \in Requests, NEW s \in Step, Go(r, s)
  PROVE  /\ step' \in [Requests -> Step] /\ op' \in [Requests -> Operation]
         /\ body' \in [Requests -> Body]
         /\ token' \in [Requests -> Tokens \union {NoToken}]
         /\ target' \in [Requests -> Users \union {NoUser}]
         /\ seen' \in [Requests -> 0..MaxChanges]
         /\ overtaken' \in [Requests -> BOOLEAN]
<1>1. CASE s = "idle"
  BY <1>1, AnswerTypes DEF Go, Answer, TypeOK
<1>2. CASE s # "idle"
  <2>1. body' \in [Requests -> Body]
    <3>1. Empty \in Body
      BY DEF Empty, Body
    <3> QED
      BY <1>2, <3>1 DEF Go, TypeOK
  <2>2. step' \in [Requests -> Step]
    BY <1>2 DEF Go, Goto, TypeOK
  <2> QED
    BY <1>2, <2>1, <2>2 DEF Go, TypeOK
<1> QED
  BY <1>1, <1>2

LEMMA AfterRenewType ==
  ASSUME NEW r \in Requests, op[r] \in {"read", "change", "patch"}
  PROVE  AfterRenew(r) \in Step
BY DEF AfterRenew, Step

\* Every statement writes values of the columns' types.
LEMMA TypeStep == TypeOK /\ RequestInv /\ [Next]_vars => TypeOK'
<1> SUFFICES ASSUME TypeOK, RequestInv, [Next]_vars PROVE TypeOK'
  OBVIOUS
<1>1. ASSUME NEW t \in Tokens, Logout(t) PROVE TypeOK'
  BY <1>1 DEF Logout, TypeOK, accountVars, requestVars
<1>2. ASSUME NEW t \in Tokens, Expire(t) PROVE TypeOK'
  BY <1>2 DEF Expire, TypeOK, accountVars, requestVars
<1>3. ASSUME NEW r \in Requests, NEW u \in Users, Login(r, u) PROVE TypeOK'
  BY <1>3, StartTypes DEF Login, Step, Operation, Body, Empty
<1>4. ASSUME NEW r \in Requests, NEW t \in Tokens, CreateSession(r, t) PROVE TypeOK'
  <2>1. target[r] \in Users /\ seen[r] \in 0..MaxChanges
    BY <1>4 DEF CreateSession, RequestInv, RequestOK, TypeOK
  <2>2. /\ session' \in [Tokens -> {"none", "live", "expired", "revoked"}]
        /\ owner' \in [Tokens -> Users \union {NoUser}]
        /\ \A s \in Tokens : session'[s] # "none" => owner'[s] \in Users
        /\ since' \in [Tokens -> 0..MaxChanges]
        /\ missed' \subseteq Users
    BY <1>4, <2>1 DEF CreateSession, TypeOK
  <2>3. Leave(r) /\ overtaken' \in [Requests -> BOOLEAN] /\ UNCHANGED accountVars
    BY <1>4 DEF CreateSession, Answer, TypeOK
  <2> QED
    BY <2>2, <2>3, AnswerTypes DEF TypeOK, accountVars
<1>5. ASSUME NEW r \in Requests, NEW t \in Tokens, Read(r, t) PROVE TypeOK'
  <2>1. owner[t] \in Users
    BY <1>5 DEF Read, Valid, TypeOK
  <2>2. Start(r, "renew", "read", Empty, t, owner[t])
    BY <1>5 DEF Read
  <2>3. "renew" \in Step /\ "read" \in Operation /\ Empty \in Body
    BY DEF Step, Operation, Body, Empty
  <2> QED
    BY <2>1, <2>2, <2>3, StartTypes
<1>6. ASSUME NEW r \in Requests, NEW t \in Tokens, ChangePassword(r, t) PROVE TypeOK'
  <2>1. owner[t] \in Users
    BY <1>6 DEF ChangePassword, Valid, TypeOK
  <2>2. Start(r, "renew", "change", Empty, t, owner[t])
    BY <1>6 DEF ChangePassword
  <2>3. "renew" \in Step /\ "change" \in Operation /\ Empty \in Body
    BY DEF Step, Operation, Body, Empty
  <2> QED
    BY <2>1, <2>2, <2>3, StartTypes
<1>7. ASSUME NEW r \in Requests, NEW t \in Tokens, NEW u \in Users, NEW p \in Patch,
             PatchUser(r, t, u, p)
      PROVE  TypeOK'
  BY <1>7, StartTypes DEF PatchUser, Patch, Step, Operation
<1>8. ASSUME NEW r \in Requests, Renew(r) PROVE TypeOK'
  <2>1. AfterRenew(r) \in Step /\ token[r] \in Tokens
    BY <1>8, AfterRenewType DEF Renew, RequestInv, RequestOK, HasSession
  <2>2. session' \in [Tokens -> {"none", "live", "expired", "revoked"}]
        /\ \A s \in Tokens : session'[s] # "none" => session[s] # "none"
    BY <1>8, <2>1 DEF Renew, Renewed, TypeOK
  <2> QED
    BY <1>8, <2>1, <2>2, GoTypes DEF Renew, TypeOK, accountVars
<1>9. ASSUME NEW r \in Requests, Verify(r) PROVE TypeOK'
  <2>1. PICK s \in Step : Go(r, s)
    BY <1>9 DEF Verify, Step
  <2> QED
    BY <1>9, <2>1, GoTypes DEF Verify, TypeOK, accountVars, sessionVars
<1>10. ASSUME NEW r \in Requests, UpdateActive(r) PROVE TypeOK'
  <2>1. PICK s \in Step : Go(r, s)
    BY <1>10 DEF UpdateActive, Step
  <2>2. active' \in [Users -> BOOLEAN]
    BY <1>10 DEF UpdateActive, TypeOK
  <2> QED
    BY <1>10, <2>1, <2>2, GoTypes DEF UpdateActive, TypeOK, sessionVars
<1>11. ASSUME NEW r \in Requests, UpdatePassword(r) PROVE TypeOK'
  <2>1. target[r] \in Users
    BY <1>11 DEF UpdatePassword, RequestInv, RequestOK
  <2> QED
    BY <1>11, <2>1 DEF UpdatePassword, Goto, TypeOK, Step, sessionVars
<1>12. ASSUME NEW r \in Requests, Revoke(r) PROVE TypeOK'
  <2>1. /\ session' \in [Tokens -> {"none", "live", "expired", "revoked"}]
        /\ \A t \in Tokens : session'[t] # "none" => session[t] # "none"
        /\ since' \in [Tokens -> 0..MaxChanges]
    BY <1>12 DEF Revoke, TypeOK
  <2>2. overtaken' \in [Requests -> BOOLEAN] /\ missed' \subseteq Users
    BY <1>12 DEF Revoke, TypeOK
  <2> QED
    BY <1>12, <2>1, <2>2, AnswerTypes DEF Revoke, TypeOK, accountVars
<1>13. ASSUME NEW r \in Requests, Fail(r) PROVE TypeOK'
  <2>1. missed' \subseteq Users /\ overtaken' \in [Requests -> BOOLEAN]
    BY <1>13 DEF Fail, Answer, RequestInv, RequestOK, TypeOK
  <2> QED
    BY <1>13, <2>1, AnswerTypes DEF Fail, Answer, TypeOK, accountVars, sessionVars
<1>14. CASE UNCHANGED vars
  BY <1>14 DEF vars, TypeOK, accountVars, sessionVars, requestVars
<1> QED
  BY <1>1, <1>2, <1>3, <1>4, <1>5, <1>6, <1>7, <1>8, <1>9, <1>10, <1>11, <1>12, <1>13, <1>14
  DEF Next

-----------------------------------------------------------------------------
(***************************************************************************)
(* No step takes a password back, removes a session from the table or      *)
(* gives one to another user.                                              *)
(***************************************************************************)
Stable ==
  /\ \A u \in Users : pwd[u] <= pwd'[u]
  /\ \A t \in Tokens : session[t] # "none" => session'[t] # "none" /\ owner'[t] = owner[t]

SameRequest(q) ==
  /\ step'[q] = step[q] /\ op'[q] = op[q] /\ body'[q] = body[q]
  /\ token'[q] = token[q] /\ target'[q] = target[q] /\ seen'[q] = seen[q]

\* Passwords only move forward, sessions stay in the table with their owners.
LEMMA StableStep == TypeOK /\ [Next]_vars => Stable
<1> SUFFICES ASSUME TypeOK, [Next]_vars PROVE Stable
  OBVIOUS
<1> USE DEF Stable, TypeOK, accountVars, sessionVars
<1>1. ASSUME NEW t \in Tokens, Logout(t) PROVE Stable
  BY <1>1 DEF Logout
<1>2. ASSUME NEW t \in Tokens, Expire(t) PROVE Stable
  BY <1>2 DEF Expire
<1>3. ASSUME NEW r \in Requests, NEW u \in Users, Login(r, u) PROVE Stable
  BY <1>3 DEF Login, Start
<1>4. ASSUME NEW r \in Requests, NEW t \in Tokens, CreateSession(r, t) PROVE Stable
  BY <1>4 DEF CreateSession
<1>5. ASSUME NEW r \in Requests, NEW t \in Tokens, Read(r, t) PROVE Stable
  BY <1>5 DEF Read, Start
<1>6. ASSUME NEW r \in Requests, NEW t \in Tokens, ChangePassword(r, t) PROVE Stable
  BY <1>6 DEF ChangePassword, Start
<1>7. ASSUME NEW r \in Requests, NEW t \in Tokens, NEW u \in Users, NEW p \in Patch,
             PatchUser(r, t, u, p)
      PROVE  Stable
  BY <1>7 DEF PatchUser, Start
<1>8. ASSUME NEW r \in Requests, Renew(r) PROVE Stable
  BY <1>8 DEF Renew, Renewed
<1>9. ASSUME NEW r \in Requests, Verify(r) PROVE Stable
  BY <1>9 DEF Verify
<1>10. ASSUME NEW r \in Requests, UpdateActive(r) PROVE Stable
  BY <1>10 DEF UpdateActive
<1>11. ASSUME NEW r \in Requests, UpdatePassword(r) PROVE Stable
  BY <1>11 DEF UpdatePassword
<1>12. ASSUME NEW r \in Requests, Revoke(r) PROVE Stable
  BY <1>12 DEF Revoke
<1>13. ASSUME NEW r \in Requests, Fail(r) PROVE Stable
  BY <1>13 DEF Fail
<1>14. CASE UNCHANGED vars
  BY <1>14 DEF vars
<1> QED
  BY <1>1, <1>2, <1>3, <1>4, <1>5, <1>6, <1>7, <1>8, <1>9, <1>10, <1>11, <1>12, <1>13, <1>14
  DEF Next

\* A request that a stable step leaves alone knows what it knew.
LEMMA RequestFrame ==
  ASSUME TypeOK, TypeOK', Stable, NEW q \in Requests, RequestOK(q), SameRequest(q)
  PROVE  RequestOK(q)'
<1> SUFFICES ASSUME step[q] # "idle" PROVE RequestOK(q)'
  BY DEF RequestOK, SameRequest
<1>1. target[q] \in Users /\ seen'[q] <= pwd'[target[q]]
  BY DEF RequestOK, SameRequest, Stable, TypeOK
<1>2. step[q] # "create" => HasSession(q) /\ HasSession(q)' /\ owner'[token[q]] = owner[token[q]]
  BY DEF RequestOK, HasSession, SameRequest, Stable
<1>3. step[q] = "create" => op[q] = "login"
  BY DEF RequestOK
<1> QED
  BY <1>1, <1>2, <1>3 DEF RequestOK, SameRequest

\* Answering or starting one request leaves the others alone.
LEMMA Others ==
  ASSUME TypeOK, NEW r \in Requests, NEW q \in Requests \ {r}
  PROVE  /\ Leave(r) => SameRequest(q)
         /\ \A s : Go(r, s) => SameRequest(q)
         /\ \A s, o, b, t, u : Start(r, s, o, b, t, u) => SameRequest(q)
BY DEF Leave, Go, Answer, Start, Goto, SameRequest, TypeOK

\* An answered request is idle.
LEMMA Answered ==
  ASSUME TypeOK, NEW r \in Requests, Leave(r)
  PROVE  RequestOK(r)'
BY DEF Leave, Goto, RequestOK, TypeOK

\* A request that moves on keeps what it knows, if it may be at that statement.
LEMMA MovedOn ==
  ASSUME TypeOK, TypeOK', Stable, NEW r \in Requests, RequestOK(r),
         step[r] \notin {"idle", "create"}, NEW s \in Step \ {"create", "renew"}, Go(r, s),
         s = "active" => op[r] = "patch" /\ body[r].active # "none"
  PROVE  RequestOK(r)'
<1>1. CASE s = "idle"
  BY <1>1, Answered DEF Go, Answer
<1>2. CASE s # "idle"
  <2>1. /\ step'[r] = s /\ op'[r] = op[r] /\ token'[r] = token[r] /\ target'[r] = target[r]
        /\ seen'[r] = seen[r]
    BY <1>2 DEF Go, Goto, TypeOK
  <2>2. body'[r] = IF s = "active" THEN body[r] ELSE Empty
    BY <1>2 DEF Go, TypeOK
  <2>3. target[r] \in Users /\ seen'[r] <= pwd'[target[r]]
    BY <2>1 DEF RequestOK, Stable, TypeOK
  <2>4. HasSession(r) /\ HasSession(r)' /\ owner'[token[r]] = owner[token[r]]
    BY <2>1 DEF RequestOK, HasSession, Stable
  <2> QED
    BY <2>1, <2>2, <2>3, <2>4 DEF RequestOK, Empty
<1> QED
  BY <1>1, <1>2

\* Every step keeps what requests know.
LEMMA RequestStep == TypeOK /\ TypeOK' /\ RequestInv /\ [Next]_vars => RequestInv'
<1> SUFFICES ASSUME TypeOK, TypeOK', RequestInv, [Next]_vars, NEW q \in Requests
             PROVE  RequestOK(q)'
  BY DEF RequestInv
<1>0. Stable /\ RequestOK(q) /\ (SameRequest(q) => RequestOK(q)')
  BY StableStep, RequestFrame DEF RequestInv
<1>1. ASSUME NEW t \in Tokens, Logout(t) PROVE SameRequest(q)
  BY <1>1 DEF Logout, requestVars, SameRequest
<1>2. ASSUME NEW t \in Tokens, Expire(t) PROVE SameRequest(q)
  BY <1>2 DEF Expire, requestVars, SameRequest
<1>3. ASSUME NEW r \in Requests, NEW u \in Users, Login(r, u) PROVE RequestOK(q)'
  <2>1. CASE q # r
    BY <1>0, <1>3, <2>1, Others DEF Login
  <2>2. CASE q = r
    BY <1>3, <2>2 DEF Login, Start, Goto, TypeOK, RequestOK, accountVars
  <2> QED
    BY <2>1, <2>2
<1>4. ASSUME NEW r \in Requests, NEW t \in Tokens, CreateSession(r, t) PROVE RequestOK(q)'
  BY <1>0, <1>4, Others, Answered DEF CreateSession, Answer
<1>5. ASSUME NEW r \in Requests, NEW t \in Tokens, Read(r, t) PROVE RequestOK(q)'
  <2>1. CASE q # r
    BY <1>0, <1>5, <2>1, Others DEF Read
  <2>2. CASE q = r
    BY <1>5, <2>2 DEF Read, Valid, Start, Goto, TypeOK, RequestOK, HasSession, sessionVars,
                      accountVars
  <2> QED
    BY <2>1, <2>2
<1>6. ASSUME NEW r \in Requests, NEW t \in Tokens, ChangePassword(r, t) PROVE RequestOK(q)'
  <2>1. CASE q # r
    BY <1>0, <1>6, <2>1, Others DEF ChangePassword
  <2>2. CASE q = r
    BY <1>6, <2>2 DEF ChangePassword, Valid, Start, Goto, TypeOK, RequestOK, HasSession,
                      sessionVars, accountVars
  <2> QED
    BY <2>1, <2>2
<1>7. ASSUME NEW r \in Requests, NEW t \in Tokens, NEW u \in Users, NEW p \in Patch,
             PatchUser(r, t, u, p)
      PROVE  RequestOK(q)'
  <2>1. CASE q # r
    BY <1>0, <1>7, <2>1, Others DEF PatchUser
  <2>2. CASE q = r
    BY <1>7, <2>2 DEF PatchUser, MayPatch, Valid, Start, Goto, TypeOK, RequestOK,
                      HasSession, sessionVars, accountVars
  <2> QED
    BY <2>1, <2>2
<1>8. ASSUME NEW r \in Requests, Renew(r) PROVE RequestOK(q)'
  <2>1. /\ AfterRenew(r) \in Step \ {"create", "renew"}
        /\ AfterRenew(r) = "active" => op[r] = "patch" /\ body[r].active # "none"
    BY <1>8 DEF Renew, RequestInv, RequestOK, AfterRenew, Step
  <2>2. Go(r, AfterRenew(r)) /\ step[r] = "renew"
    BY <1>8 DEF Renew
  <2>3. CASE q # r
    BY <1>0, <2>2, <2>3, Others
  <2>4. CASE q = r
    BY <1>0, <2>1, <2>2, <2>4, MovedOn
  <2> QED
    BY <2>3, <2>4
<1>9. ASSUME NEW r \in Requests, Verify(r) PROVE RequestOK(q)'
  <2>1. PICK s \in Step \ {"create", "renew", "active"} : Go(r, s)
    BY <1>9 DEF Verify, Step
  <2> QED
    BY <1>0, <1>9, <2>1, Others, MovedOn DEF Verify
<1>10. ASSUME NEW r \in Requests, UpdateActive(r) PROVE RequestOK(q)'
  <2>1. PICK s \in Step \ {"create", "renew", "active"} : Go(r, s)
    BY <1>10 DEF UpdateActive, Step
  <2> QED
    BY <1>0, <1>10, <2>1, Others, MovedOn DEF UpdateActive
<1>11. ASSUME NEW r \in Requests, UpdatePassword(r) PROVE RequestOK(q)'
  <2>1. CASE q # r
    BY <1>0, <1>11, <2>1 DEF UpdatePassword, Goto, SameRequest, TypeOK
  <2>2. CASE q = r
    <3>1. /\ step[r] = "password" /\ step'[r] = "revoke"
          /\ op' = op /\ body' = body /\ token' = token /\ target' = target
          /\ session' = session /\ owner' = owner
      BY <1>11 DEF UpdatePassword, Goto, TypeOK, sessionVars
    <3>2. target[r] \in Users /\ seen'[r] <= pwd'[target[r]]
      BY <1>11, <1>0, <2>2 DEF UpdatePassword, RequestOK, TypeOK
    <3> QED
      BY <1>0, <2>2, <3>1, <3>2 DEF RequestOK, HasSession
  <2> QED
    BY <2>1, <2>2
<1>12. ASSUME NEW r \in Requests, Revoke(r) PROVE RequestOK(q)'
  BY <1>0, <1>12, Others, Answered DEF Revoke
<1>13. ASSUME NEW r \in Requests, Fail(r) PROVE RequestOK(q)'
  BY <1>0, <1>13, Others, Answered DEF Fail, Answer
<1>14. CASE UNCHANGED vars
  BY <1>0, <1>14 DEF vars, requestVars, SameRequest
<1> QED
  BY <1>0, <1>1, <1>2, <1>3, <1>4, <1>5, <1>6, <1>7, <1>8, <1>9, <1>10, <1>11, <1>12, <1>13,
     <1>14 DEF Next

\* Initially nothing is known and nothing is old.
LEMMA SessionsInit == Init => SessionsInv
<1> SUFFICES ASSUME Init PROVE SessionsInv
  OBVIOUS
<1>1. TypeOK
  <2>1. Empty \in Body
    BY DEF Empty, Body
  <2> QED
    BY <2>1 DEF Init, TypeOK, Step, Operation
<1>2. RequestInv /\ SinceInv
  BY DEF Init, RequestInv, RequestOK, SinceInv
<1>3. CureInv
  BY DEF Init, CureInv, SessionCured, LoginCured
<1> QED
  BY <1>1, <1>2, <1>3 DEF SessionsInv

\* Types and what requests know, in every reachable state.
LEMMA RequestSafe == Spec => [](TypeOK /\ RequestInv)
<1>1. Init => TypeOK /\ RequestInv
  BY SessionsInit DEF SessionsInv
<1> QED
  BY <1>1, TypeStep, RequestStep, PTL DEF Spec

\* Every column and every field of a request in flight keeps its type; a session in
\* the table has an owner.
THEOREM TypeCorrect == Spec => []TypeOK
BY RequestSafe, PTL

-----------------------------------------------------------------------------
\* A revoked session stays revoked: the UPDATE of get_session_user, made for a
\* session that was revoked since its SELECT, does not revive it.
THEOREM RevocationsStand == Spec => RevokedStaysRevoked
<1> DEFINE Stands == \A t \in Tokens : session[t] = "revoked" => session'[t] = "revoked"
<1>1. TypeOK /\ RequestInv /\ [Next]_vars => Stands
  <2> SUFFICES ASSUME TypeOK, [Next]_vars, NEW t \in Tokens, session[t] = "revoked"
               PROVE  session'[t] = "revoked"
    OBVIOUS
  <2> USE DEF TypeOK, sessionVars
  <2>1. CASE \E s \in Tokens : Logout(s) \/ Expire(s)
    BY <2>1 DEF Logout, Expire
  <2>2. CASE \E r \in Requests : \E u \in Users : Login(r, u)
    BY <2>2 DEF Login, Start
  <2>3. CASE \E r \in Requests : \E s \in Tokens : CreateSession(r, s)
    BY <2>3 DEF CreateSession
  <2>4. CASE \E r \in Requests : \E s \in Tokens :
               \/ Read(r, s) \/ ChangePassword(r, s)
               \/ \E u \in Users, p \in Patch : PatchUser(r, s, u, p)
    BY <2>4 DEF Read, ChangePassword, PatchUser, Start
  <2>5. CASE \E r \in Requests : Renew(r)
    BY <2>5 DEF Renew, Renewed
  <2>6. CASE \E r \in Requests : Verify(r) \/ UpdateActive(r) \/ UpdatePassword(r) \/ Fail(r)
    BY <2>6 DEF Verify, UpdateActive, UpdatePassword, Fail
  <2>7. CASE \E r \in Requests : Revoke(r)
    BY <2>7 DEF Revoke
  <2>8. CASE UNCHANGED vars
    BY <2>8 DEF vars
  <2> QED
    BY <2>1, <2>2, <2>3, <2>4, <2>5, <2>6, <2>7, <2>8 DEF Next
<1>2. TypeOK /\ RequestInv /\ [Next]_vars => [Stands]_vars
  BY <1>1
<1> QED
  BY <1>2, RequestSafe, PTL DEF Spec, RevokedStaysRevoked

-----------------------------------------------------------------------------
\* patch_user only switches off others: whoever switches off the last administrator
\* is one, who was let in while still active and has been switched off since.
THEOREM LastAdministrator == Spec => LastAdminGoesLast
<1> DEFINE Last == (\E a \in Admins : active[a]) /\ ~(\E a \in Admins : active'[a])
           Late == \E r \in Requests : step[r] = "active" /\ ~active[owner[token[r]]]
<1>1. TypeOK /\ RequestInv /\ [Next]_vars => (Last => Late)
  <2> SUFFICES ASSUME TypeOK, RequestInv, [Next]_vars, Last PROVE Late
    OBVIOUS
  <2>1. \E r \in Requests : UpdateActive(r)
    <3>1. active' # active
      OBVIOUS
    <3> QED
      BY <3>1 DEF Next, Logout, Expire, Login, Start, CreateSession, Read, ChangePassword,
                  PatchUser,
                  Renew, Verify, UpdatePassword, Revoke, Fail, vars, accountVars
  <2>2. PICK r \in Requests : UpdateActive(r)
    BY <2>1
  <2>3. PICK a \in Admins : active[a] /\ ~active'[a]
    OBVIOUS
  <2>4. /\ step[r] = "active" /\ target[r] \in Users /\ op[r] = "patch"
        /\ active' = [active EXCEPT ![target[r]] = (body[r].active = "on")]
    BY <2>2 DEF UpdateActive, RequestInv, RequestOK
  <2>5. target[r] = a /\ body[r].active # "on"
    BY <2>3, <2>4 DEF TypeOK
  <2>6. body[r].active = "off"
    BY <2>4, <2>5 DEF RequestInv, RequestOK, TypeOK, Body
  <2>7. owner[token[r]] \in Admins /\ owner[token[r]] # a
    BY <2>4, <2>5, <2>6 DEF RequestInv, RequestOK
  <2>8. ~active[owner[token[r]]]
    <3>1. ~active'[owner[token[r]]]
      BY <2>7
    <3> QED
      BY <2>4, <2>5, <2>7, <3>1 DEF TypeOK
  <2> QED
    BY <2>4, <2>8
<1>2. TypeOK /\ RequestInv /\ [Next]_vars => [Last => Late]_vars
  BY <1>1
<1> QED
  BY <1>2, RequestSafe, PTL DEF Spec, LastAdminGoesLast

-----------------------------------------------------------------------------
\* A new session is opened with a password that has been set, and revoke_user_sessions
\* credits the spared one with the password just set.
LEMMA SinceStep == TypeOK /\ TypeOK' /\ RequestInv /\ SinceInv /\ [Next]_vars => SinceInv'
<1> SUFFICES ASSUME TypeOK, TypeOK', RequestInv, SinceInv, [Next]_vars,
                    NEW t \in Tokens, session'[t] # "none"
             PROVE  since'[t] <= pwd'[owner'[t]]
  BY DEF SinceInv
<1>1. CASE UNCHANGED since /\ session[t] # "none"
  BY <1>1, StableStep DEF SinceInv, Stable, TypeOK
<1>2. CASE session[t] = "none"
  <2>1. PICK r \in Requests : CreateSession(r, t)
    BY <1>2 DEF Next, Logout, Expire, Login, Start, CreateSession, Read, ChangePassword,
                PatchUser,
                Renew, Renewed, Verify, UpdateActive, UpdatePassword, Revoke, Fail, vars,
                sessionVars, TypeOK, RequestInv, RequestOK, HasSession
  <2>2. step[r] = "create" /\ pwd' = pwd /\ owner'[t] = target[r] /\ since'[t] = seen[r]
    BY <2>1 DEF CreateSession, accountVars, TypeOK
  <2> QED
    BY <2>2 DEF RequestInv, RequestOK
<1>3. CASE since' # since /\ session[t] # "none"
  <2>1. CASE \E r \in Requests, s \in Tokens : CreateSession(r, s)
    <3>1. PICK r \in Requests, s \in Tokens : CreateSession(r, s)
      BY <2>1
    <3>2. s # t /\ since'[t] = since[t] /\ owner'[t] = owner[t] /\ pwd' = pwd
      BY <1>3, <3>1 DEF CreateSession, accountVars, TypeOK
    <3> QED
      BY <1>3, <3>2 DEF SinceInv
  <2>2. CASE \E r \in Requests : Revoke(r)
    <3>1. PICK r \in Requests : Revoke(r)
      BY <2>2
    <3>2. /\ step[r] = "revoke" /\ owner' = owner /\ pwd' = pwd
          /\ since'[t] = IF Spared(r, t) /\ seen[r] > since[t] THEN seen[r] ELSE since[t]
      BY <3>1 DEF Revoke, accountVars
    <3>3. Spared(r, t) => seen[r] <= pwd[owner[t]]
      BY <3>2 DEF Spared, RequestInv, RequestOK
    <3> QED
      BY <1>3, <3>2, <3>3 DEF SinceInv
  <2>3. (\E r \in Requests, s \in Tokens : CreateSession(r, s)) \/ \E r \in Requests : Revoke(r)
    BY <1>3 DEF Next, Logout, Expire, Login, Start, Read, ChangePassword, PatchUser,
                Renew, Verify, UpdateActive, UpdatePassword, Fail, vars, sessionVars
  <2> QED
    BY <2>1, <2>2, <2>3
<1> QED
  BY <1>1, <1>2, <1>3

(***************************************************************************)
(* Most steps are quiet: no password is set, no session opened or revived, *)
(* a request at its revocation stays there or leaves its user in missed,   *)
(* and a login verifies the current password.                              *)
(***************************************************************************)
Quiet ==
  /\ pwd' = pwd /\ owner' = owner /\ since' = since /\ missed \subseteq missed'
  /\ \A t \in Tokens : session'[t] \in {"live", "expired"} => session[t] \in {"live", "expired"}
  /\ \A q \in Requests : step[q] = "revoke" => SameRequest(q) \/ target[q] \in missed'
  /\ \A q \in Requests : step'[q] = "create" =>
       \/ SameRequest(q) /\ overtaken'[q] = overtaken[q]
       \/ seen'[q] = pwd[target'[q]]

\* Quiet steps make no session old.
LEMMA QuietCures ==
  ASSUME TypeOK, CureInv, Quiet
  PROVE  CureInv'
<1>1. ASSUME NEW t \in Tokens PROVE SessionCured(t)'
  <2> SUFFICES ASSUME session'[t] \in {"live", "expired"}, since[t] # pwd[owner[t]],
                      owner[t] \notin missed'
               PROVE  \E r \in Requests : Cures(r, t)'
    BY DEF SessionCured, Quiet
  <2>1. PICK r \in Requests : Cures(r, t)
    BY DEF CureInv, SessionCured, Quiet
  <2> QED
    BY <2>1 DEF Cures, Spared, Quiet, SameRequest
<1>2. ASSUME NEW q \in Requests PROVE LoginCured(q)'
  <2> SUFFICES ASSUME step'[q] = "create", seen'[q] # pwd[target'[q]]
               PROVE  \/ overtaken'[q]
                      \/ target'[q] \in missed'
                      \/ \E r \in Requests : step'[r] = "revoke" /\ target'[r] = target'[q]
    BY DEF LoginCured, Quiet
  <2>1. SameRequest(q) /\ overtaken'[q] = overtaken[q]
    BY DEF Quiet
  <2>2. \/ overtaken[q]
        \/ target[q] \in missed
        \/ \E r \in Requests : step[r] = "revoke" /\ target[r] = target[q]
    BY <2>1 DEF CureInv, LoginCured, SameRequest, Quiet
  <2> QED
    BY <2>1, <2>2 DEF SameRequest, Quiet
<1> QED
  BY <1>1, <1>2 DEF CureInv

\* Every step but the opening of a session, the setting of a password and a
\* revocation is quiet.
LEMMA QuietSteps ==
  ASSUME TypeOK, RequestInv, [Next]_vars
  PROVE  \/ Quiet
         \/ \E r \in Requests : UpdatePassword(r) \/ Revoke(r)
         \/ \E r \in Requests, t \in Tokens : CreateSession(r, t)
<1> USE DEF Quiet, TypeOK, SameRequest, accountVars, sessionVars, requestVars
<1>1. ASSUME NEW t \in Tokens, Logout(t) \/ Expire(t) PROVE Quiet
  BY <1>1 DEF Logout, Expire
<1>2. ASSUME NEW r \in Requests, NEW u \in Users, Login(r, u) PROVE Quiet
  BY <1>2 DEF Login, Start, Goto
<1>3. ASSUME NEW r \in Requests, NEW t \in Tokens, Read(r, t) \/ ChangePassword(r, t) PROVE Quiet
  BY <1>3 DEF Read, ChangePassword, Start, Goto
<1>4. ASSUME NEW r \in Requests, NEW t \in Tokens, NEW u \in Users, NEW p \in Patch,
             PatchUser(r, t, u, p)
      PROVE  Quiet
  BY <1>4 DEF PatchUser, Start, Goto
<1>5. ASSUME NEW r \in Requests, NEW s, s # "create", step[r] # "revoke", Go(r, s)
      PROVE  /\ \A q \in Requests : step[q] = "revoke" => SameRequest(q)
             /\ \A q \in Requests : step'[q] = "create" =>
                  SameRequest(q) /\ overtaken'[q] = overtaken[q]
  BY <1>5 DEF Go, Answer, Leave, Goto
<1>6. ASSUME NEW r \in Requests, Renew(r) PROVE Quiet
  <2>1. AfterRenew(r) # "create" /\ step[r] = "renew" /\ Go(r, AfterRenew(r))
    BY <1>6 DEF Renew, AfterRenew, RequestInv, RequestOK
  <2>2. \A t \in Tokens : session'[t] \in {"live", "expired"} => session[t] \in {"live", "expired"}
    BY <1>6 DEF Renew, Renewed
  <2> QED
    BY <1>5, <1>6, <2>1, <2>2 DEF Renew
<1>7. ASSUME NEW r \in Requests, Verify(r) PROVE Quiet
  <2>1. PICK s : s # "create" /\ Go(r, s)
    BY <1>7 DEF Verify
  <2> QED
    BY <1>5, <1>7, <2>1 DEF Verify
<1>8. ASSUME NEW r \in Requests, UpdateActive(r) PROVE Quiet
  <2>1. PICK s : s # "create" /\ Go(r, s)
    BY <1>8 DEF UpdateActive
  <2> QED
    BY <1>5, <1>8, <2>1 DEF UpdateActive
<1>9. ASSUME NEW r \in Requests, Fail(r) PROVE Quiet
  BY <1>9 DEF Fail, Answer, Leave, Goto
<1>10. CASE UNCHANGED vars
  BY <1>10 DEF vars
<1> QED
  BY <1>1, <1>2, <1>3, <1>4, <1>6, <1>7, <1>8, <1>9, <1>10 DEF Next

\* create_session: a login that verified an old password is met by a revocation to
\* come, or is one of those missed.
LEMMA CreateCures ==
  ASSUME TypeOK, RequestInv, CureInv, NEW r \in Requests, NEW t \in Tokens, CreateSession(r, t)
  PROVE  CureInv'
<1>1. /\ step[r] = "create" /\ session[t] = "none" /\ step'[r] = "idle"
      /\ session' = [session EXCEPT ![t] = "live"] /\ pwd' = pwd
      /\ owner' = [owner EXCEPT ![t] = target[r]] /\ since' = [since EXCEPT ![t] = seen[r]]
      /\ missed \subseteq missed' /\ (overtaken[r] => target[r] \in missed')
  BY DEF CreateSession, Answer, Leave, Goto, TypeOK, accountVars
<1>2. \A q \in Requests \ {r} : SameRequest(q) /\ overtaken'[q] = overtaken[q]
  BY Others DEF CreateSession, Answer, TypeOK
<1>3. \A q \in Requests : step[q] = "revoke" => q # r /\ token[q] # t
  BY <1>1 DEF RequestInv, RequestOK, HasSession
<1>4. ASSUME NEW s \in Tokens PROVE SessionCured(s)'
  <2>1. CASE s # t
    <3>1. session'[s] = session[s] /\ owner'[s] = owner[s] /\ since'[s] = since[s]
      BY <1>1, <2>1 DEF TypeOK
    <3>2. ASSUME NEW q \in Requests, Cures(q, s) PROVE Cures(q, s)'
      BY <1>1, <1>2, <1>3, <3>1, <3>2 DEF Cures, Spared, SameRequest
    <3> QED
      BY <1>1, <3>1, <3>2 DEF CureInv, SessionCured
  <2>2. CASE s = t
    <3>1. owner'[t] = target[r] /\ since'[t] = seen[r]
      BY <1>1 DEF TypeOK
    <3>2. ASSUME NEW q \in Requests, step[q] = "revoke", target[q] = target[r] PROVE Cures(q, t)'
      BY <1>2, <1>3, <3>1, <3>2 DEF Cures, Spared, SameRequest
    <3> QED
      BY <1>1, <2>2, <3>1, <3>2 DEF CureInv, LoginCured, SessionCured
  <2> QED
    BY <2>1, <2>2
<1>5. ASSUME NEW q \in Requests PROVE LoginCured(q)'
  BY <1>1, <1>2, <1>3 DEF CureInv, LoginCured, SameRequest
<1> QED
  BY <1>4, <1>5 DEF CureInv

\* set_password makes every session of the user old, and is followed by the revocation
\* that ends them.
LEMMA PasswordCures ==
  ASSUME TypeOK, RequestInv, CureInv, NEW r \in Requests, UpdatePassword(r)
  PROVE  CureInv'
<1>1. /\ step[r] = "password" /\ step'[r] = "revoke" /\ target[r] \in Users
      /\ pwd' = [pwd EXCEPT ![target[r]] = pwd[target[r]] + 1]
      /\ seen'[r] = pwd'[target[r]]
      /\ UNCHANGED <<session, owner, since, missed, op, token, target, overtaken>>
  BY DEF UpdatePassword, Goto, RequestInv, RequestOK, TypeOK, sessionVars
<1>2. \A q \in Requests \ {r} : SameRequest(q)
  BY DEF UpdatePassword, Goto, SameRequest, TypeOK
<1>3. ASSUME NEW t \in Tokens PROVE SessionCured(t)'
  <2>1. CASE owner[t] = target[r]
    BY <1>1, <2>1 DEF SessionCured, Cures
  <2>2. CASE owner[t] # target[r]
    <3>1. pwd'[owner[t]] = pwd[owner[t]] \/ session[t] \notin {"live", "expired"}
      BY <1>1, <2>2 DEF TypeOK
    <3>2. ASSUME NEW q \in Requests, Cures(q, t), pwd'[owner[t]] = pwd[owner[t]]
          PROVE  Cures(q, t)'
      BY <1>1, <1>2, <2>2, <3>2 DEF Cures, Spared, SameRequest
    <3> QED
      BY <1>1, <3>1, <3>2 DEF CureInv, SessionCured
  <2> QED
    BY <2>1, <2>2
<1>4. ASSUME NEW q \in Requests PROVE LoginCured(q)'
  <2>1. CASE target[q] = target[r]
    BY <1>1, <2>1 DEF LoginCured
  <2>2. CASE target[q] # target[r] /\ step[q] = "create"
    <3>1. target[q] \in Users /\ pwd'[target[q]] = pwd[target[q]] /\ q # r
      BY <1>1, <2>2 DEF RequestInv, RequestOK, TypeOK
    <3> QED
      BY <1>1, <1>2, <2>2, <3>1 DEF CureInv, LoginCured, SameRequest
  <2>3. CASE step[q] # "create"
    BY <1>1, <1>2, <2>3 DEF LoginCured, SameRequest
  <2> QED
    BY <2>1, <2>2, <2>3
<1> QED
  BY <1>3, <1>4 DEF CureInv

\* revoke_user_sessions: what it spares is new, or another request is still to come.
LEMMA RevokeCures ==
  ASSUME TypeOK, RequestInv, SinceInv, CureInv, NEW r \in Requests, Revoke(r)
  PROVE  CureInv'
<1>1. /\ step[r] = "revoke" /\ target[r] \in Users /\ seen[r] <= pwd[target[r]]
      /\ step'[r] = "idle" /\ pwd' = pwd /\ owner' = owner
  BY DEF Revoke, Leave, Goto, RequestInv, RequestOK, TypeOK, accountVars
<1>2. \A q \in Requests \ {r} : SameRequest(q)
  BY Others DEF Revoke
<1>3. \A q \in Requests : /\ overtaken[q] => overtaken'[q]
                          /\ step[q] = "create" /\ target[q] = target[r] => overtaken'[q]
  BY DEF Revoke
<1>4. \A u \in Users \ {target[r]} : u \in missed => u \in missed'
  BY DEF Revoke
<1>5. \A t \in Tokens : Spared(r, t) => owner[t] = target[r]
  BY <1>1 DEF Spared, RequestInv, RequestOK
<1>6. ASSUME NEW t \in Tokens PROVE SessionCured(t)'
  <2> SUFFICES ASSUME session'[t] \in {"live", "expired"} PROVE SessionCured(t)'
    BY DEF SessionCured
  <2>0. ASSUME NEW q \in Requests \ {r}, Cures(q, t) PROVE Cures(q, t)'
    BY <1>1, <1>2, <2>0 DEF Cures, Spared, SameRequest
  <2>1. CASE owner[t] # target[r]
    <3>1. session[t] \in {"live", "expired"} /\ since'[t] = since[t] /\ owner[t] \in Users
      BY <1>5, <2>1 DEF Revoke, TypeOK
    <3>2. ~Cures(r, t)
      BY <2>1 DEF Cures
    <3> QED
      BY <1>1, <1>4, <2>0, <2>1, <3>1, <3>2 DEF CureInv, SessionCured
  <2>2. CASE owner[t] = target[r]
    <3>1. Spared(r, t) /\ session[t] \in {"live", "expired"}
      BY <2>2 DEF Revoke
    <3>2. /\ missed' = missed
          /\ since'[t] = IF seen[r] > since[t] THEN seen[r] ELSE since[t]
      BY <3>1 DEF Revoke, Spared
    <3>3. since[t] <= pwd[owner[t]]
      BY <3>1 DEF SinceInv
    <3>4. since[t] \in Nat /\ seen[r] \in Nat /\ pwd[owner[t]] \in Nat
      BY <1>1, <2>2 DEF TypeOK
    <3>5. CASE since[t] = pwd[owner[t]] \/ Cures(r, t)
      <4>1. since'[t] = pwd[owner[t]]
        BY <1>1, <2>2, <3>1, <3>2, <3>3, <3>4, <3>5 DEF Cures
      <4> QED
        BY <1>1, <4>1 DEF SessionCured
    <3>6. CASE owner[t] \in missed
      BY <1>1, <3>2, <3>6 DEF SessionCured
    <3>7. CASE \E q \in Requests \ {r} : Cures(q, t)
      BY <2>0, <3>7 DEF SessionCured
    <3> QED
      BY <3>1, <3>5, <3>6, <3>7 DEF CureInv, SessionCured
  <2> QED
    BY <2>1, <2>2
<1>7. ASSUME NEW q \in Requests PROVE LoginCured(q)'
  <2> SUFFICES ASSUME step'[q] = "create" PROVE LoginCured(q)'
    BY DEF LoginCured
  <2>1. q # r /\ SameRequest(q) /\ step[q] = "create" /\ target[q] \in Users
    BY <1>1, <1>2 DEF SameRequest, RequestInv, RequestOK
  <2>2. CASE target[q] = target[r]
    BY <1>3, <2>1, <2>2 DEF LoginCured
  <2>3. CASE target[q] # target[r]
    BY <1>1, <1>2, <1>3, <1>4, <2>1, <2>3 DEF CureInv, LoginCured, SameRequest
  <2> QED
    BY <2>2, <2>3
<1> QED
  BY <1>6, <1>7 DEF CureInv

\* The whole invariant is kept.
LEMMA SessionsStep == SessionsInv /\ [Next]_vars => SessionsInv'
<1> SUFFICES ASSUME TypeOK, RequestInv, SinceInv, CureInv, [Next]_vars PROVE SessionsInv'
  BY DEF SessionsInv
<1>1. TypeOK'
  BY TypeStep
<1>2. RequestInv'
  BY <1>1, RequestStep
<1>3. SinceInv'
  BY <1>1, SinceStep
<1>4. CureInv'
  BY QuietSteps, QuietCures, CreateCures, PasswordCures, RevokeCures
<1> QED
  BY <1>1, <1>2, <1>3, <1>4 DEF SessionsInv

\* After a password change only the session it was made with and sessions opened with
\* the new password are live, unless a revocation failed, is still to come, or came
\* while a login was under way.
THEOREM OldSessionsRevoked == Spec => []OldSessionsEnd
<1>1. SessionsInv => OldSessionsEnd
  BY DEF SessionsInv, CureInv, SessionCured, Cures, OldSessionsEnd
<1> QED
  BY <1>1, SessionsInit, SessionsStep, PTL DEF Spec
=============================================================================
