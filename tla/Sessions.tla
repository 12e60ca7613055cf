------------------------------- MODULE Sessions -------------------------------
(***************************************************************************)
(* Accounts and login sessions: login, logout, password changes by the     *)
(* user or by an administrator, switching accounts off and on, and the     *)
(* session lookup (with its sliding expiry) in front of every other        *)
(* request.  A handler is a row of statements that commit one by one, so   *)
(* requests interleave between any two of them.                            *)
(***************************************************************************)
EXTENDS Naturals

CONSTANTS
  Users,
  Admins,      \* users whose role is admin; roles never change
  Tokens,      \* session tokens that may be drawn
  Requests,    \* requests in flight at a time
  MaxChanges,  \* bound on password changes of an account
  NoToken,
  NoUser

ASSUME AdminsAssumption == Admins \subseteq Users
ASSUME NoTokenAssumption == NoToken \notin Tokens
ASSUME NoUserAssumption == NoUser \notin Users
ASSUME MaxChangesAssumption == MaxChanges \in Nat

VARIABLES
  active,     \* active[u]: users.is_active
  pwd,        \* pwd[u]: which of u's passwords password_hash is of
  session,    \* session[t]: the row of t
  owner,      \* owner[t]: its user_id
  since,      \* since[t]: the password its user is known to have had
  step,       \* step[r]: the next statement of r
  op,         \* op[r]: what r was asked to do
  body,       \* body[r]: the fields of a PATCH
  token,      \* token[r]: the session cookie of r
  target,     \* target[r]: the account r is about
  seen,       \* seen[r]: the password that came with r
  overtaken,  \* overtaken[r]: sessions of r's user were revoked since r, a login,
              \* verified the password
  missed      \* users with a session that a revocation should have met and did
              \* not: the request failed before it, or a login came through later

accountVars == <<active, pwd>>
sessionVars == <<session, owner, since>>
requestVars == <<step, op, body, token, target, seen>>
vars == <<accountVars, sessionVars, requestVars, overtaken, missed>>

\* PATCH bodies: is_active (None, True or False) and whether a password is given.
Body == [active : {"none", "on", "off"}, password : BOOLEAN]
Empty == [active |-> "none", password |-> FALSE]
Patch == Body \ {Empty}
Operation == {"none", "login", "change", "read", "patch"}
Step == {"idle", "create", "renew", "verify", "active", "password", "revoke"}

TypeOK ==
  /\ active \in [Users -> BOOLEAN]
  /\ pwd \in [Users -> 0..MaxChanges]
  /\ session \in [Tokens -> {"none", "live", "expired", "revoked"}]
  /\ owner \in [Tokens -> Users \union {NoUser}]
  /\ \A t \in Tokens : session[t] # "none" => owner[t] \in Users
  /\ since \in [Tokens -> 0..MaxChanges]
  /\ step \in [Requests -> Step]
  /\ op \in [Requests -> Operation]
  /\ body \in [Requests -> Body]
  /\ token \in [Requests -> Tokens \union {NoToken}]
  /\ target \in [Requests -> Users \union {NoUser}]
  /\ seen \in [Requests -> 0..MaxChanges]
  /\ overtaken \in [Requests -> BOOLEAN]
  /\ missed \subseteq Users

\* bootstrap_admin and create_user have made the accounts.
Init ==
  /\ active = [u \in Users |-> TRUE]
  /\ pwd = [u \in Users |-> 0]
  /\ session = [t \in Tokens |-> "none"]
  /\ owner = [t \in Tokens |-> NoUser]
  /\ since = [t \in Tokens |-> 0]
  /\ step = [r \in Requests |-> "idle"]
  /\ op = [r \in Requests |-> "none"]
  /\ body = [r \in Requests |-> Empty]
  /\ token = [r \in Requests |-> NoToken]
  /\ target = [r \in Requests |-> NoUser]
  /\ seen = [r \in Requests |-> 0]
  /\ overtaken = [r \in Requests |-> FALSE]
  /\ missed = {}

Goto(r, s) == step' = [step EXCEPT ![r] = s]

\* The request is answered.
Leave(r) ==
  /\ Goto(r, "idle")
  /\ op' = [op EXCEPT ![r] = "none"]
  /\ body' = [body EXCEPT ![r] = Empty]
  /\ token' = [token EXCEPT ![r] = NoToken]
  /\ target' = [target EXCEPT ![r] = NoUser]
  /\ seen' = [seen EXCEPT ![r] = 0]

Answer(r) == Leave(r) /\ overtaken' = [overtaken EXCEPT ![r] = FALSE]

\* On to the next statement; the body is not needed beyond "active".
Go(r, s) ==
  IF s = "idle"
    THEN Answer(r)
    ELSE /\ Goto(r, s)
         /\ body' = [body EXCEPT ![r] = IF s = "active" THEN @ ELSE Empty]
         /\ UNCHANGED <<op, token, target, seen, overtaken>>

Start(r, s, o, b, t, u) ==
  /\ step[r] = "idle"
  /\ Goto(r, s)
  /\ op' = [op EXCEPT ![r] = o]
  /\ body' = [body EXCEPT ![r] = b]
  /\ token' = [token EXCEPT ![r] = t]
  /\ target' = [target EXCEPT ![r] = u]
  /\ seen' = [seen EXCEPT ![r] = IF o \in {"login", "change"} THEN pwd[u] ELSE 0]
  /\ UNCHANGED <<accountVars, sessionVars, overtaken, missed>>

-----------------------------------------------------------------------------
\* login: the account is active and the password matches the hash just read.
Login(r, u) ==
  /\ active[u]
  /\ Start(r, "create", "login", Empty, NoToken, u)

\* Mutant of CreateSession: the row does not name its user.
CreateSessionUnowned(r, t) ==
  /\ step[r] = "create" /\ session[t] = "none"
  /\ session' = [session EXCEPT ![t] = "live"]
  /\ since' = [since EXCEPT ![t] = seen[r]]
  /\ Answer(r)
  /\ UNCHANGED <<accountVars, owner, missed>>

\* ... create_session, with a fresh token.
CreateSession(r, t) ==
  /\ step[r] = "create" /\ session[t] = "none"
  /\ session' = [session EXCEPT ![t] = "live"]
  /\ owner' = [owner EXCEPT ![t] = target[r]]
  /\ since' = [since EXCEPT ![t] = seen[r]]
  /\ IF overtaken[r] THEN missed' = missed \union {target[r]}
                     ELSE UNCHANGED missed
  /\ Answer(r)
  /\ UNCHANGED accountVars

\* logout: revoke_session, without looking the session up.
Logout(t) ==
  /\ session[t] \in {"live", "expired"}
  /\ session' = [session EXCEPT ![t] = "revoked"]
  /\ UNCHANGED <<accountVars, owner, since, requestVars, overtaken, missed>>

\* session_ttl_days pass.
Expire(t) ==
  /\ session[t] = "live"
  /\ session' = [session EXCEPT ![t] = "expired"]
  /\ UNCHANGED <<accountVars, owner, since, requestVars, overtaken, missed>>

\* The SELECT of get_session_user.
Valid(t) == session[t] = "live" /\ active[owner[t]]

Read(r, t) == Valid(t) /\ Start(r, "renew", "read", Empty, t, owner[t])

ChangePassword(r, t) == Valid(t) /\ Start(r, "renew", "change", Empty, t, owner[t])

\* Mutant of MayPatch: the refusal to switch oneself off is dropped.
MayPatchOneself(t, u, p) == owner[t] \in Admins

\* require_admin, and patch_user's own check.
MayPatch(t, u, p) == owner[t] \in Admins /\ ~(u = owner[t] /\ p.active = "off")

PatchUser(r, t, u, p) ==
  /\ Valid(t) /\ MayPatch(t, u, p)
  /\ Start(r, "renew", "patch", p, t, u)

\* Mutant of Renewed: the session is live again whatever happened to it.
RenewedAlways(s) == "live"

\* The UPDATE of get_session_user moves expires_at and nothing else.
Renewed(s) == IF s = "expired" THEN "live" ELSE s

AfterRenew(r) ==
  CASE op[r] = "read" -> "idle"
    [] op[r] = "change" -> "verify"
    [] op[r] = "patch" -> IF body[r].active # "none" THEN "active" ELSE "password"

Renew(r) ==
  /\ step[r] = "renew"
  /\ session' = [session EXCEPT ![token[r]] = Renewed(@)]
  /\ Go(r, AfterRenew(r))
  /\ UNCHANGED <<accountVars, owner, since, missed>>

\* change_password reads the account again and verifies current_password.
Verify(r) ==
  /\ step[r] = "verify"
  /\ Go(r, IF seen[r] = pwd[target[r]] THEN "password" ELSE "idle")
  /\ UNCHANGED <<accountVars, sessionVars, missed>>

\* update_user, its first UPDATE.
UpdateActive(r) ==
  /\ step[r] = "active"
  /\ active' = [active EXCEPT ![target[r]] = (body[r].active = "on")]
  /\ Go(r, IF body[r].password THEN "password"
           ELSE IF body[r].active = "off" THEN "revoke" ELSE "idle")
  /\ UNCHANGED <<pwd, sessionVars, missed>>

\* Mutant of UpdatePassword: the old sessions are left alone.
UpdatePasswordOnly(r) ==
  /\ step[r] = "password" /\ pwd[target[r]] < MaxChanges
  /\ pwd' = [pwd EXCEPT ![target[r]] = @ + 1]
  /\ Answer(r)
  /\ UNCHANGED <<active, sessionVars, missed>>

\* set_password, or the second UPDATE of update_user.
UpdatePassword(r) ==
  /\ step[r] = "password" /\ pwd[target[r]] < MaxChanges
  /\ pwd' = [pwd EXCEPT ![target[r]] = @ + 1]
  /\ Goto(r, "revoke")
  /\ seen' = [seen EXCEPT ![r] = pwd[target[r]] + 1]
  /\ UNCHANGED <<active, sessionVars, op, body, token, target, overtaken, missed>>

\* revoke_user_sessions spares the session the user changes the password with.
Spared(r, t) == op[r] = "change" /\ t = token[r]

Revoke(r) ==
  /\ step[r] = "revoke"
  /\ session' = [t \in Tokens |->
                   IF owner[t] = target[r] /\ session[t] # "none" /\ ~Spared(r, t)
                     THEN "revoked" ELSE session[t]]
  /\ since' = [t \in Tokens |-> IF Spared(r, t) /\ seen[r] > since[t]
                                  THEN seen[r] ELSE since[t]]
  /\ Leave(r)
  /\ overtaken' = [q \in Requests |->
                     overtaken[q] \/ (step[q] = "create" /\ target[q] = target[r])]
  /\ missed' = IF op[r] = "change" THEN missed ELSE missed \ {target[r]}
  /\ UNCHANGED <<accountVars, owner>>

\* A statement raises or the process dies.
Fail(r) ==
  /\ step[r] # "idle"
  /\ missed' = IF step[r] = "revoke" THEN missed \union {target[r]} ELSE missed
  /\ Answer(r)
  /\ UNCHANGED <<accountVars, sessionVars>>

Next ==
  \/ \E t \in Tokens : Logout(t) \/ Expire(t)
  \/ \E r \in Requests :
       \/ \E u \in Users : Login(r, u)
       \/ \E t \in Tokens :
            \/ CreateSession(r, t) \/ Read(r, t) \/ ChangePassword(r, t)
            \/ \E u \in Users, p \in Patch : PatchUser(r, t, u, p)
       \/ Renew(r) \/ Verify(r) \/ UpdateActive(r) \/ UpdatePassword(r)
       \/ Revoke(r) \/ Fail(r)

Spec == Init /\ [][Next]_vars

-----------------------------------------------------------------------------
\* A revoked session stays revoked: a request that looked it up before may still
\* renew its expiry, but not undo the revocation.
RevokedStaysRevoked ==
  [][\A t \in Tokens : session[t] = "revoked" => session'[t] = "revoked"]_vars

\* Once a password change is through, only the session it was made with and those
\* opened with the new password are left, unless a request failed before it came
\* to revoke them or a login was under way while they were revoked.
OldSessionsEnd ==
  \A t \in Tokens :
    session[t] \in {"live", "expired"} /\ since[t] # pwd[owner[t]] =>
      \/ owner[t] \in missed
      \/ \E r \in Requests : step[r] = "revoke" /\ target[r] = owner[t]

\* The last active administrator is switched off only by a request of one who was
\* switched off after it was let in.
LastAdminGoesLast ==
  [][ (\E a \in Admins : active[a]) /\ ~(\E a \in Admins : active'[a])
        => \E r \in Requests : step[r] = "active" /\ ~active[owner[token[r]]] ]_vars
=============================================================================
