---------------------------- MODULE AccountRecovery ----------------------------
(***************************************************************************)
(* Signing up, confirming by a mailed code (recovery_challenges), and what *)
(* a code changes: the verification of a new account, a forgotten or a     *)
(* changed password, the address (src/routes/account.js), and the sessions *)
(* that rest on it (src/auth.js).  Between two statements of a handler any *)
(* other handler may run.                                                  *)
(*                                                                         *)
(* Abstracted: validation, the bot check, rate limits and bans on signing  *)
(* up are requests that are not made; administrators approve, reject and   *)
(* ban at any time, so what a status forbids is a request that may not be  *)
(* made; a password is the number of times it has been changed; whether an *)
(* address is taken is left open; the second factor of a login             *)
(* (LoginChallenges) is an interval between the check of the password and  *)
(* the session.  A challenge is of no use before its code is mailed, after *)
(* its attempts are used up (as LoginChallenges has it) and once it has    *)
(* expired, as nothing revives it: it is inserted as the mail succeeds,    *)
(* and may expire at any time.                                             *)
(***************************************************************************)
EXTENDS Naturals, FiniteSets

CONSTANTS
  Requests,      \* handlers at work at once (a bound)
  Users,         \* accounts there are at once (a bound)
  Ids,           \* recovery challenges there are at once (a bound)
  Sessions,      \* logins and sessions there are at once (a bound)
  None,          \* no user, challenge or session
  MaxPasswords,  \* changes of a password (a bound)
  Required,      \* config.emailVerificationRequired, both ways: \subseteq BOOLEAN
  Faults         \* TRUE: mail and database errors, and restarts, may happen

ASSUME RecoveryAssumption ==
  /\ MaxPasswords \in Nat
  /\ None \notin Users \cup Ids \cup Sessions
  /\ Required \subseteq BOOLEAN /\ Faults \in BOOLEAN

VARIABLES
  required,  \* config.emailVerificationRequired of this instance
  user,      \* user[u]: the row of u in users; as history, whether it was approved as
             \* the first account, and the last password whose change was answered
  chal,      \* chal[i]: the row of i in recovery_challenges
  sess,      \* sess[s]: a login that waits for its second factor, then a session
  req        \* req[r]: where handler r is, and its local variables

vars == <<required, user, chal, sess, req>>

NoUser == [there |-> FALSE, verified |-> FALSE, pw |-> 0, first |-> FALSE,
           ended |-> 0]
NoChallenge == [there |-> FALSE, user |-> None, kind |-> "password"]
NoSession == [state |-> "none", user |-> None, pw |-> 0, late |-> FALSE]
Idle == [pc |-> "idle", user |-> None, kind |-> "password", id |-> None, sid |-> None,
         pw |-> 0, ok |-> FALSE, alone |-> FALSE]

Kinds == {"signup_email", "password", "account_password", "email"}

TypeOK ==
  /\ required \in BOOLEAN
  /\ user \in [Users -> [there : BOOLEAN, verified : BOOLEAN,
                         pw : 0..MaxPasswords, first : BOOLEAN, ended : 0..MaxPasswords]]
  /\ chal \in [Ids -> [there : BOOLEAN, user : Users \cup {None}, kind : Kinds]]
  /\ sess \in [Sessions -> [state : {"none", "login", "open"},
                            user : Users \cup {None}, pw : 0..MaxPasswords,
                            late : BOOLEAN]]
  /\ req \in [Requests ->
       [pc : {"idle", "insert", "verify", "check", "sessions", "session"},
        user : Users \cup {None}, kind : Kinds, id : Ids \cup {None},
        sid : Sessions \cup {None}, pw : 0..MaxPasswords, ok : BOOLEAN,
        alone : BOOLEAN]]
  /\ \A i \in Ids : chal[i].there => chal[i].user \in Users /\ user[chal[i].user].there
  /\ \A s \in Sessions : sess[s].state # "none" =>
       sess[s].user \in Users /\ user[sess[s].user].there

Init ==
  /\ required \in Required
  /\ user = [u \in Users |-> NoUser]
  /\ chal = [i \in Ids |-> NoChallenge]
  /\ sess = [s \in Sessions |-> NoSession]
  /\ req = [r \in Requests |-> Idle]

There(u) == u \in Users /\ user[u].there
Open(s) == sess[s].state = "open"

At(r, pc) == req[r].pc = pc
Finish(r) == req' = [req EXCEPT ![r] = Idle]

\* An id is new as long as neither a row nor a handler has it.
NewUserId(u) == ~user[u].there /\ \A r \in Requests : req[r].user # u
NewChallengeId(i) == ~chal[i].there /\ \A r \in Requests : req[r].id # i
NewSession(s) == sess[s].state = "none" /\ \A r \in Requests : req[r].sid # s

Drop(ids) == chal' = [i \in Ids |-> IF i \in ids THEN NoChallenge ELSE chal[i]]

\* Mutant: the foreign keys are not enforced, what refers to the user stays.
DeleteUserOnly(u) == user' = [user EXCEPT ![u] = NoUser] /\ UNCHANGED <<chal, sess>>
\* DELETE FROM users, and by cascade the challenges and sessions of the user.
DeleteUser(u) ==
  /\ user' = [user EXCEPT ![u] = NoUser]
  /\ Drop({i \in Ids : chal[i].user = u})
  /\ sess' = [s \in Sessions |-> IF sess[s].user = u THEN NoSession ELSE sess[s]]
-------------------------------------------------------------------------------
(***************************************************************************)
(* Signing up.                                                             *)
(***************************************************************************)
\* Mutant: only accounts that have verified their address are counted.
NobodyVerified == \A u \in Users : ~(There(u) /\ user[u].verified)
Nobody == \A u \in Users : ~There(u)

\* POST /signup: the address is free, the users are counted.
Signup(r) ==
  /\ At(r, "idle")
  /\ \E u \in Users :
       /\ NewUserId(u)
       /\ req' = [req EXCEPT ![r] = [Idle EXCEPT !.pc = "insert", !.user = u,
            !.ok = Nobody, !.alone = \A q \in Requests : ~At(q, "insert")]]
  /\ UNCHANGED <<required, user, chal, sess>>

InsertUser(r) ==
  LET u == req[r].user IN
  /\ At(r, "insert")
  /\ user' = [user EXCEPT ![u] = [NoUser EXCEPT !.there = TRUE, !.verified = ~required,
       !.first = req[r].ok /\ req[r].alone]]
  /\ req' = [req EXCEPT ![r] =
       CASE required -> [Idle EXCEPT !.pc = "verify", !.user = u]
         [] ~required /\ req[r].ok -> [Idle EXCEPT !.pc = "session", !.user = u]
         [] OTHER -> Idle]
  /\ UNCHANGED <<required, chal, sess>>
-------------------------------------------------------------------------------
(***************************************************************************)
(* Beginning a challenge.                                                  *)
(***************************************************************************)
\* beginRecovery takes the user's earlier challenges of the kind away, inserts one
\* and, once its code is mailed, answers with the cookie.  (Two that overlap may
\* leave two of one kind; the two kinds of password change are as good.)
Begin(u, kind) ==
  \E i \in Ids :
    /\ NewChallengeId(i)
    /\ chal' = [j \in Ids |->
         IF j = i THEN [there |-> TRUE, user |-> u, kind |-> kind]
         ELSE IF chal[j].user = u /\ chal[j].kind = kind THEN NoChallenge ELSE chal[j]]

\* A new account begins its verification in the handler that inserted it.
BeginSignup(r) ==
  /\ At(r, "verify") /\ There(req[r].user)
  /\ Begin(req[r].user, "signup_email")
  /\ Finish(r)
  /\ UNCHANGED <<required, user, sess>>

\* The mail fails: the challenge goes again, and the user (deleteUserById).
Unsign(r) ==
  /\ At(r, "verify") /\ There(req[r].user) /\ Faults
  /\ DeleteUser(req[r].user)
  /\ Finish(r)
  /\ UNCHANGED required

\* POST /forgot-password.
Forget(u) ==
  /\ There(u)
  /\ Begin(u, "password")
  /\ UNCHANGED <<required, user, sess, req>>

\* POST /account/security/password/start and email/start.
BeginChange(s) ==
  /\ Open(s)
  /\ \E kind \in {"account_password", "email"} : Begin(sess[s].user, kind)
  /\ UNCHANGED <<required, user, sess, req>>
-------------------------------------------------------------------------------
(***************************************************************************)
(* Confirming with a code.                                                 *)
(***************************************************************************)
\* The verification of a signup and of a forgotten password need no session, a
\* change of the password one of the user's own; sid is that session.
ReadChallenge(r, i) ==
  LET c == chal[i] IN
  /\ At(r, "idle") /\ c.there /\ c.kind # "email"
  /\ \E s \in Sessions \cup {None} :
       /\ IF c.kind = "account_password" THEN s # None /\ Open(s) /\ sess[s].user = c.user
          ELSE s = None
       /\ req' = [req EXCEPT ![r] = [Idle EXCEPT !.pc = "check", !.user = c.user,
            !.kind = c.kind, !.id = i, !.sid = s]]
  /\ UNCHANGED <<required, user, chal, sess>>

\* finishSignupVerification; an account that is approved by now gets a session.
CheckSignup(r) ==
  LET u == req[r].user IN
  /\ At(r, "check") /\ req[r].kind = "signup_email" /\ There(u)
  /\ user' = [user EXCEPT ![u].verified = TRUE]
  /\ Drop({req[r].id})
  /\ \/ req' = [req EXCEPT ![r] = [Idle EXCEPT !.pc = "session", !.user = u]]
     \/ Finish(r)
  /\ UNCHANGED <<required, sess>>

\* POST /account/security/email/confirm: the address becomes the account's, or has
\* been taken since the challenge was begun; what the handler does before its last
\* statement touches nothing that is modelled.
CheckAddress(s, i) ==
  /\ chal[i].there /\ chal[i].kind = "email" /\ Open(s) /\ sess[s].user = chal[i].user
  /\ Drop({i})
  /\ UNCHANGED <<required, user, sess, req>>
-------------------------------------------------------------------------------
(***************************************************************************)
(* A new password: the hash, the sessions, the challenge.                  *)
(***************************************************************************)
UpdatePassword(r) ==
  LET u == req[r].user IN
  /\ At(r, "check") /\ req[r].kind \in {"password", "account_password"}
  /\ There(u) /\ user[u].pw < MaxPasswords
  /\ user' = [user EXCEPT ![u].pw = @ + 1]
  /\ req' = [req EXCEPT ![r].pc = "sessions", ![r].pw = user[u].pw + 1]
  /\ UNCHANGED <<required, chal, sess>>

\* Mutant: only a forgotten password ends sessions.
EndedByReset(r, s) == Open(s) /\ sess[s].user = req[r].user /\ req[r].sid = None
\* deleteUserSessions, or deleteOtherUserSessions, which keeps the session that
\* made the change.
EndedBy(r, s) == Open(s) /\ sess[s].user = req[r].user /\ s # req[r].sid

\* A login that had its password checked before is not among the sessions yet:
\* it is late, and that is history.  The session that is kept rests on the code
\* that was mailed, and so on the new password, or on one that it has set since.
\* The challenge goes last, and stays if the handler breaks before.
EndSessions(r) ==
  LET u == req[r].user IN
  /\ At(r, "sessions")
  /\ Finish(r)
  /\ sess' = [s \in Sessions |->
       IF EndedBy(r, s) THEN NoSession
       ELSE IF sess[s].state = "login" /\ sess[s].user = u /\ sess[s].pw < req[r].pw
            THEN [sess[s] EXCEPT !.late = TRUE]
       ELSE IF Open(s) /\ s = req[r].sid /\ sess[s].pw < req[r].pw
            THEN [sess[s] EXCEPT !.pw = req[r].pw]
       ELSE sess[s]]
  /\ \/ /\ Drop({req[r].id})
        /\ user' = [user EXCEPT ![u].ended = IF There(u) /\ req[r].pw > @ THEN req[r].pw ELSE @]
     \/ Faults /\ UNCHANGED <<user, chal>>
  /\ UNCHANGED required
-------------------------------------------------------------------------------
(***************************************************************************)
(* Logins and sessions.                                                    *)
(***************************************************************************)
\* createSession after a signup, which no password was asked for.
CreateSession(r) ==
  /\ At(r, "session") /\ There(req[r].user)
  /\ Finish(r)
  /\ \E s \in Sessions :
       /\ NewSession(s)
       /\ sess' = [sess EXCEPT ![s] = [state |-> "open", user |-> req[r].user,
                                       pw |-> user[req[r].user].pw, late |-> FALSE]]
  /\ UNCHANGED <<required, user, chal>>

\* POST /login has compared the password with the row it read.
Login(s, u) ==
  /\ NewSession(s)
  /\ There(u) /\ user[u].verified
  /\ sess' = [sess EXCEPT ![s] = [state |-> "login", user |-> u, pw |-> user[u].pw,
                                  late |-> FALSE]]
  /\ UNCHANGED <<required, user, chal, req>>

\* The second factor is right.
OpenSession(s) ==
  /\ sess[s].state = "login"
  /\ sess' = [sess EXCEPT ![s].state = "open"]
  /\ UNCHANGED <<required, user, chal, req>>

\* Logging out, attachUser meeting a ban, the end of a session or of a login.
CloseSession(s) ==
  /\ sess[s].state \in {"login", "open"}
  /\ sess' = [sess EXCEPT ![s] = NoSession]
  /\ UNCHANGED <<required, user, chal, req>>
-------------------------------------------------------------------------------
(***************************************************************************)
(* Administrators, time, failures.                                         *)
(***************************************************************************)
RemoveUser(u) ==
  /\ There(u)
  /\ DeleteUser(u)
  /\ UNCHANGED <<required, req>>

Expire(i) ==
  /\ chal[i].there
  /\ Drop({i})
  /\ UNCHANGED <<required, user, sess, req>>

\* A handler ends where it is: a wrong code, an error of the database or of the
\* mail, a row that is no longer there, the end of the process.
Break(r) ==
  /\ ~At(r, "idle")
  /\ Faults \/ At(r, "check") \/ (~There(req[r].user) /\ ~At(r, "insert"))
  /\ Finish(r)
  /\ UNCHANGED <<required, user, chal, sess>>

Handle(r) ==
  \/ Signup(r) \/ InsertUser(r) \/ BeginSignup(r) \/ Unsign(r)
  \/ CheckSignup(r)
  \/ UpdatePassword(r) \/ EndSessions(r)
  \/ CreateSession(r)

Next ==
  \/ \E r \in Requests :
       \/ Handle(r) \/ Break(r)
       \/ \E i \in Ids : ReadChallenge(r, i)
  \/ \E s \in Sessions :
       \/ OpenSession(s) \/ CloseSession(s) \/ BeginChange(s)
       \/ \E u \in Users : Login(s, u)
       \/ \E i \in Ids : CheckAddress(s, i)
  \/ \E u \in Users : Forget(u) \/ RemoveUser(u)
  \/ \E i \in Ids : Expire(i)

Spec == Init /\ [][Next]_vars
-------------------------------------------------------------------------------
\* Once a change of the password has been answered, every session of the account
\* rests on that password or a later one, whatever changes and logins overlapped:
\* the only others come from logins whose old password had been checked when the
\* sessions were deleted.
ResetEndsSessions ==
  \A s \in Sessions : Open(s) => sess[s].pw >= user[sess[s].user].ended \/ sess[s].late

\* Of all accounts that there are, one at most was approved as the first one,
\* whether or not it is verified, and whatever signups failed before; not counting
\* those that counted the users while another signup was about to insert its own.
FirstApproved == Cardinality({u \in Users : user[u].first}) <= 1
================================================================================
