------------------------ MODULE AccountRecoveryProofs ------------------------
(***************************************************************************)
(* Proofs about AccountRecovery, for any number of handlers, accounts,     *)
(* challenges, sessions and changes of a password.                         *)
(***************************************************************************)
EXTENDS AccountRecovery, FiniteSetTheorems, TLAPS

Account == [there : BOOLEAN, verified : BOOLEAN,
            pw : 0..MaxPasswords, first : BOOLEAN, ended : 0..MaxPasswords]
Challenge == [there : BOOLEAN, user : Users \cup {None}, kind : Kinds]
Session == [state : {"none", "login", "open"}, user : Users \cup {None},
            pw : 0..MaxPasswords, late : BOOLEAN]
Work == [pc : {"idle", "insert", "verify", "check", "sessions", "session"},
         user : Users \cup {None}, kind : Kinds, id : Ids \cup {None},
         sid : Sessions \cup {None}, pw : 0..MaxPasswords, ok : BOOLEAN, alone : BOOLEAN]

\* The types, and the foreign keys.
Types ==
  /\ required \in BOOLEAN
  /\ user \in [Users -> Account] /\ chal \in [Ids -> Challenge]
  /\ sess \in [Sessions -> Session] /\ req \in [Requests -> Work]
Keys ==
  /\ \A i \in Ids : chal[i].there => chal[i].user \in Users /\ user[chal[i].user].there
  /\ \A s \in Sessions : sess[s].state # "none" =>
       sess[s].user \in Users /\ user[sess[s].user].there

\* Whoever is going to insert a user is the only one who knows of it.
InsertInv == \A r \in Requests : At(r, "insert") =>
  /\ req[r].user \in Users /\ ~user[req[r].user].there
  /\ \A q \in Requests \ {r} : req[q].user # req[r].user

\* The changes that have been answered, or may yet be, are those of a password that
\* the account has had; and what a session or a login rests on.
PasswordInv ==
  /\ \A u \in Users : user[u].ended <= user[u].pw
  /\ \A r \in Requests : At(r, "sessions") /\ There(req[r].user) => req[r].pw <= user[req[r].user].pw
  /\ \A s \in Sessions : sess[s].state # "none" =>
       sess[s].pw >= user[sess[s].user].ended \/ sess[s].late

\* A handler that is going to insert the first account, and nobody else will.
Founds(r) == At(r, "insert") /\ req[r].ok /\ req[r].alone
FirstInv ==
  /\ \A u \in Users : user[u].first => user[u].there
  /\ \A u, v \in Users : user[u].first /\ user[v].first => u = v
  /\ \A r \in Requests : Founds(r) => \A u \in Users : ~user[u].first
  /\ \A r, q \in Requests : Founds(r) /\ Founds(q) => q = r

Inv == Types /\ Keys /\ InsertInv /\ PasswordInv /\ FirstInv

\* What the invariant is for.
LEMMA InvShows == Inv => TypeOK /\ ResetEndsSessions /\ FirstApproved
<1> SUFFICES ASSUME Inv PROVE TypeOK /\ ResetEndsSessions /\ FirstApproved
  OBVIOUS
<1>1. TypeOK
  BY DEF Inv, Types, Keys, TypeOK, Account, Challenge, Session, Work
<1>2. ResetEndsSessions
  BY DEF Inv, PasswordInv, ResetEndsSessions, Open
<1>3. FirstApproved
  <2> DEFINE First == {u \in Users : user[u].first}
  <2>1. CASE First = {}
    BY <2>1, FS_EmptySet DEF FirstApproved
  <2>2. ASSUME NEW u \in First PROVE FirstApproved
    <3>1. First = {u}
      BY DEF Inv, FirstInv
    <3>2. Cardinality(First) = 1
      BY <3>1, FS_Singleton
    <3>3. QED
      BY <3>2 DEF FirstApproved
  <2>3. QED
    BY <2>1, <2>2
<1>4. QED
  BY <1>1, <1>2, <1>3

\* The constants.
LEMMA Constants ==
  /\ MaxPasswords \in Nat /\ 0 \in 0..MaxPasswords
  /\ NoUser \in Account /\ NoChallenge \in Challenge /\ NoSession \in Session /\ Idle \in Work
  /\ Idle.pc = "idle" /\ Idle.user = None /\ NoSession.state = "none" /\ ~NoChallenge.there
  /\ ~NoUser.there /\ ~NoUser.first /\ NoUser.ended = 0 /\ NoUser.pw = 0
  /\ None \notin Users
BY RecoveryAssumption DEF NoUser, Account, NoChallenge, Challenge, NoSession, Session, Idle,
     Work, Kinds

LEMMA InitInv == Init => Inv
<1> SUFFICES ASSUME Init PROVE Inv
  OBVIOUS
<1>1. Types
  BY Constants, RecoveryAssumption DEF Init, Types
<1>2. /\ \A r \in Requests : req[r].pc = "idle"
      /\ \A u \in Users : ~user[u].there /\ ~user[u].first /\ user[u].ended = 0 /\ user[u].pw = 0
      /\ \A i \in Ids : ~chal[i].there
      /\ \A s \in Sessions : sess[s].state = "none"
  BY Constants DEF Init
<1>3. QED
  BY <1>1, <1>2 DEF Inv, Keys, InsertInv, PasswordInv, FirstInv, Founds, At
-------------------------------------------------------------------------------
(***************************************************************************)
(* What each kind of step changes.                                         *)
(***************************************************************************)
\* A handler goes on to w.
LEMMA Going ==
  ASSUME Types, NEW r \in Requests, NEW w \in Work, req' = [req EXCEPT ![r] = w]
  PROVE  /\ req' \in [Requests -> Work]
         /\ req'[r] = w /\ \A q \in Requests \ {r} : req'[q] = req[q]
BY DEF Types

\* A handler ends.
LEMMA Finishing ==
  ASSUME Types, NEW r \in Requests, Finish(r)
  PROVE  /\ req' \in [Requests -> Work]
         /\ req'[r] = Idle /\ \A q \in Requests \ {r} : req'[q] = req[q]
BY Going, Constants DEF Finish

\* Challenges are dropped.
LEMMA Dropping ==
  ASSUME Types, NEW ids, Drop(ids)
  PROVE  /\ chal' \in [Ids -> Challenge]
         /\ \A i \in Ids : chal'[i] = IF i \in ids THEN NoChallenge ELSE chal[i]
BY Constants DEF Types, Drop

\* A challenge is begun.
LEMMA Beginning ==
  ASSUME Types, NEW u \in Users, NEW kind \in Kinds, Begin(u, kind)
  PROVE  /\ chal' \in [Ids -> Challenge]
         /\ \A i \in Ids : chal'[i].there => chal'[i].user = u \/ chal'[i] = chal[i]
<1>1. PICK i \in Ids :
        chal' = [j \in Ids |->
          IF j = i THEN [there |-> TRUE, user |-> u, kind |-> kind]
          ELSE IF chal[j].user = u /\ chal[j].kind = kind THEN NoChallenge ELSE chal[j]]
  BY DEF Begin
<1>2. [there |-> TRUE, user |-> u, kind |-> kind] \in Challenge
  BY DEF Challenge
<1>3. QED
  BY <1>1, <1>2, Constants DEF Types

\* An account is deleted, with what refers to it.
LEMMA Deleting ==
  ASSUME Types, NEW u \in Users, DeleteUser(u)
  PROVE  /\ user' \in [Users -> Account] /\ chal' \in [Ids -> Challenge]
         /\ sess' \in [Sessions -> Session]
         /\ \A v \in Users : user'[v] = IF v = u THEN NoUser ELSE user[v]
         /\ \A i \in Ids : chal'[i] = IF chal[i].user = u THEN NoChallenge ELSE chal[i]
         /\ \A s \in Sessions : sess'[s] = IF sess[s].user = u THEN NoSession ELSE sess[s]
<1>1. /\ chal' \in [Ids -> Challenge]
      /\ \A i \in Ids : chal'[i] = IF chal[i].user = u THEN NoChallenge ELSE chal[i]
  BY Dropping DEF DeleteUser
<1>2. QED
  BY <1>1, Constants DEF Types, DeleteUser

\* Where a handler may be sent to by the steps that read.
Inserts(u, ok, alone) == [Idle EXCEPT !.pc = "insert", !.user = u, !.ok = ok, !.alone = alone]
LEMMA InsertsWork ==
  ASSUME NEW u \in Users, NEW ok \in BOOLEAN, NEW alone \in BOOLEAN
  PROVE  /\ Inserts(u, ok, alone) \in Work /\ Inserts(u, ok, alone).pc = "insert"
         /\ Inserts(u, ok, alone).user = u
         /\ Inserts(u, ok, alone).ok = ok /\ Inserts(u, ok, alone).alone = alone
BY Constants DEF Inserts, Work

Goes(pc, u) == [Idle EXCEPT !.pc = pc, !.user = u]
LEMMA GoesWork ==
  ASSUME NEW u \in Users, NEW pc \in {"verify", "session"}
  PROVE  Goes(pc, u) \in Work /\ Goes(pc, u).pc = pc /\ Goes(pc, u).user = u
BY Constants DEF Goes, Idle, Work

Checks(u, kind, i, s) ==
  [Idle EXCEPT !.pc = "check", !.user = u, !.kind = kind, !.id = i, !.sid = s]
LEMMA ChecksWork ==
  ASSUME NEW u \in Users \cup {None}, NEW kind \in Kinds, NEW i \in Ids,
         NEW s \in Sessions \cup {None}
  PROVE  /\ Checks(u, kind, i, s) \in Work
         /\ Checks(u, kind, i, s).pc = "check" /\ Checks(u, kind, i, s).user = u
BY Constants DEF Checks, Work

\* A user is counted, and a user is inserted.
LEMMA Signing ==
  ASSUME Types, NEW r \in Requests, Signup(r)
  PROVE  /\ req' \in [Requests -> Work]
         /\ \A q \in Requests \ {r} : req'[q] = req[q]
         /\ req'[r].pc = "insert" /\ req'[r].user \in Users /\ NewUserId(req'[r].user)
         /\ req'[r].ok = Nobody /\ req'[r].alone = (\A q \in Requests : ~At(q, "insert"))
<1> DEFINE alone == \A q \in Requests : ~At(q, "insert")
<1>1. Nobody \in BOOLEAN /\ alone \in BOOLEAN
  BY DEF Nobody
<1>2. PICK u \in Users : NewUserId(u) /\ req' = [req EXCEPT ![r] = Inserts(u, Nobody, alone)]
  BY DEF Signup, Inserts
<1>3. alone = (\A q \in Requests : ~At(q, "insert"))
  OBVIOUS
<1> HIDE DEF alone
<1> DEFINE w == Inserts(u, Nobody, alone)
<1>4. /\ w \in Work /\ w.pc = "insert" /\ w.user = u /\ w.ok = Nobody /\ w.alone = alone
  BY <1>1, InsertsWork
<1> HIDE DEF w
<1>5. /\ req' \in [Requests -> Work]
      /\ req'[r] = w /\ \A q \in Requests \ {r} : req'[q] = req[q]
  BY <1>2, <1>4, Going DEF w
<1>6. NewUserId(req'[r].user) /\ req'[r].user \in Users
  BY <1>2, <1>4, <1>5
<1>7. QED
  BY <1>3, <1>4, <1>5, <1>6

LEMMA Inserting ==
  ASSUME Types, InsertInv, NEW r \in Requests, InsertUser(r)
  PROVE  /\ req' \in [Requests -> Work] /\ user' \in [Users -> Account]
         /\ \A q \in Requests \ {r} : req'[q] = req[q]
         /\ req'[r].pc \in {"verify", "session", "idle"}
         /\ req'[r].user \in {req[r].user, None}
         /\ \A v \in Users \ {req[r].user} : user'[v] = user[v]
         /\ LET u == req[r].user IN
              /\ user'[u].there /\ user'[u].ended = 0 /\ user'[u].pw = 0
              /\ user'[u].first => Founds(r)
<1> DEFINE u == req[r].user
           first == req[r].ok /\ req[r].alone
           verified == ~required
           new == [NoUser EXCEPT !.there = TRUE, !.verified = verified, !.first = first]
<1>1. u \in Users /\ first \in BOOLEAN /\ verified \in BOOLEAN
  BY DEF InsertInv, InsertUser, Types, Work
<1>2. user' = [user EXCEPT ![u] = new]
  BY DEF InsertUser
<1>3. first => Founds(r)
  BY DEF Founds, InsertUser
<1>4. \/ \E pc \in {"verify", "session"} : req' = [req EXCEPT ![r] = Goes(pc, u)]
      \/ req' = [req EXCEPT ![r] = Idle]
  BY DEF InsertUser, Types, Goes
<1> HIDE DEF u, first, verified
<1>5. /\ new \in Account /\ new.there /\ new.ended = 0 /\ new.pw = 0 /\ new.first = first
  BY <1>1, Constants DEF NoUser, Account
<1> HIDE DEF new
<1>6. /\ user' \in [Users -> Account] /\ user'[u] = new
      /\ \A v \in Users \ {u} : user'[v] = user[v]
  BY <1>1, <1>2, <1>5 DEF Types
<1>7. /\ req' \in [Requests -> Work]
      /\ \A q \in Requests \ {r} : req'[q] = req[q]
      /\ req'[r].pc \in {"verify", "session", "idle"}
      /\ req'[r].user \in {u, None}
  BY <1>1, <1>4, Going, GoesWork, Constants
<1>8. QED
  BY <1>3, <1>5, <1>6, <1>7 DEF u
-------------------------------------------------------------------------------
(***************************************************************************)
(* The parts of the invariant, where nobody signs up.                      *)
(***************************************************************************)
\* Nobody begins to insert a user, or gets hold of the id of one to be inserted.
Sits == \A q \in Requests :
  /\ At(q, "insert")' => req'[q] = req[q]
  /\ req'[q].user \in {req[q].user, None} \/ There(req'[q].user)
\* Accounts do not appear.
Fewer == \A u \in Users : /\ user'[u].there => user[u].there
                          /\ user'[u].first => user[u].first /\ user'[u].there

LEMMA InsertKept ==
  ASSUME InsertInv, Sits, Fewer
  PROVE  InsertInv'
<1> SUFFICES ASSUME NEW r \in Requests, At(r, "insert")'
             PROVE  /\ req'[r].user \in Users /\ ~user'[req'[r].user].there
                    /\ \A q \in Requests \ {r} : req'[q].user # req'[r].user
  BY DEF InsertInv
<1>1. req'[r] = req[r] /\ At(r, "insert")
  BY DEF Sits, At
<1>2. /\ req[r].user \in Users /\ ~user[req[r].user].there
      /\ \A q \in Requests \ {r} : req[q].user # req[r].user
  BY <1>1 DEF InsertInv
<1>3. QED
  BY <1>1, <1>2, Constants DEF Sits, Fewer, There

LEMMA FirstKept ==
  ASSUME FirstInv, Sits, Fewer
  PROVE  FirstInv'
<1>1. \A r \in Requests : Founds(r)' => Founds(r)
  BY DEF Founds, Sits, At
<1>2. QED
  BY <1>1 DEF FirstInv, Fewer

\* Passwords, where none is changed and no session begins.
LEMMA PasswordKept ==
  ASSUME Keys, Keys', PasswordInv, Fewer,
         \A u \in Users : user'[u].there => user'[u].ended = user[u].ended /\ user'[u].pw = user[u].pw,
         \A u \in Users : user'[u].ended <= user'[u].pw,
         \A r \in Requests : At(r, "sessions")' => req'[r] = req[r],
         \A s \in Sessions : sess'[s].state # "none" =>
           sess[s].state # "none" /\ sess'[s].user = sess[s].user
           /\ sess'[s].pw = sess[s].pw /\ sess'[s].late = sess[s].late
  PROVE  PasswordInv'
<1>1. ASSUME NEW r \in Requests, At(r, "sessions")', There(req[r].user)'
      PROVE  req'[r].pw <= user'[req'[r].user].pw
  <2>1. req'[r] = req[r] /\ At(r, "sessions") /\ There(req[r].user)
    BY <1>1 DEF At, There, Fewer
  <2>2. QED
    BY <1>1, <2>1 DEF PasswordInv, There
<1>2. ASSUME NEW s \in Sessions, sess'[s].state # "none"
      PROVE  sess'[s].pw >= user'[sess'[s].user].ended \/ sess'[s].late
  <2>1. sess[s].state # "none" /\ sess'[s].user \in Users /\ user'[sess'[s].user].there
    BY <1>2 DEF Keys
  <2>2. QED
    BY <1>2, <2>1 DEF PasswordInv
<1>3. QED
  BY <1>1, <1>2 DEF PasswordInv

\* The steps that touch neither accounts nor sessions.
LEMMA QuietInv ==
  ASSUME Inv, UNCHANGED <<required, user, sess>>, chal' \in [Ids -> Challenge],
         req' \in [Requests -> Work], Sits,
         \A i \in Ids : chal'[i].there =>
           \/ chal'[i] = chal[i]
           \/ chal'[i].user \in Users /\ user[chal'[i].user].there,
         \A r \in Requests : At(r, "sessions")' => req'[r] = req[r]
  PROVE  Inv'
<1>1. Fewer
  BY DEF Inv, FirstInv, Fewer
<1>2. Types' /\ Keys'
  BY DEF Inv, Types, Keys
<1>3. PasswordInv'
  BY <1>1, <1>2, PasswordKept DEF Inv, PasswordInv
<1>4. QED
  BY <1>1, <1>2, <1>3, InsertKept, FirstKept DEF Inv

\* A user is deleted by the handler or an administrator, and a handler may end.
LEMMA DeleteInv ==
  ASSUME Inv, NEW u \in Users, DeleteUser(u), required' = required,
         \/ req' = req
         \/ \E r \in Requests : Finish(r)
  PROVE  Inv'
<1>0. Types /\ Keys
  BY DEF Inv
<1>1. /\ user' \in [Users -> Account] /\ chal' \in [Ids -> Challenge]
      /\ sess' \in [Sessions -> Session]
      /\ \A v \in Users : user'[v] = IF v = u THEN NoUser ELSE user[v]
      /\ \A i \in Ids : chal'[i] = IF chal[i].user = u THEN NoChallenge ELSE chal[i]
      /\ \A s \in Sessions : sess'[s] = IF sess[s].user = u THEN NoSession ELSE sess[s]
  BY <1>0, Deleting
<1>2. /\ req' \in [Requests -> Work]
      /\ \A q \in Requests : req'[q] \in {req[q], Idle}
  BY <1>0, Finishing DEF Types
<1>3. Types' /\ Keys'
  BY <1>0, <1>1, <1>2, Constants DEF Types, Keys
<1>4. Sits /\ \A r \in Requests : At(r, "sessions")' => req'[r] = req[r]
  BY <1>2, Constants DEF Sits, At
<1>5. Fewer
  BY <1>1, Constants DEF Inv, FirstInv, Fewer
<1>6. PasswordInv'
  <2>1. \A v \in Users : user'[v].ended <= user'[v].pw
    BY <1>1, Constants DEF Inv, PasswordInv
  <2>2. \A v \in Users : user'[v].there => user'[v] = user[v]
    BY <1>1, Constants
  <2>3. \A s \in Sessions : sess'[s].state # "none" => sess'[s] = sess[s]
    BY <1>1, Constants
  <2>4. QED
    BY <1>0, <1>3, <1>4, <1>5, <2>1, <2>2, <2>3, PasswordKept DEF Inv
<1>7. QED
  BY <1>3, <1>4, <1>5, <1>6, InsertKept, FirstKept DEF Inv
-------------------------------------------------------------------------------
(***************************************************************************)
(* The steps.                                                              *)
(***************************************************************************)
\* A user is counted: nobody else knows of the new id, and whoever founds is alone.
LEMMA SignupInv ==
  ASSUME Inv, NEW r \in Requests, Signup(r)
  PROVE  Inv'
<1>0. Types /\ UNCHANGED <<required, user, chal, sess>>
  BY DEF Inv, Signup
<1>1. /\ req' \in [Requests -> Work]
      /\ \A q \in Requests \ {r} : req'[q] = req[q]
      /\ req'[r].pc = "insert" /\ req'[r].user \in Users /\ NewUserId(req'[r].user)
      /\ req'[r].ok = Nobody /\ req'[r].alone = (\A q \in Requests : ~At(q, "insert"))
  BY <1>0, Signing
<1>2. Types' /\ Keys'
  BY <1>0, <1>1 DEF Inv, Types, Keys
<1>3. InsertInv'
  <2> SUFFICES ASSUME NEW q \in Requests, At(q, "insert")'
               PROVE  /\ req'[q].user \in Users /\ ~user'[req'[q].user].there
                      /\ \A p \in Requests \ {q} : req'[p].user # req'[q].user
    BY DEF InsertInv
  <2>1. CASE q = r
    BY <1>0, <1>1, <2>1 DEF NewUserId
  <2>2. CASE q # r
    BY <1>0, <1>1, <2>2 DEF Inv, InsertInv, NewUserId, At
  <2>3. QED
    BY <2>1, <2>2
<1>4. PasswordInv'
  <2>1. \A q \in Requests : At(q, "sessions")' => req'[q] = req[q]
    BY <1>1 DEF At
  <2>2. QED
    BY <1>0, <1>2, <2>1, PasswordKept DEF Inv, PasswordInv, Fewer, FirstInv
<1>5. FirstInv'
  <2>1. ASSUME Founds(r)'
        PROVE  (\A q \in Requests : ~At(q, "insert")) /\ \A u \in Users : ~user[u].first
    BY <1>1, <2>1 DEF Founds, Nobody, There, Inv, FirstInv
  <2>2. \A q \in Requests \ {r} : Founds(q)' => Founds(q)
    BY <1>1 DEF Founds, At
  <2>3. QED
    BY <1>0, <2>1, <2>2 DEF Inv, FirstInv, Founds
<1>6. QED
  BY <1>2, <1>3, <1>4, <1>5 DEF Inv

\* The user is there, and is the first one if its handler was to found.
LEMMA InsertUserInv ==
  ASSUME Inv, NEW r \in Requests, InsertUser(r)
  PROVE  Inv'
<1> DEFINE u == req[r].user
<1>0. Types /\ InsertInv /\ Keys /\ UNCHANGED <<required, chal, sess>> /\ At(r, "insert")
  BY DEF Inv, InsertUser
<1>1. /\ req' \in [Requests -> Work] /\ user' \in [Users -> Account]
      /\ \A q \in Requests \ {r} : req'[q] = req[q]
      /\ req'[r].pc \in {"verify", "session", "idle"}
      /\ req'[r].user \in {u, None}
      /\ \A v \in Users \ {u} : user'[v] = user[v]
      /\ user'[u].there /\ user'[u].ended = 0 /\ user'[u].pw = 0
      /\ user'[u].first => Founds(r)
  BY <1>0, Inserting
<1>2. u \in Users /\ ~user[u].there /\ \A q \in Requests \ {r} : req[q].user # u
  BY <1>0 DEF InsertInv
<1> HIDE DEF u
<1>3. Types' /\ Keys'
  BY <1>0, <1>1, <1>2 DEF Types, Keys
<1>4. InsertInv'
  <2> SUFFICES ASSUME NEW q \in Requests, At(q, "insert")'
               PROVE  /\ req'[q].user \in Users /\ ~user'[req'[q].user].there
                      /\ \A p \in Requests \ {q} : req'[p].user # req'[q].user
    BY DEF InsertInv
  <2>1. q # r /\ req'[q] = req[q] /\ At(q, "insert")
    BY <1>1 DEF At
  <2>2. /\ req[q].user \in Users /\ ~user[req[q].user].there
        /\ \A p \in Requests \ {q} : req[p].user # req[q].user
    BY <1>0, <2>1 DEF InsertInv
  <2>3. req[q].user # u /\ req'[r].user # req[q].user
    BY <1>1, <1>2, <2>1, <2>2, Constants
  <2>4. QED
    BY <1>1, <2>1, <2>2, <2>3
<1>5. PasswordInv'
  <2>1. ASSUME NEW q \in Requests, At(q, "sessions")', There(req[q].user)'
        PROVE  req'[q].pw <= user'[req'[q].user].pw
    <3>1. q # r /\ req'[q] = req[q] /\ At(q, "sessions")
      BY <1>1, <2>1 DEF At
    <3>2. req[q].user # u /\ req[q].user \in Users /\ user'[req[q].user] = user[req[q].user]
      BY <1>1, <1>2, <2>1, <3>1 DEF There
    <3>3. QED
      BY <2>1, <3>1, <3>2 DEF Inv, PasswordInv, There
  <2>2. ASSUME NEW s \in Sessions, sess'[s].state # "none"
        PROVE  sess'[s].pw >= user'[sess'[s].user].ended \/ sess'[s].late
    <3>1. sess'[s] = sess[s] /\ sess[s].user \in Users /\ sess[s].user # u
      BY <1>0, <1>2, <2>2 DEF Keys
    <3>2. QED
      BY <1>1, <2>2, <3>1 DEF Inv, PasswordInv
  <2>3. \A v \in Users : user'[v].ended <= user'[v].pw
    BY <1>1 DEF Inv, PasswordInv
  <2>4. QED
    BY <2>1, <2>2, <2>3 DEF PasswordInv, At
<1>6. FirstInv'
  <2>1. \A q \in Requests : Founds(q)' => q # r /\ Founds(q)
    BY <1>1 DEF Founds, At
  <2>2. CASE Founds(r)
    BY <1>1, <2>1, <2>2 DEF Inv, FirstInv
  <2>3. CASE ~Founds(r)
    BY <1>1, <2>1, <2>3 DEF Inv, FirstInv
  <2>4. QED
    BY <2>2, <2>3
<1>7. QED
  BY <1>3, <1>4, <1>5, <1>6 DEF Inv

\* A handler ends, or nobody moves.
LEMMA EndsQuiet ==
  ASSUME Types, NEW r \in Requests, Finish(r)
  PROVE  /\ req' \in [Requests -> Work] /\ Sits
         /\ \A q \in Requests : At(q, "sessions")' => req'[q] = req[q]
BY Finishing, Constants DEF Sits, At
LEMMA NobodyMoves ==
  ASSUME Types, req' = req
  PROVE  /\ req' \in [Requests -> Work] /\ Sits
         /\ \A q \in Requests : At(q, "sessions")' => req'[q] = req[q]
BY DEF Types, Sits

\* Challenges are begun, read, used for a new address, and expire.
LEMMA ChallengeInv ==
  ASSUME Inv,
         \/ \E r \in Requests : BeginSignup(r)
         \/ \E u \in Users : Forget(u)
         \/ \E s \in Sessions : BeginChange(s) \/ \E i \in Ids : CheckAddress(s, i)
         \/ \E i \in Ids : Expire(i)
  PROVE  Inv'
<1>0. Types /\ Keys
  BY DEF Inv
<1>1. ASSUME NEW u \in Users, NEW kind \in Kinds, There(u), Begin(u, kind)
      PROVE  /\ chal' \in [Ids -> Challenge]
             /\ \A i \in Ids : chal'[i].there =>
                  \/ chal'[i] = chal[i]
                  \/ chal'[i].user \in Users /\ user[chal'[i].user].there
  BY <1>0, <1>1, Beginning DEF There
<1>2. ASSUME NEW i \in Ids, Drop({i})
      PROVE  /\ chal' \in [Ids -> Challenge]
             /\ \A j \in Ids : chal'[j].there => chal'[j] = chal[j]
  BY <1>0, <1>2, Dropping, Constants
<1>3. ASSUME NEW r \in Requests, BeginSignup(r) PROVE Inv'
  <2>1. /\ There(req[r].user) /\ Begin(req[r].user, "signup_email")
        /\ Finish(r) /\ UNCHANGED <<required, user, sess>>
    BY <1>3 DEF BeginSignup
  <2>2. req[r].user \in Users /\ "signup_email" \in Kinds
    BY <2>1 DEF There, Kinds
  <2>3. QED
    BY <1>0, <1>1, <2>1, <2>2, EndsQuiet, QuietInv
<1>4. ASSUME NEW u \in Users, Forget(u) PROVE Inv'
  <2>1. There(u) /\ Begin(u, "password") /\ "password" \in Kinds
    BY <1>4 DEF Forget, Kinds
  <2>2. UNCHANGED <<required, user, sess, req>>
    BY <1>4 DEF Forget
  <2>3. QED
    BY <1>0, <1>1, <2>1, <2>2, NobodyMoves, QuietInv
<1>5. ASSUME NEW s \in Sessions, BeginChange(s) PROVE Inv'
  <2>1. PICK kind \in {"account_password", "email"} : Begin(sess[s].user, kind)
    BY <1>5 DEF BeginChange
  <2>2. kind \in Kinds /\ There(sess[s].user)
    BY <1>0, <1>5 DEF BeginChange, Open, Keys, There, Kinds
  <2>3. UNCHANGED <<required, user, sess, req>> /\ sess[s].user \in Users
    BY <1>5, <2>2 DEF BeginChange, There
  <2>4. QED
    BY <1>0, <1>1, <2>1, <2>2, <2>3, NobodyMoves, QuietInv
<1>6. ASSUME NEW i \in Ids, Drop({i}), UNCHANGED <<required, user, sess, req>>
      PROVE  Inv'
  BY <1>0, <1>2, <1>6, NobodyMoves, QuietInv
<1>7. QED
  BY <1>3, <1>4, <1>5, <1>6 DEF CheckAddress, Expire

LEMMA ReadInv ==
  ASSUME Inv, NEW r \in Requests, NEW i \in Ids, ReadChallenge(r, i)
  PROVE  Inv'
<1>0. Types /\ Keys /\ UNCHANGED <<required, user, chal, sess>>
  BY DEF Inv, ReadChallenge
<1>1. chal[i].there /\ chal[i] \in Challenge /\ There(chal[i].user)
  BY <1>0 DEF ReadChallenge, Types, Keys, There
<1>2. PICK s \in Sessions \cup {None} :
        req' = [req EXCEPT ![r] = Checks(chal[i].user, chal[i].kind, i, s)]
  BY DEF ReadChallenge, Checks
<1> DEFINE w == Checks(chal[i].user, chal[i].kind, i, s)
<1>3. w \in Work /\ w.pc = "check" /\ w.user = chal[i].user
  BY <1>1, ChecksWork DEF Challenge
<1> HIDE DEF w
<1>4. /\ req' \in [Requests -> Work]
      /\ req'[r] = w /\ \A q \in Requests \ {r} : req'[q] = req[q]
  BY <1>0, <1>2, <1>3, Going DEF w
<1>5. Sits /\ \A q \in Requests : At(q, "sessions")' => req'[q] = req[q]
  BY <1>1, <1>3, <1>4 DEF Sits, At
<1>6. chal' \in [Ids -> Challenge]
  BY <1>0 DEF Types
<1>7. QED
  BY <1>0, <1>4, <1>5, <1>6, QuietInv

LEMMA BreakInv ==
  ASSUME Inv, NEW r \in Requests, Break(r)
  PROVE  Inv'
<1>1. Types /\ Finish(r) /\ UNCHANGED <<required, user, chal, sess>>
  BY DEF Inv, Break
<1>2. chal' \in [Ids -> Challenge]
  BY <1>1 DEF Types
<1>3. QED
  BY <1>1, <1>2, EndsQuiet, QuietInv

LEMMA RemoveInv ==
  ASSUME Inv, (\E r \in Requests : Unsign(r)) \/ (\E u \in Users : RemoveUser(u))
  PROVE  Inv'
<1>1. ASSUME NEW r \in Requests, Unsign(r) PROVE Inv'
  BY <1>1, DeleteInv DEF Unsign, There
<1>2. ASSUME NEW u \in Users, RemoveUser(u) PROVE Inv'
  BY <1>2, DeleteInv DEF RemoveUser
<1>3. QED
  BY <1>1, <1>2

\* A row changes in what is not the founder's, and the account stays.
LEMMA CheckSignupInv ==
  ASSUME Inv, NEW r \in Requests, CheckSignup(r)
  PROVE  Inv'
<1> DEFINE u == req[r].user
<1>0. Types /\ Keys /\ UNCHANGED <<required, sess>> /\ There(u)
  BY DEF Inv, CheckSignup
<1>1. u \in Users
  BY <1>0 DEF There
<1>2. Drop({req[r].id}) /\ user' = [user EXCEPT ![u].verified = TRUE]
  BY DEF CheckSignup
<1>3. Finish(r) \/ req' = [req EXCEPT ![r] = Goes("session", u)]
  BY DEF CheckSignup, Goes
<1> HIDE DEF u
<1>4. /\ user' \in [Users -> Account]
      /\ \A v \in Users :
           /\ user'[v].there = user[v].there /\ user'[v].first = user[v].first
           /\ user'[v].pw = user[v].pw /\ user'[v].ended = user[v].ended
  BY <1>0, <1>1, <1>2 DEF Types, Account
<1>5. /\ chal' \in [Ids -> Challenge]
      /\ \A i \in Ids : chal'[i].there => chal'[i] = chal[i]
  BY <1>0, <1>2, Dropping, Constants
<1>6. /\ req' \in [Requests -> Work] /\ Sits
      /\ \A q \in Requests : At(q, "sessions")' => req'[q] = req[q]
  <2>1. CASE Finish(r)
    BY <1>0, <2>1, EndsQuiet
  <2>2. CASE req' = [req EXCEPT ![r] = Goes("session", u)]
    <3> DEFINE w == Goes("session", u)
    <3>1. w \in Work /\ w.pc = "session" /\ w.user = u
      BY <1>1, GoesWork
    <3> HIDE DEF w
    <3>2. /\ req' \in [Requests -> Work]
          /\ req'[r] = w /\ \A q \in Requests \ {r} : req'[q] = req[q]
      BY <1>0, <2>2, <3>1, Going DEF w
    <3>3. QED
      BY <1>0, <3>1, <3>2 DEF Sits, At
  <2>3. QED
    BY <1>3, <2>1, <2>2
<1>7. Types' /\ Keys'
  BY <1>0, <1>4, <1>5, <1>6 DEF Types, Keys
<1>8. Fewer
  BY <1>4 DEF Fewer, Inv, FirstInv
<1>9. PasswordInv'
  <2>1. \A v \in Users : user'[v].ended <= user'[v].pw
    BY <1>4 DEF Inv, PasswordInv
  <2>2. QED
    BY <1>0, <1>4, <1>6, <1>7, <1>8, <2>1, PasswordKept DEF Inv
<1>10. QED
  BY <1>6, <1>7, <1>8, <1>9, InsertKept, FirstKept DEF Inv

\* A password is changed: the one that is about to be answered is the newest.
LEMMA UpdateInv ==
  ASSUME Inv, NEW r \in Requests, UpdatePassword(r)
  PROVE  Inv'
<1> DEFINE u == req[r].user
           pw == user[u].pw + 1
           w == [req[r] EXCEPT !.pc = "sessions", !.pw = pw]
           row == [user[u] EXCEPT !.pw = pw]
<1>0. Types /\ Keys /\ UNCHANGED <<required, chal, sess>>
  BY DEF Inv, UpdatePassword
<1>1. u \in Users /\ user[u] \in Account /\ user[u].pw < MaxPasswords
  BY <1>0 DEF UpdatePassword, There, Types
<1>2. pw \in 0..MaxPasswords /\ user[u].pw < pw
  BY <1>1, Constants DEF Account
<1>3. req' = [req EXCEPT ![r] = w] /\ user' = [user EXCEPT ![u] = row]
  BY <1>0 DEF UpdatePassword, Types
<1>4. w.user = u
  BY <1>0 DEF Types, Work
<1> HIDE DEF u, pw
<1>5. /\ row \in Account
      /\ row.there = user[u].there /\ row.first = user[u].first
      /\ row.ended = user[u].ended /\ row.pw = pw
  BY <1>1, <1>2 DEF Account
<1>6. w \in Work /\ w.pc = "sessions" /\ w.pw = pw
  BY <1>0, <1>2 DEF Types, Work
<1> HIDE DEF w, row
<1>7. /\ req' \in [Requests -> Work]
      /\ req'[r] = w /\ \A q \in Requests \ {r} : req'[q] = req[q]
  BY <1>0, <1>3, <1>6, Going
<1>8. /\ user' \in [Users -> Account] /\ user'[u] = row
      /\ \A v \in Users \ {u} : user'[v] = user[v]
  BY <1>0, <1>1, <1>3, <1>5 DEF Types
<1>9. /\ \A v \in Users :
           /\ user'[v].there = user[v].there /\ user'[v].first = user[v].first
           /\ user'[v].ended = user[v].ended
           /\ user'[v].pw \in Nat /\ user[v].pw \in Nat /\ user[v].pw <= user'[v].pw
  BY <1>0, <1>1, <1>2, <1>5, <1>8, Constants DEF Types, Account
<1>10. Types' /\ Keys'
  BY <1>0, <1>7, <1>8, <1>9 DEF Types, Keys
<1>11. Sits /\ Fewer
  <2>1. req'[r].user = req[r].user
    BY <1>4, <1>7 DEF u
  <2>2. Sits
    BY <1>6, <1>7, <2>1 DEF Sits, At
  <2>3. Fewer
    BY <1>9 DEF Fewer, Inv, FirstInv
  <2>4. QED
    BY <2>2, <2>3
<1>12. PasswordInv'
  <2>1. \A v \in Users : user'[v].ended <= user'[v].pw
    BY <1>0, <1>9 DEF Inv, PasswordInv, Types, Account
  <2>2. ASSUME NEW q \in Requests, At(q, "sessions")', There(req[q].user)'
        PROVE  req'[q].pw <= user'[req'[q].user].pw
    <3>1. CASE q = r
      BY <1>4, <1>5, <1>6, <1>7, <1>8, <1>2, <3>1
    <3>2. CASE q # r
      <4>1. req'[q] = req[q] /\ At(q, "sessions") /\ There(req[q].user)
        BY <1>7, <1>9, <2>2, <3>2 DEF At, There
      <4>2. req[q].pw <= user[req[q].user].pw /\ req[q].pw \in Nat
        BY <1>0, <4>1, Constants DEF Inv, PasswordInv, Types, Work
      <4>3. QED
        BY <1>9, <4>1, <4>2 DEF There
    <3>3. QED
      BY <3>1, <3>2
  <2>3. \A s \in Sessions : sess'[s].state # "none" =>
          sess'[s].pw >= user'[sess'[s].user].ended \/ sess'[s].late
    BY <1>0, <1>9 DEF Inv, PasswordInv, Keys
  <2>4. QED
    BY <2>1, <2>2, <2>3 DEF PasswordInv
<1>13. QED
  BY <1>7, <1>10, <1>11, <1>12, InsertKept, FirstKept DEF Inv

\* The sessions end.  The change may be answered then; whatever is left that is not
\* late rests on its password, or on a later one.
LEMMA EndSessionsInv ==
  ASSUME Inv, NEW r \in Requests, EndSessions(r)
  PROVE  Inv'
<1> DEFINE u == req[r].user
           pw == req[r].pw
<1>0. Types /\ Keys /\ required' = required /\ Finish(r) /\ At(r, "sessions")
  BY DEF Inv, EndSessions
<1>1. pw \in 0..MaxPasswords
  BY <1>0 DEF Types, Work
<1>2. /\ req' \in [Requests -> Work] /\ Sits
      /\ \A q \in Requests : At(q, "sessions")' => req'[q] = req[q]
  BY <1>0, EndsQuiet
<1>3. ASSUME NEW s \in Sessions
      PROVE  /\ sess'[s] \in Session
             /\ sess'[s].state # "none" =>
                  /\ sess[s].state # "none" /\ sess'[s].user = sess[s].user
                  /\ sess'[s].pw >= sess[s].pw /\ (sess[s].late => sess'[s].late)
                  /\ sess[s].user = u => sess'[s].pw >= pw \/ sess'[s].late
  <2> DEFINE late == [sess[s] EXCEPT !.late = TRUE]
             rests == [sess[s] EXCEPT !.pw = pw]
  <2>1. sess[s] \in Session
    BY <1>0 DEF Types
  <2>2. /\ late \in Session /\ late.state = sess[s].state /\ late.user = sess[s].user
        /\ late.pw = sess[s].pw /\ late.late
    BY <2>1 DEF Session
  <2>3. /\ rests \in Session /\ rests.state = sess[s].state /\ rests.user = sess[s].user
        /\ rests.pw = pw /\ rests.late = sess[s].late
    BY <1>1, <2>1 DEF Session
  <2>4. sess'[s] = IF EndedBy(r, s) THEN NoSession
                  ELSE IF sess[s].state = "login" /\ sess[s].user = u /\ sess[s].pw < pw
                       THEN late
                  ELSE IF Open(s) /\ s = req[r].sid /\ sess[s].pw < pw THEN rests
                  ELSE sess[s]
    BY DEF EndSessions
  <2> HIDE DEF late, rests, pw
  <2>5. CASE sess'[s] = NoSession
    BY <2>5, Constants
  <2>6. CASE sess'[s] = late
    BY <2>1, <2>2, <2>6, Constants DEF Session
  <2>7. CASE sess'[s] = rests /\ sess[s].pw < pw
    BY <1>1, <2>1, <2>3, <2>7, Constants DEF Session
  <2>8. CASE /\ sess'[s] = sess[s] /\ ~EndedBy(r, s)
             /\ ~(sess[s].state = "login" /\ sess[s].user = u /\ sess[s].pw < pw)
             /\ ~(Open(s) /\ s = req[r].sid /\ sess[s].pw < pw)
    <3>1. sess[s].pw \in Nat /\ pw \in Nat /\ sess[s].state \in {"none", "login", "open"}
      BY <1>1, <2>1, Constants DEF Session
    <3>2. sess[s].user = u /\ sess[s].state # "none" => ~(sess[s].pw < pw)
      BY <2>8, <3>1 DEF EndedBy, Open
    <3>3. QED
      BY <2>1, <2>8, <3>1, <3>2
  <2>9. QED
    BY <2>4, <2>5, <2>6, <2>7, <2>8
<1>4. sess' \in [Sessions -> Session]
  <2>1. sess' = [s \in Sessions |-> sess'[s]]
    BY DEF EndSessions
  <2>2. QED
    BY <1>3, <2>1
<1>5. /\ chal' \in [Ids -> Challenge]
      /\ \A i \in Ids : chal'[i].there => chal'[i] = chal[i]
  <2>1. Drop({req[r].id}) \/ UNCHANGED chal
    BY DEF EndSessions
  <2>2. QED
    BY <1>0, <2>1, Dropping, Constants DEF Types
<1>6. There(u) => pw <= user[u].pw
  BY <1>0 DEF Inv, PasswordInv
<1>7. /\ user' \in [Users -> Account]
      /\ \A v \in Users :
           /\ user'[v].there = user[v].there /\ user'[v].first = user[v].first
           /\ user'[v].pw = user[v].pw
           /\ user'[v].ended = user[v].ended \/ (v = u /\ There(u) /\ user'[v].ended = pw)
  <2> DEFINE ended == IF There(u) /\ pw > user[u].ended THEN pw ELSE user[u].ended
             row == [user[u] EXCEPT !.ended = ended]
  <2>1. UNCHANGED user \/ user' = [user EXCEPT ![u] = row]
    BY DEF EndSessions
  <2> HIDE DEF pw
  <2>2. u \in Users =>
          /\ row \in Account /\ row.there = user[u].there /\ row.first = user[u].first
          /\ row.pw = user[u].pw /\ row.ended = ended
    BY <1>0, <1>1 DEF Types, Account
  <2> HIDE DEF row
  <2>3. ended = user[u].ended \/ (There(u) /\ ended = pw)
    OBVIOUS
  <2> HIDE DEF ended
  <2>4. There(u) => u \in Users
    BY DEF There
  <2>5. QED
    BY <1>0, <2>1, <2>2, <2>3, <2>4 DEF Types
<1> HIDE DEF u, pw
<1>8. Types' /\ Keys'
  BY <1>0, <1>2, <1>3, <1>4, <1>5, <1>7 DEF Types, Keys
<1>9. Fewer
  BY <1>7 DEF Fewer, Inv, FirstInv
<1>10. PasswordInv'
  <2>1. \A v \in Users : user'[v].ended <= user'[v].pw
    BY <1>6, <1>7 DEF Inv, PasswordInv
  <2>2. ASSUME NEW q \in Requests, At(q, "sessions")', There(req[q].user)'
        PROVE  req'[q].pw <= user'[req'[q].user].pw
    BY <1>2, <1>7, <2>2 DEF Inv, PasswordInv, At, There
  <2>3. ASSUME NEW s \in Sessions, sess'[s].state # "none"
        PROVE  sess'[s].pw >= user'[sess'[s].user].ended \/ sess'[s].late
    <3>1. /\ sess[s].state # "none" /\ sess'[s].user = sess[s].user
          /\ sess'[s].pw >= sess[s].pw /\ (sess[s].late => sess'[s].late)
          /\ sess[s].user = u => sess'[s].pw >= pw \/ sess'[s].late
      BY <1>3, <2>3
    <3>2. sess[s].user \in Users /\ (sess[s].pw >= user[sess[s].user].ended \/ sess[s].late)
      BY <1>0, <3>1 DEF Keys, Inv, PasswordInv
    <3>3. sess[s].pw \in Nat /\ sess'[s].pw \in Nat /\ user[sess[s].user].ended \in Nat
      BY <1>0, <1>4, <3>2, Constants DEF Types, Session, Account
    <3>4. QED
      BY <1>7, <3>1, <3>2, <3>3
  <2>4. QED
    BY <2>1, <2>2, <2>3 DEF PasswordInv
<1>11. QED
  BY <1>2, <1>8, <1>9, <1>10, InsertKept, FirstKept DEF Inv

\* A session or a login begins: it rests on the password that the account has.
LEMMA BeginsInv ==
  ASSUME Inv, NEW s \in Sessions, NEW u \in Users, There(u), NEW w \in Session,
         w.user = u, w.pw = user[u].pw, w.state # "none",
         sess' = [sess EXCEPT ![s] = w], UNCHANGED <<required, user, chal>>,
         req' = req \/ \E r \in Requests : Finish(r)
  PROVE  Inv'
<1>0. Types /\ Keys
  BY DEF Inv
<1>1. /\ req' \in [Requests -> Work] /\ Sits
      /\ \A q \in Requests : At(q, "sessions")' => req'[q] = req[q]
  BY <1>0, EndsQuiet, NobodyMoves
<1>2. /\ sess' \in [Sessions -> Session] /\ sess'[s] = w
      /\ \A t \in Sessions \ {s} : sess'[t] = sess[t]
  BY <1>0 DEF Types
<1>3. Types' /\ Keys' /\ Fewer
  BY <1>0, <1>1, <1>2 DEF Inv, Types, Keys, There, Fewer, FirstInv
<1>4. PasswordInv'
  <2>1. \A q \in Requests : (At(q, "sessions") /\ There(req[q].user))' =>
          req'[q].pw <= user'[req'[q].user].pw
    BY <1>1 DEF Inv, PasswordInv, At, There
  <2>2. user[u].pw \in Nat /\ user[u].ended \in Nat /\ user[u].ended <= user[u].pw
    BY <1>0, Constants DEF Types, Account, Inv, PasswordInv
  <2>3. \A t \in Sessions : sess'[t].state # "none" =>
          sess'[t].pw >= user'[sess'[t].user].ended \/ sess'[t].late
    BY <1>2, <2>2 DEF Inv, PasswordInv
  <2>4. QED
    BY <2>1, <2>3 DEF Inv, PasswordInv
<1>5. QED
  BY <1>1, <1>3, <1>4, InsertKept, FirstKept DEF Inv

Began(state, u, pw) == [state |-> state, user |-> u, pw |-> pw, late |-> FALSE]
LEMMA BeganSession ==
  ASSUME Types, NEW u \in Users, NEW state \in {"login", "open"}
  PROVE  /\ Began(state, u, user[u].pw) \in Session
         /\ Began(state, u, user[u].pw).state # "none"
         /\ Began(state, u, user[u].pw).user = u
         /\ Began(state, u, user[u].pw).pw = user[u].pw
BY DEF Types, Account, Session, Began

\* A session is what it was, or has ended.
LEMMA SessionKept ==
  ASSUME Inv, UNCHANGED <<required, user, chal, req>>, sess' \in [Sessions -> Session],
         \A s \in Sessions : sess'[s].state # "none" =>
           sess[s].state # "none" /\ sess'[s].user = sess[s].user
           /\ sess'[s].pw = sess[s].pw /\ sess'[s].late = sess[s].late
  PROVE  Inv'
<1>0. Types /\ Keys
  BY DEF Inv
<1>1. /\ req' \in [Requests -> Work] /\ Sits
      /\ \A q \in Requests : At(q, "sessions")' => req'[q] = req[q]
  BY <1>0, NobodyMoves
<1>2. Types' /\ Keys' /\ Fewer
  BY <1>0, <1>1 DEF Inv, Types, Keys, Fewer, FirstInv
<1>3. PasswordInv'
  BY <1>0, <1>1, <1>2, PasswordKept DEF Inv, PasswordInv
<1>4. QED
  BY <1>1, <1>2, <1>3, InsertKept, FirstKept DEF Inv

LEMMA SessionsInv ==
  ASSUME Inv,
         \/ \E r \in Requests : CreateSession(r)
         \/ \E s \in Sessions : \/ OpenSession(s) \/ CloseSession(s)
                                \/ \E u \in Users : Login(s, u)
  PROVE  Inv'
<1>0. Types
  BY DEF Inv
<1>1. ASSUME NEW r \in Requests, CreateSession(r) PROVE Inv'
  <2> DEFINE u == req[r].user
  <2>1. u \in Users /\ There(u) /\ Finish(r) /\ UNCHANGED <<required, user, chal>>
    BY <1>1 DEF CreateSession, There
  <2>2. PICK s \in Sessions : sess' = [sess EXCEPT ![s] = Began("open", u, user[u].pw)]
    BY <1>1 DEF CreateSession, Began
  <2> HIDE DEF u
  <2>3. QED
    BY <1>0, <2>1, <2>2, BeganSession, BeginsInv
<1>2. ASSUME NEW s \in Sessions, NEW u \in Users, Login(s, u) PROVE Inv'
  <2>1. /\ There(u) /\ UNCHANGED <<required, user, chal, req>>
        /\ sess' = [sess EXCEPT ![s] = Began("login", u, user[u].pw)]
    BY <1>2 DEF Login, Began
  <2>2. QED
    BY <1>0, <2>1, BeganSession, BeginsInv
<1>3. ASSUME NEW s \in Sessions, NEW w \in Session, sess' = [sess EXCEPT ![s] = w],
             UNCHANGED <<required, user, chal, req>>,
             w.state # "none" =>
               sess[s].state # "none" /\ w.user = sess[s].user
               /\ w.pw = sess[s].pw /\ w.late = sess[s].late
      PROVE  Inv'
  <2>1. /\ sess' \in [Sessions -> Session] /\ sess'[s] = w
        /\ \A t \in Sessions \ {s} : sess'[t] = sess[t]
    BY <1>0, <1>3 DEF Types
  <2>2. QED
    BY <1>3, <2>1, SessionKept
<1>4. ASSUME NEW s \in Sessions, OpenSession(s) PROVE Inv'
  <2> DEFINE w == [sess[s] EXCEPT !.state = "open"]
  <2>1. sess[s] \in Session /\ sess[s].state = "login"
    BY <1>0, <1>4 DEF Types, OpenSession
  <2>2. w \in Session /\ w.user = sess[s].user /\ w.pw = sess[s].pw /\ w.late = sess[s].late
    BY <2>1 DEF Session
  <2>3. sess' = [sess EXCEPT ![s] = w] /\ UNCHANGED <<required, user, chal, req>>
    BY <1>4 DEF OpenSession
  <2> HIDE DEF w
  <2>4. QED
    BY <1>3, <2>1, <2>2, <2>3
<1>5. ASSUME NEW s \in Sessions, CloseSession(s) PROVE Inv'
  BY <1>3, <1>5, Constants DEF CloseSession
<1>6. QED
  BY <1>1, <1>2, <1>4, <1>5

LEMMA StepInv == Inv /\ [Next]_vars => Inv'
<1> SUFFICES ASSUME Inv, [Next]_vars PROVE Inv'
  OBVIOUS
<1>1. ASSUME NEW r \in Requests, Handle(r) PROVE Inv'
  BY <1>1, SignupInv, InsertUserInv, ChallengeInv, RemoveInv, CheckSignupInv, UpdateInv,
     EndSessionsInv, SessionsInv DEF Handle
<1>2. ASSUME UNCHANGED vars PROVE Inv'
  <2>1. Types /\ chal' \in [Ids -> Challenge] /\ UNCHANGED <<required, user, chal, sess, req>>
    BY <1>2 DEF Inv, Types, vars
  <2>2. QED
    BY <2>1, NobodyMoves, QuietInv
<1>3. QED
  BY <1>1, <1>2, BreakInv, ReadInv, SessionsInv, ChallengeInv, RemoveInv DEF Next
-------------------------------------------------------------------------------
\* The rows of the database and the handlers' variables have their types, and no
\* challenge or session outlives its account (ON DELETE CASCADE in src/db.js).
THEOREM TypeCorrect == Spec => []TypeOK
<1>1. Inv => TypeOK
  BY InvShows
<1>2. QED
  BY <1>1, InitInv, StepInv, PTL DEF Spec

\* However changes of a password, resets and logins overlap (routes/account.js): once
\* a change has been answered, only logins whose old password had been checked
\* before the sessions were deleted may still rest on an older one.
THEOREM ResetsEndSessions == Spec => []ResetEndsSessions
<1>1. Inv => ResetEndsSessions
  BY InvShows
<1>2. QED
  BY <1>1, InitInv, StepInv, PTL DEF Spec

\* However signups, failures of the mail and deletions follow one another: of the
\* accounts there are, at most one was approved as the first of the instance.
THEOREM FirstAlone == Spec => []FirstApproved
<1>1. Inv => FirstApproved
  BY InvShows
<1>2. QED
  BY <1>1, InitInv, StepInv, PTL DEF Spec
================================================================================
