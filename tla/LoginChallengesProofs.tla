------------------------ MODULE LoginChallengesProofs ------------------------
(***************************************************************************)
(* Proofs about LoginChallenges, for any number of handlers, challenges,   *)
(* attempts, resends, secrets and time steps.                              *)
(***************************************************************************)
EXTENDS LoginChallenges, FiniteSetTheorems, TLAPS

User == [there : BOOLEAN, secret : 0..Secrets, pending : 0..Secrets, last : 0..Counters]
Row == [row : {"none", "live", "expired", "gone"}, purpose : Purposes,
        method : Methods, code : Nat, attempts : Nat, resends : Nat,
        known : BOOLEAN, mails : Nat, wrong : Nat]
Work == [pc : {"idle", "mail", "check", "counter", "session", "send", "store", "erase",
               "enable"},
         id : Ids \cup {NoId}, op : {"login", "link", "account_delete"},
         method : Methods, code : Nat, secret : 0..Secrets, counter : 0..Counters,
         alone : BOOLEAN]

\* The types, and where a handler holds a challenge or a secret.
Types ==
  /\ user \in User /\ drawn \in 0..Secrets
  /\ chal \in [Ids -> Row] /\ req \in [Requests -> Work]
  /\ opened \subseteq Ids /\ enabled \subseteq 1..Secrets
  /\ used \subseteq (1..Secrets) \X (1..Counters) /\ overlap \in BOOLEAN
  /\ ~user.there => \A i \in Ids : ~Stored(i)
Places ==
  /\ \A r \in Requests : req[r].pc \notin {"idle", "enable"} => req[r].id \in Ids
  /\ \A r \in Requests : req[r].pc = "enable" => req[r].secret > 0
  /\ \A r \in Requests : req[r].pc = "counter" => req[r].secret > 0 /\ req[r].counter > 0
  /\ \A r \in Requests : req[r].pc = "session" /\ req[r].secret > 0 => req[r].counter > 0

\* The constants.
LEMMA Bounds ==
  /\ MaxAttempts \in Nat /\ Resends \in Nat /\ MaxMails \in Nat /\ Counters \in Nat /\ Secrets \in Nat
  /\ MaxAttempts > 0 /\ IsFiniteSet(Requests) /\ NoId \notin Ids
BY ChallengesAssumption

\* The types of the model.
LEMMA TypesMeans == Types => TypeOK
BY DEF Types, TypeOK, User, Row, Work, Stored

\* An idle handler, a new user, no challenge and one that has gone are of their types.
LEMMA Constants ==
  /\ NewUser \in User /\ Idle \in Work /\ NoChallenge \in Row /\ Gone \in Row
  /\ Gone.row = "gone" /\ NoChallenge.row = "none"
<1>1. 0 \in 0..Secrets /\ 0 \in 0..Counters
  BY Bounds
<1>2. NewUser \in User
  BY <1>1 DEF NewUser, User
<1>3. Idle \in Work
  BY <1>1 DEF Idle, Work, Methods
<1>4. NoChallenge \in Row
  BY DEF NoChallenge, Row, Methods, Purposes
<1>5. Gone \in Row
  BY <1>4 DEF NoChallenge, Gone, Row
<1>6. Gone.row = "gone" /\ NoChallenge.row = "none"
  BY DEF NoChallenge, Gone
<1>7. QED
  BY <1>2, <1>3, <1>4, <1>5, <1>6

\* A row changes by its id.
LEMMA Changing ==
  ASSUME Types, NEW i \in Ids, NEW row \in Row, Change(i, row)
  PROVE  /\ chal' \in [Ids -> Row]
         /\ \A j \in Ids : chal'[j] = IF j = i /\ Stored(i) THEN row ELSE chal[j]
BY DEF Types, Change

\* The types and places, at first.
LEMMA InitTypes == Init => Types /\ Places
<1> SUFFICES ASSUME Init PROVE Types /\ Places
  OBVIOUS
<1>1. user \in User /\ drawn \in 0..Secrets
  BY Constants, Bounds DEF Init
<1>2. chal \in [Ids -> Row] /\ req \in [Requests -> Work]
  BY Constants DEF Init
<1>3. user.there /\ Places
  BY DEF Init, NewUser, Places, Idle
<1>4. QED
  BY <1>1, <1>2, <1>3 DEF Init, Types

\* A handler goes on to w.
LEMMA Going ==
  ASSUME Types, NEW r \in Requests, NEW w \in Work, req' = [req EXCEPT ![r] = w]
  PROVE  /\ req' \in [Requests -> Work]
         /\ \A q \in Requests : req'[q] = IF q = r THEN w ELSE req[q]
BY DEF Types

\* A handler ends.
LEMMA Finishing ==
  ASSUME Types, NEW r \in Requests, Finish(r)
  PROVE  /\ req' \in [Requests -> Work]
         /\ \A q \in Requests : req'[q] = IF q = r THEN Idle ELSE req[q]
BY Going, Constants DEF Finish

\* What is well placed, and goes on to w.
Well(w) ==
  /\ w.pc \notin {"idle", "enable"} => w.id \in Ids
  /\ w.pc = "enable" => w.secret > 0
  /\ w.pc = "counter" => w.secret > 0 /\ w.counter > 0
  /\ w.pc = "session" /\ w.secret > 0 => w.counter > 0

\* A handler goes on to a place where it holds what it needs.
LEMMA GoingWell ==
  ASSUME Types, Places, NEW r \in Requests, NEW w \in Work, Well(w), req' = [req EXCEPT ![r] = w]
  PROVE  req' \in [Requests -> Work] /\ Places'
BY Going DEF Places, Well

\* A handler that ends holds nothing.
LEMMA FinishingWell ==
  ASSUME Types, Places, NEW r \in Requests, Finish(r)
  PROVE  req' \in [Requests -> Work] /\ Places'
<1>1. Idle \in Work /\ Well(Idle)
  BY Constants DEF Idle, Well
<1>2. QED
  BY <1>1, GoingWell DEF Finish

\* Nothing changes but the rows and the handlers.
LEMMA RowsTypes ==
  ASSUME Types, chal' \in [Ids -> Row], req' \in [Requests -> Work],
         UNCHANGED <<user, drawn, opened, enabled, used, overlap>>,
         user.there \/ \A j \in Ids : chal[j].row \in {"none", "gone"} => chal'[j] = chal[j]
  PROVE  Types'
BY DEF Types, Stored, Row

\* A challenge is inserted.
LEMMA InsertTypes ==
  ASSUME Types, Places, NEW r \in Requests, InsertChallenge(r)
  PROVE  Types' /\ Places'
<1>1. PICK i \in Ids, purpose \in Purposes,
            method \in {"email"} \cup (IF enabled = {} THEN {} ELSE {"totp"}) :
    /\ At(r, "idle") /\ user.there /\ chal[i].row = "none"
    /\ chal' = [chal EXCEPT ![i] = [NoChallenge EXCEPT !.row = "live",
         !.purpose = purpose, !.method = method,
         !.code = IF method = "email" THEN 1 ELSE 0, !.known = method = "totp"]]
    /\ IF method = "email"
       THEN req' = [req EXCEPT ![r] = [Idle EXCEPT !.pc = "mail", !.id = i]]
       ELSE Finish(r)
    /\ UNCHANGED <<user, drawn, opened, enabled, used, overlap>>
  BY DEF InsertChallenge
<1> method \in Methods
  BY DEF Methods
<1>2. [NoChallenge EXCEPT !.row = "live",
         !.purpose = purpose, !.method = method,
         !.code = IF method = "email" THEN 1 ELSE 0, !.known = method = "totp"] \in Row
  <2>1. PICK code \in Nat : code = IF method = "email" THEN 1 ELSE 0
    OBVIOUS
  <2>2. PICK known \in BOOLEAN : known = (method = "totp")
    OBVIOUS
  <2>3. [NoChallenge EXCEPT !.row = "live", !.purpose = purpose, !.method = method,
                            !.code = code, !.known = known] \in Row
    BY DEF NoChallenge, Row
  <2>4. QED
    BY <2>1, <2>2, <2>3
<1>3. [Idle EXCEPT !.pc = "mail", !.id = i] \in Work /\ Well([Idle EXCEPT !.pc = "mail", !.id = i])
  BY Constants DEF Work, Well
<1>4. chal' \in [Ids -> Row]
  BY <1>1, <1>2 DEF Types
<1>5. req' \in [Requests -> Work] /\ Places'
  BY <1>1, <1>3, GoingWell, FinishingWell
<1>6. QED
  BY <1>1, <1>4, <1>5, RowsTypes

\* What becomes of a row is a row.
LEMMA Rows ==
  ASSUME NEW x \in Row, NEW c \in Nat
  PROVE  /\ [x EXCEPT !.mails = @ + 1] \in Row
         /\ [x EXCEPT !.mails = @ + 1, !.known = TRUE] \in Row
         /\ [x EXCEPT !.attempts = @ + 1, !.wrong = @ + 1] \in Row
         /\ [x EXCEPT !.code = c, !.row = "live", !.resends = @ + 1] \in Row
<1>1. x.mails + 1 \in Nat /\ x.attempts + 1 \in Nat /\ x.wrong + 1 \in Nat /\ x.resends + 1 \in Nat
  BY DEF Row
<1>2. [x EXCEPT !.mails = @ + 1] \in Row
  BY <1>1 DEF Row
<1>3. [x EXCEPT !.mails = @ + 1, !.known = TRUE] \in Row
  BY <1>1 DEF Row
<1>4. [x EXCEPT !.attempts = @ + 1, !.wrong = @ + 1] \in Row
  BY <1>1 DEF Row
<1>5. [x EXCEPT !.code = c, !.row = "live", !.resends = @ + 1] \in Row
  BY <1>1 DEF Row
<1>6. QED
  BY <1>2, <1>3, <1>4, <1>5

\* A handler changes or deletes its row and ends.
LEMMA MailTypes ==
  ASSUME Types, Places, NEW r \in Requests, MailCode(r) \/ MailFails(r) \/ CheckWrong(r) \/ Store(r)
                                           \/ EraseFails(r)
  PROVE  Types' /\ Places'
<1> DEFINE i == req[r].id
<1>1. i \in Ids /\ req[r] \in Work /\ chal[i] \in Row
  BY DEF MailCode, MailFails, CheckWrong, Store, EraseFails, At, Places, Types
<1>2. Finish(r) /\ UNCHANGED <<user, drawn, opened, enabled, used, overlap>>
  BY DEF MailCode, MailFails, CheckWrong, Store, EraseFails
<1>3. chal' = chal \/ \E row \in Row : Change(i, row)
  <2>1. CASE MailCode(r)
    <3>1. [chal[i] EXCEPT !.mails = @ + 1, !.known = TRUE] \in Row
      BY <1>1, Rows
    <3>2. Change(i, [chal[i] EXCEPT !.mails = @ + 1, !.known = TRUE])
      BY <2>1 DEF MailCode
    <3>3. QED
      BY <3>1, <3>2
  <2>2. CASE MailFails(r) \/ EraseFails(r)
    BY <2>2, Constants DEF MailFails, EraseFails, Delete
  <2>3. CASE CheckWrong(r)
    <3>1. [chal[i] EXCEPT !.attempts = @ + 1, !.wrong = @ + 1] \in Row
      BY <1>1, Rows
    <3>2. chal' = chal \/ Change(i, [chal[i] EXCEPT !.attempts = @ + 1, !.wrong = @ + 1])
      BY <2>3 DEF CheckWrong
    <3>3. QED
      BY <3>1, <3>2
  <2>4. CASE Store(r)
    <3>1. [chal[i] EXCEPT !.code = req[r].code, !.row = "live", !.resends = @ + 1] \in Row
      BY <1>1, Rows DEF Work
    <3>2. Change(i, [chal[i] EXCEPT !.code = req[r].code, !.row = "live", !.resends = @ + 1])
      BY <2>4 DEF Store
    <3>3. QED
      BY <3>1, <3>2
  <2>5. QED
    BY <2>1, <2>2, <2>3, <2>4
<1>4. chal' \in [Ids -> Row] /\ \A j \in Ids : chal[j].row \in {"none", "gone"} => chal'[j] = chal[j]
  BY <1>1, <1>3, Changing DEF Types, Stored
<1>5. req' \in [Requests -> Work] /\ Places'
  BY <1>2, FinishingWell
<1>6. QED
  BY <1>2, <1>4, <1>5, RowsTypes

\* A handler that goes on to another place with its challenge.
LEMMA ReadTypes ==
  ASSUME Types, Places, NEW r \in Requests, NEW i \in Ids, NEW op \in {"login", "link", "account_delete"},
         NEW pc \in {"check", "send"}, Read(r, i, op, pc)
  PROVE  Types' /\ Places'
<1> DEFINE others == {q \in Requests \ {r} : Holds(q, i)}
           copy == [Idle EXCEPT !.pc = pc, !.id = i, !.op = op, !.alone = others = {},
                      !.method = chal[i].method, !.code = chal[i].code]
<1>1. req' = [q \in Requests |-> IF q = r THEN copy
                ELSE IF q \in others THEN [req[q] EXCEPT !.alone = FALSE] ELSE req[q]]
  BY DEF Read
<1>2. copy \in Work /\ copy.pc = pc /\ copy.id = i
  <2>1. PICK alone \in BOOLEAN : alone = (others = {})
    OBVIOUS
  <2>2. [Idle EXCEPT !.pc = pc, !.id = i, !.op = op, !.alone = alone,
                     !.method = chal[i].method, !.code = chal[i].code] \in Work
    BY Constants DEF Work, Types, Row
  <2>3. QED
    BY <2>1, <2>2 DEF Idle
<1>3. \A q \in Requests : /\ req[q] \in Work /\ [req[q] EXCEPT !.alone = FALSE] \in Work
                          /\ [req[q] EXCEPT !.alone = FALSE].pc = req[q].pc
                          /\ [req[q] EXCEPT !.alone = FALSE].id = req[q].id
                          /\ [req[q] EXCEPT !.alone = FALSE].secret = req[q].secret
                          /\ [req[q] EXCEPT !.alone = FALSE].counter = req[q].counter
  BY DEF Types, Work
<1> HIDE DEF others, copy
<1>4. req' \in [Requests -> Work]
  BY <1>1, <1>2, <1>3
<1>5. Places'
  <2>1. \A q \in Requests : \/ q = r /\ req'[q].pc = pc /\ req'[q].id = i
                            \/ /\ req'[q].pc = req[q].pc /\ req'[q].id = req[q].id
                               /\ req'[q].secret = req[q].secret /\ req'[q].counter = req[q].counter
    BY <1>1, <1>2, <1>3
  <2>2. QED
    BY <2>1 DEF Places
<1>6. UNCHANGED <<user, drawn, chal, opened, enabled, used, overlap>>
  BY DEF Read
<1>7. QED
  BY <1>4, <1>5, <1>6 DEF Types, Stored

\* A handler reads a challenge.
LEMMA LookTypes ==
  ASSUME Types, Places, NEW r \in Requests, Look(r)
  PROVE  Types' /\ Places'
BY ReadTypes DEF Look, ReadLogin, ReadLink, ReadDeletion, ReadResend

\* A right code: the handler goes on, and its row goes unless the account is to go.
LEMMA Redeeming ==
  ASSUME Types, Places, NEW r \in Requests, At(r, "check"), NEW pc \in {"session", "counter"},
         NEW s \in 0..Secrets, NEW c \in 0..Counters, Redeem(r, pc, s, c),
         pc = "counter" => s > 0 /\ c > 0, s > 0 => c > 0
  PROVE  /\ chal' \in [Ids -> Row] /\ req' \in [Requests -> Work] /\ Places'
         /\ \A j \in Ids : chal'[j] = chal[j] \/ (Stored(j) /\ chal'[j] = Gone)
         /\ \E w \in Work :
              /\ req' = [req EXCEPT ![r] = w]
              /\ w.id = req[r].id /\ w.alone = req[r].alone /\ w.secret = s /\ w.counter = c
              /\ (w.pc = pc /\ ~Stored(w.id)') \/ w.pc = "erase"
<1> DEFINE i == req[r].id
<1>1. i \in Ids /\ req[r] \in Work
  BY DEF Places, Types, At
<1>2. PICK to \in {pc, "erase"} :
        /\ req' = [req EXCEPT ![r] = [Local(r, to) EXCEPT !.secret = s, !.counter = c]]
        /\ to = "erase" \/ (to = pc /\ req[r].op # "account_delete")
  BY DEF Redeem
<1>3. PICK w \in Work :
        /\ w = [Local(r, to) EXCEPT !.secret = s, !.counter = c]
        /\ w.id = i /\ w.alone = req[r].alone /\ w.secret = s /\ w.counter = c /\ w.pc = to
  <2>1. Local(r, to) \in Work
    BY <1>1, Constants DEF Local, Work
  <2>2. [Local(r, to) EXCEPT !.secret = s, !.counter = c] \in Work
    BY <2>1 DEF Work
  <2>3. QED
    BY <2>2 DEF Local, Idle
<1>4. Well(w)
  BY <1>1, <1>3 DEF Well
<1>5. req' \in [Requests -> Work] /\ Places'
  BY <1>2, <1>3, <1>4, GoingWell
<1>6. CASE req[r].op = "account_delete"
  <2>1. chal' = chal /\ to = "erase"
    BY <1>2, <1>6 DEF Redeem, Consume
  <2>2. QED
    BY <1>2, <1>3, <1>5, <2>1 DEF Types
<1>7. CASE req[r].op # "account_delete"
  <2>1. Change(i, Gone)
    BY <1>7 DEF Redeem, Consume, Delete
  <2>2. chal' \in [Ids -> Row] /\ \A j \in Ids : chal'[j] = IF j = i /\ Stored(i) THEN Gone ELSE chal[j]
    BY <1>1, <2>1, Changing, Constants
  <2>3. chal'[i].row \notin {"live", "expired"}
    BY <1>1, <2>2, Constants DEF Stored
  <2>4. ~Stored(w.id)'
    BY <1>3, <2>3 DEF Stored
  <2>5. QED
    BY <1>2, <1>3, <1>5, <2>2, <2>4
<1>8. QED
  BY <1>6, <1>7

\* A right code, mailed or of the authenticator.
LEMMA CheckTypes ==
  ASSUME Types, Places, NEW r \in Requests, CheckMailed(r) \/ CheckTotp(r)
  PROVE  Types' /\ Places'
<1>1. CASE CheckMailed(r)
  <2>1. /\ chal' \in [Ids -> Row] /\ req' \in [Requests -> Work] /\ Places'
        /\ \A j \in Ids : chal'[j] = chal[j] \/ (Stored(j) /\ chal'[j] = Gone)
    BY <1>1, Redeeming, Bounds DEF CheckMailed
  <2>2. QED
    BY <1>1, <2>1, RowsTypes DEF CheckMailed, Stored
<1>2. CASE CheckTotp(r)
  <2>1. PICK c \in 1..Counters : Fresh(c) /\ Redeem(r, "counter", user.secret, c)
    BY <1>2 DEF CheckTotp
  <2>2. c \in 0..Counters /\ c > 0 /\ user.secret \in 0..Secrets /\ user.secret > 0 /\ At(r, "check")
    BY <1>2, Bounds DEF CheckTotp, Types, User
  <2>3. /\ chal' \in [Ids -> Row] /\ req' \in [Requests -> Work] /\ Places'
    BY <2>1, <2>2, Redeeming
  <2>4. /\ UNCHANGED <<user, drawn, opened, enabled, used>> /\ user.there
        /\ overlap' = (overlap \/ \E q \in Requests \ {r} : At(q, "counter"))
    BY <1>2 DEF CheckTotp
  <2>5. overlap' \in BOOLEAN
    BY <2>4
  <2>6. QED
    BY <2>3, <2>4, <2>5 DEF Types
<1>3. QED
  BY <1>1, <1>2

\* A counter is recorded, a session is opened.
LEMMA UseTypes ==
  ASSUME Types, Places, NEW r \in Requests, UpdateCounter(r) \/ CreateSession(r)
  PROVE  Types' /\ Places'
<1>1. req[r] \in Work /\ req[r].id \in Ids
  BY DEF Types, Places, UpdateCounter, CreateSession, At
<1>2. CASE UpdateCounter(r)
  <2>1. [req[r] EXCEPT !.pc = "session"] \in Work /\ Well([req[r] EXCEPT !.pc = "session"])
    BY <1>1, <1>2 DEF Work, Well, Places, UpdateCounter, At
  <2>2. req' = [req EXCEPT ![r] = [req[r] EXCEPT !.pc = "session"]]
    BY <1>2 DEF UpdateCounter, Types
  <2>3. req' \in [Requests -> Work] /\ Places'
    BY <2>1, <2>2, GoingWell
  <2>4. user' \in User /\ user.there
    BY <1>1, <1>2 DEF UpdateCounter, Types, User, Work
  <2>5. QED
    BY <1>2, <2>3, <2>4 DEF UpdateCounter, Types, User, Stored
<1>3. CASE CreateSession(r)
  <2>1. req' \in [Requests -> Work] /\ Places'
    BY <1>3, FinishingWell DEF CreateSession
  <2>2. opened' \subseteq Ids
    BY <1>1, <1>3 DEF CreateSession, Types
  <2>3. used' \subseteq (1..Secrets) \X (1..Counters)
    <3>1. CASE req[r].secret > 0 /\ ~overlap
      <4>1. req[r].secret \in 1..Secrets /\ req[r].counter \in 1..Counters
        BY <1>1, <1>3, <3>1, Bounds DEF CreateSession, Places, At, Work
      <4>2. QED
        BY <1>3, <3>1, <4>1 DEF CreateSession, Types
    <3>2. CASE ~(req[r].secret > 0 /\ ~overlap)
      BY <1>3, <3>2 DEF CreateSession, Types
    <3>3. QED
      BY <3>1, <3>2
  <2>4. UNCHANGED <<user, drawn, chal, enabled, overlap>>
    BY <1>3 DEF CreateSession
  <2>5. QED
    BY <2>1, <2>2, <2>3, <2>4 DEF Types, Stored
<1>4. QED
  BY <1>2, <1>3

\* A mail is sent again, a handler ends, an enrolment is confirmed.
LEMMA SendTypes ==
  ASSUME Types, Places, NEW r \in Requests, Send(r) \/ EraseRefused(r) \/ ConfirmTotp(r) \/ Break(r)
  PROVE  Types' /\ Places'
<1>1. req[r] \in Work /\ UNCHANGED <<user, drawn, opened, enabled, used, overlap>>
  BY DEF Types, Send, EraseRefused, ConfirmTotp, Break
<1>2. CASE Send(r)
  <2> DEFINE i == req[r].id
  <2>1. i \in Ids /\ chal[i] \in Row
    BY <1>2 DEF Send, At, Places, Types
  <2>2. [chal[i] EXCEPT !.mails = @ + 1] \in Row /\ Change(i, [chal[i] EXCEPT !.mails = @ + 1])
    BY <1>2, <2>1, Rows DEF Send
  <2>3. chal' \in [Ids -> Row]
    BY <2>1, <2>2, Changing
  <2>4. PICK c \in Nat : c = chal[i].mails + 1
    BY <2>1 DEF Row
  <2>5. /\ [req[r] EXCEPT !.pc = "store", !.code = c] \in Work
        /\ Well([req[r] EXCEPT !.pc = "store", !.code = c])
    BY <1>1, <2>1 DEF Work, Well
  <2>6. req' = [req EXCEPT ![r] = [req[r] EXCEPT !.pc = "store", !.code = c]]
    BY <1>2, <2>4 DEF Send, Types, Work
  <2>7. req' \in [Requests -> Work] /\ Places'
    BY <2>5, <2>6, GoingWell
  <2>8. QED
    BY <1>1, <1>2, <2>3, <2>7, RowsTypes DEF Send
<1>3. CASE EraseRefused(r) \/ Break(r)
  <2>1. req' \in [Requests -> Work] /\ Places' /\ chal' = chal
    BY <1>3, FinishingWell DEF EraseRefused, Break
  <2>2. QED
    BY <1>1, <2>1 DEF Types, Stored
<1>4. CASE ConfirmTotp(r)
  <2>1. user.pending \in 0..Secrets /\ user.pending > 0 /\ chal' = chal
    BY <1>4 DEF ConfirmTotp, Types, User
  <2>2. /\ [req[r] EXCEPT !.pc = "enable", !.secret = user.pending] \in Work
        /\ Well([req[r] EXCEPT !.pc = "enable", !.secret = user.pending])
    BY <1>1, <2>1 DEF Work, Well
  <2>3. req' = [req EXCEPT ![r] = [req[r] EXCEPT !.pc = "enable", !.secret = user.pending]]
    BY <1>4 DEF ConfirmTotp, Types, Work
  <2>4. req' \in [Requests -> Work] /\ Places'
    BY <2>2, <2>3, GoingWell
  <2>5. QED
    BY <1>1, <2>1, <2>4 DEF Types, Stored
<1>5. QED
  BY <1>2, <1>3, <1>4

\* The user changes.
LEMMA UserTypes ==
  ASSUME Types, Places, (\E r \in Requests : Erase(r) \/ EnableTotp(r)) \/ StartTotp \/ DisableTotp
  PROVE  Types' /\ Places'
<1>1. ASSUME NEW r \in Requests, Erase(r) PROVE Types' /\ Places'
  <2>1. req' \in [Requests -> Work] /\ Places'
    BY <1>1, FinishingWell DEF Erase
  <2>2. user' \in User
    BY <1>1, Constants DEF Erase, User
  <2>3. chal' \in [Ids -> Row] /\ \A i \in Ids : ~Stored(i)'
    BY <1>1, Constants DEF Erase, Types, Stored
  <2>4. QED
    BY <1>1, <2>1, <2>2, <2>3 DEF Erase, Types
<1>2. ASSUME NEW r \in Requests, EnableTotp(r) PROVE Types' /\ Places'
  <2>1. req[r] \in Work /\ req[r].secret > 0
    BY <1>2 DEF EnableTotp, At, Types, Places
  <2>2. req[r].secret \in 1..Secrets /\ req[r].secret \in 0..Secrets /\ 0 \in 0..Secrets /\ 0 \in 0..Counters
    BY <2>1, Bounds DEF Work
  <2>3. req' \in [Requests -> Work] /\ Places'
    BY <1>2, FinishingWell DEF EnableTotp
  <2>4. user' = [user EXCEPT !.secret = req[r].secret, !.pending = 0, !.last = 0] /\ user.there /\ user \in User
    BY <1>2 DEF EnableTotp, Types
  <2>5. user' \in User
    BY <2>2, <2>4 DEF User
  <2>6. enabled' \subseteq 1..Secrets /\ overlap' \in BOOLEAN
    BY <1>2, <2>2 DEF EnableTotp, Types
  <2>7. user'.there
    BY <2>4 DEF User
  <2>8. QED
    BY <1>2, <2>3, <2>5, <2>6, <2>7 DEF EnableTotp, Types
<1>3. CASE StartTotp
  <2>1. drawn' \in 0..Secrets /\ user' \in User /\ user'.there
    BY <1>3, Bounds DEF StartTotp, Types, User
  <2>2. QED
    BY <1>3, <2>1 DEF StartTotp, Types, Places
<1>4. CASE DisableTotp
  BY <1>4, Constants DEF DisableTotp, Types, Places, NewUser
<1>5. QED
  BY <1>1, <1>2, <1>3, <1>4

\* A row changes by itself.
LEMMA RowTypes ==
  ASSUME Types, Places, NEW i \in Ids, Discard(i) \/ Expire(i) \/ Sweep(i)
  PROVE  Types' /\ Places'
<1>1. UNCHANGED <<user, drawn, req, opened, enabled, used, overlap>>
  BY DEF Discard, Expire, Sweep
<1>2. chal' \in [Ids -> Row] /\ \A j \in Ids : chal[j].row \in {"none", "gone"} => chal'[j] = chal[j]
  <2>1. CASE Discard(i) \/ Sweep(i)
    BY <2>1, Changing, Constants DEF Discard, Sweep, Delete, Stored
  <2>2. CASE Expire(i)
    <3>1. [chal[i] EXCEPT !.row = "expired"] \in Row
      BY DEF Types, Row
    <3>2. chal' = [chal EXCEPT ![i] = [chal[i] EXCEPT !.row = "expired"]] /\ chal[i].row = "live"
      BY <2>2 DEF Expire, Types
    <3>3. QED
      BY <3>1, <3>2 DEF Types
  <2>3. QED
    BY <2>1, <2>2
<1>3. QED
  BY <1>1, <1>2, RowsTypes DEF Types, Places

\* Every step keeps types and places.
LEMMA NextTypes == Types /\ Places /\ [Next]_vars => Types' /\ Places'
<1> SUFFICES ASSUME Types, Places, [Next]_vars PROVE Types' /\ Places'
  OBVIOUS
<1>1. ASSUME NEW r \in Requests, Look(r) \/ Handle(r) \/ Break(r) PROVE Types' /\ Places'
  BY <1>1, LookTypes, InsertTypes, MailTypes, CheckTypes, UseTypes, SendTypes, UserTypes DEF Handle
<1>2. ASSUME NEW i \in Ids, Discard(i) \/ Expire(i) \/ Sweep(i) PROVE Types' /\ Places'
  BY <1>2, RowTypes
<1>3. CASE UNCHANGED vars
  BY <1>3 DEF vars, Types, Places, Stored
<1>4. QED
  BY <1>1, <1>2, <1>3, UserTypes DEF Next

\* Types and places, in every state.
LEMMA TypesHold == Spec => [](Types /\ Places)
<1>1. QED
  BY InitTypes, NextTypes, PTL DEF Spec

\* Every state is well typed.
THEOREM TypeCorrect == Spec => []TypeOK
<1>1. QED
  BY TypesHold, TypesMeans, PTL

-------------------------------------------------------------------------------
\* Who holds a challenge, and how: a row is there once it is held; two that hold it are
\* not alone; a handler past the check has taken the row away; so has a challenge that
\* opened a session and may do so again, and nobody holds it alone.
Holding ==
  /\ \A r \in Requests : req[r].id \in Ids => chal[req[r].id].row # "none"
  /\ \A r, q \in Requests : q # r /\ req[r].id \in Ids /\ req[q].id = req[r].id => ~req[r].alone
  /\ \A r \in Requests : req[r].pc \in {"counter", "session"} => chal[req[r].id].row = "gone"
  /\ \A i \in opened : chal[i].row = "gone" /\ \A r \in Requests : req[r].id = i => ~req[r].alone

\* A row that has gone does not come back; a handler keeps its challenge, or has none.
RowsOn == \A j \in Ids : /\ chal[j].row = "gone" => chal'[j].row = "gone"
                         /\ chal[j].row # "none" => chal'[j].row # "none"
WorkOn == \A g \in Requests : req'[g].id \in Ids =>
            req'[g].id = req[g].id /\ (req'[g].alone => req[g].alone)
GoneOn == \A g \in Requests : req'[g].pc \in {"counter", "session"} =>
            req'[g].id \in Ids /\ chal'[req'[g].id].row = "gone"

\* Holding is kept where rows, handlers and sessions go on.
LEMMA HeldOn ==
  ASSUME Types, Holding, RowsOn, WorkOn, GoneOn, opened' = opened
  PROVE  Holding'
<1>1. \A r \in Requests : req'[r].id \in Ids => chal'[req'[r].id].row # "none"
  BY DEF Holding, RowsOn, WorkOn
<1>2. \A r, q \in Requests : q # r /\ req'[r].id \in Ids /\ req'[q].id = req'[r].id => ~req'[r].alone
  BY DEF Holding, WorkOn
<1>3. \A i \in opened' : chal'[i].row = "gone" /\ \A r \in Requests : req'[r].id = i => ~req'[r].alone
  BY DEF Holding, RowsOn, WorkOn, Types
<1>4. QED
  BY <1>1, <1>2, <1>3 DEF Holding, GoneOn

\* A row changes, and none comes back.
LEMMA ChangedOn ==
  ASSUME Types, NEW i \in Ids, NEW row \in Row, Stored(i) => row.row # "none",
         chal' = chal \/ Change(i, row)
  PROVE  RowsOn
BY Changing DEF RowsOn, Stored

\* A handler ends.
LEMMA FinishedOn ==
  ASSUME Types, Places, Holding, RowsOn, NEW r \in Requests, Finish(r)
  PROVE  WorkOn /\ GoneOn
<1>1. \A q \in Requests : req'[q] = IF q = r THEN Idle ELSE req[q]
  BY Finishing
<1>2. Idle.id \notin Ids /\ Idle.pc = "idle"
  BY Bounds DEF Idle
<1>3. QED
  BY <1>1, <1>2 DEF WorkOn, GoneOn, RowsOn, Holding, Places

\* A handler keeps its challenge and goes on.
LEMMA WentOn ==
  ASSUME Types, Places, Holding, RowsOn, NEW r \in Requests, NEW w \in Work, req' = [req EXCEPT ![r] = w],
         w.id = req[r].id, w.alone = req[r].alone,
         w.pc \in {"counter", "session"} => w.id \in Ids /\ chal'[w.id].row = "gone"
  PROVE  WorkOn /\ GoneOn
<1>1. \A q \in Requests : req'[q] = IF q = r THEN w ELSE req[q]
  BY Going
<1>2. QED
  BY <1>1 DEF WorkOn, GoneOn, RowsOn, Holding, Places

\* A new row is nobody else's.
LEMMA InsertHolding ==
  ASSUME Types, Places, Holding, NEW r \in Requests, InsertChallenge(r)
  PROVE  Holding'
<1>1. PICK i \in Ids, purpose \in Purposes,
            method \in {"email"} \cup (IF enabled = {} THEN {} ELSE {"totp"}) :
        /\ chal[i].row = "none" /\ opened' = opened
        /\ chal' = [chal EXCEPT ![i] = [NoChallenge EXCEPT !.row = "live",
             !.purpose = purpose, !.method = method,
             !.code = IF method = "email" THEN 1 ELSE 0, !.known = method = "totp"]]
        /\ (req' = [req EXCEPT ![r] = [Idle EXCEPT !.pc = "mail", !.id = i]]) \/ Finish(r)
  BY DEF InsertChallenge
<1>2. \A j \in Ids : IF j = i THEN chal'[j].row = "live" ELSE chal'[j] = chal[j]
  BY <1>1 DEF NoChallenge, Types
<1>3. RowsOn
  BY <1>2, <1>1 DEF RowsOn
<1>4. CASE Finish(r)
  BY <1>1, <1>3, <1>4, FinishedOn, HeldOn
<1>5. CASE req' = [req EXCEPT ![r] = [Idle EXCEPT !.pc = "mail", !.id = i]]
  <2>1. \A q \in Requests : IF q = r THEN req'[q].pc = "mail" /\ req'[q].id = i ELSE req'[q] = req[q]
    BY <1>5 DEF Types, Idle
  <2>2. \A q \in Requests : req[q].id # i
    BY <1>1 DEF Holding
  <2>3. \A q \in Requests : req'[q].id \in Ids => chal'[req'[q].id].row # "none"
    BY <1>2, <1>1, <1>3, <2>1 DEF Holding, RowsOn
  <2>4. \A p, q \in Requests : q # p /\ req'[p].id \in Ids /\ req'[q].id = req'[p].id => ~req'[p].alone
    BY <2>1, <2>2 DEF Holding
  <2>5. \A q \in Requests : req'[q].pc \in {"counter", "session"} => chal'[req'[q].id].row = "gone"
    BY <1>3, <2>1 DEF Holding, RowsOn, Places
  <2>6. i \notin opened
    BY <1>1 DEF Holding
  <2>7. \A j \in opened' : chal'[j].row = "gone" /\ \A q \in Requests : req'[q].id = j => ~req'[q].alone
    BY <1>2, <1>1, <1>3, <2>1, <2>6 DEF Holding, RowsOn, Types
  <2>8. QED
    BY <2>3, <2>4, <2>5, <2>7 DEF Holding
<1>6. QED
  BY <1>1, <1>4, <1>5

\* Who reads a challenge is alone with it, or nobody is.
LEMMA ReadHolding ==
  ASSUME Types, Places, Holding, NEW r \in Requests, NEW i \in Ids, chal[i].row = "live",
         NEW op, NEW pc \in {"check", "send"}, Read(r, i, op, pc)
  PROVE  Holding'
<1> DEFINE others == {q \in Requests \ {r} : Holds(q, i)}
<1>1. \A q \in Requests : IF q = r THEN req'[q].pc = pc /\ req'[q].id = i /\ req'[q].alone = (others = {})
         ELSE IF q \in others THEN req'[q].pc = req[q].pc /\ req'[q].id = i /\ ~req'[q].alone
         ELSE req'[q] = req[q] /\ req[q].id # i
  BY DEF Read, Types, Work, Idle, Holds
<1>2. UNCHANGED <<chal, opened>>
  BY DEF Read
<1>3. \A q \in Requests : req'[q].id \in Ids => chal'[req'[q].id].row # "none"
  BY <1>1, <1>2 DEF Holding
<1>4. ASSUME NEW p \in Requests, NEW q \in Requests, q # p, req'[p].id \in Ids, req'[q].id = req'[p].id
      PROVE  ~req'[p].alone
  <2>1. CASE p = r
    <3>1. q \in others
      BY <1>1, <1>4, <2>1
    <3>2. QED
      BY <1>1, <2>1, <3>1
  <2>2. CASE p # r /\ p \in others
    BY <1>1, <2>2
  <2>3. CASE p # r /\ p \notin others
    BY <1>1, <1>4, <2>3 DEF Holding
  <2>4. QED
    BY <2>1, <2>2, <2>3
<1>5. \A q \in Requests : req'[q].pc \in {"counter", "session"} => chal'[req'[q].id].row = "gone"
  BY <1>1, <1>2 DEF Holding, Holds
<1>6. \A j \in opened' : chal'[j].row = "gone" /\ \A q \in Requests : req'[q].id = j => ~req'[q].alone
  BY <1>1, <1>2 DEF Holding
<1>7. QED
  BY <1>3, <1>4, <1>5, <1>6 DEF Holding

\* A session that may be opened again is opened by one of several.
LEMMA SessionHolding ==
  ASSUME Types, Places, Holding, NEW r \in Requests, CreateSession(r)
  PROVE  Holding'
<1> DEFINE i == req[r].id
<1>1. /\ i \in Ids /\ chal[i].row = "gone" /\ chal' = chal /\ Finish(r)
      /\ opened' = IF Stored(i) \/ \E q \in Requests \ {r} : Holds(q, i) THEN opened \cup {i} ELSE opened
  BY DEF CreateSession, At, Holding, Places
<1>2. RowsOn
  BY <1>1 DEF RowsOn
<1>3. WorkOn /\ GoneOn
  BY <1>1, <1>2, FinishedOn
<1>4. \A r1 \in Requests : req'[r1].id \in Ids => chal'[req'[r1].id].row # "none"
  BY <1>2, <1>3 DEF Holding, RowsOn, WorkOn
<1>5. \A r1, q \in Requests : q # r1 /\ req'[r1].id \in Ids /\ req'[q].id = req'[r1].id => ~req'[r1].alone
  BY <1>3 DEF Holding, WorkOn
<1>6. \A q \in Requests : req'[q].id = i => ~req'[q].alone
  <2>1. \A q \in Requests : req'[q].id = i => q # r
    BY <1>1, Finishing, Bounds DEF Idle
  <2>2. QED
    BY <1>1, <1>3, <2>1 DEF Holding, WorkOn
<1>7. \A j \in opened' : chal'[j].row = "gone" /\ \A q \in Requests : req'[q].id = j => ~req'[q].alone
  <2>1. \A j \in opened' : j = i \/ j \in opened
    BY <1>1
  <2>2. QED
    BY <1>1, <1>3, <1>6, <2>1 DEF Holding, WorkOn, Types
<1>8. QED
  BY <1>3, <1>4, <1>5, <1>7 DEF Holding, GoneOn

\* At most one handler ends, and rows go on.
LEMMA FinishHolding ==
  ASSUME Types, Places, Holding, RowsOn, opened' = opened,
         UNCHANGED req \/ \E r \in Requests : Finish(r)
  PROVE  Holding'
<1>1. CASE UNCHANGED req
  <2>1. WorkOn /\ GoneOn
    BY <1>1 DEF WorkOn, GoneOn, RowsOn, Holding, Places
  <2>2. QED
    BY <2>1, HeldOn
<1>2. CASE \E r \in Requests : Finish(r)
  BY <1>2, FinishedOn, HeldOn
<1>3. QED
  BY <1>1, <1>2

\* A handler changes or deletes its row and ends.
LEMMA ChangeHolding ==
  ASSUME Types, Places, Holding, NEW r \in Requests,
         MailCode(r) \/ MailFails(r) \/ CheckWrong(r) \/ Store(r) \/ EraseFails(r)
  PROVE  Holding'
<1> DEFINE i == req[r].id
<1>1. i \in Ids /\ req[r] \in Work /\ chal[i] \in Row
  BY DEF MailCode, MailFails, CheckWrong, Store, EraseFails, At, Places, Types
<1>2. Finish(r) /\ opened' = opened
  BY DEF MailCode, MailFails, CheckWrong, Store, EraseFails
<1>3. RowsOn
  <2>1. CASE MailCode(r)
    <3>1. /\ [chal[i] EXCEPT !.mails = @ + 1, !.known = TRUE] \in Row
          /\ [chal[i] EXCEPT !.mails = @ + 1, !.known = TRUE].row = chal[i].row
      BY <1>1, Rows DEF Row
    <3>2. Change(i, [chal[i] EXCEPT !.mails = @ + 1, !.known = TRUE])
      BY <2>1 DEF MailCode
    <3>3. QED
      BY <1>1, <3>1, <3>2, ChangedOn DEF Stored
  <2>2. CASE MailFails(r) \/ EraseFails(r)
    BY <1>1, <2>2, Constants, ChangedOn DEF MailFails, EraseFails, Delete
  <2>3. CASE CheckWrong(r)
    <3>1. /\ [chal[i] EXCEPT !.attempts = @ + 1, !.wrong = @ + 1] \in Row
          /\ [chal[i] EXCEPT !.attempts = @ + 1, !.wrong = @ + 1].row = chal[i].row
      BY <1>1, Rows DEF Row
    <3>2. chal' = chal \/ Change(i, [chal[i] EXCEPT !.attempts = @ + 1, !.wrong = @ + 1])
      BY <2>3 DEF CheckWrong
    <3>3. QED
      BY <1>1, <3>1, <3>2, ChangedOn DEF Stored
  <2>4. CASE Store(r)
    <3>1. /\ [chal[i] EXCEPT !.code = req[r].code, !.row = "live", !.resends = @ + 1] \in Row
          /\ [chal[i] EXCEPT !.code = req[r].code, !.row = "live", !.resends = @ + 1].row = "live"
      BY <1>1, Rows DEF Row, Work
    <3>2. Change(i, [chal[i] EXCEPT !.code = req[r].code, !.row = "live", !.resends = @ + 1])
      BY <2>4 DEF Store
    <3>3. QED
      BY <1>1, <3>1, <3>2, ChangedOn
  <2>5. QED
    BY <2>1, <2>2, <2>3, <2>4
<1>4. QED
  BY <1>2, <1>3, FinishHolding

\* A right code takes the row away.
LEMMA CheckHolding ==
  ASSUME Types, Places, Holding, NEW r \in Requests, CheckMailed(r) \/ CheckTotp(r)
  PROVE  Holding'
<1>1. PICK pc \in {"session", "counter"}, s \in 0..Secrets, c \in 0..Counters :
        /\ Redeem(r, pc, s, c) /\ At(r, "check") /\ (pc = "counter" => s > 0 /\ c > 0) /\ (s > 0 => c > 0)
  <2>1. CASE CheckMailed(r)
    BY <2>1, Bounds DEF CheckMailed
  <2>2. CASE CheckTotp(r)
    <3>1. PICK c \in 1..Counters : Redeem(r, "counter", user.secret, c)
      BY <2>2 DEF CheckTotp
    <3>2. c \in 0..Counters /\ c > 0 /\ user.secret \in 0..Secrets /\ user.secret > 0
      BY <2>2, Bounds DEF CheckTotp, Types, User
    <3>3. QED
      BY <2>2, <3>1, <3>2 DEF CheckTotp
  <2>3. QED
    BY <2>1, <2>2
<1>2. /\ \A j \in Ids : chal'[j] = chal[j] \/ (Stored(j) /\ chal'[j] = Gone)
      /\ chal' \in [Ids -> Row] /\ Places'
      /\ \E w \in Work :
           /\ req' = [req EXCEPT ![r] = w]
           /\ w.id = req[r].id /\ w.alone = req[r].alone /\ w.secret = s /\ w.counter = c
           /\ (w.pc = pc /\ ~Stored(w.id)') \/ w.pc = "erase"
  BY <1>1, Redeeming
<1>3. PICK w \in Work :
        /\ req' = [req EXCEPT ![r] = w]
        /\ w.id = req[r].id /\ w.alone = req[r].alone
        /\ (w.pc = pc /\ ~Stored(w.id)') \/ w.pc = "erase"
  BY <1>2
<1>4. RowsOn
  BY <1>2, Constants DEF RowsOn, Stored
<1>5. req[r].id \in Ids
  BY <1>1 DEF Places, At
<1>6. chal'[req[r].id].row # "none"
  BY <1>4, <1>5 DEF RowsOn, Holding
<1>7. w.pc \in {"counter", "session"} => w.id \in Ids /\ chal'[w.id].row = "gone"
  BY <1>2, <1>3, <1>5, <1>6 DEF Stored, Row
<1>8. opened' = opened
  BY DEF CheckMailed, CheckTotp
<1>9. QED
  BY <1>3, <1>4, <1>7, <1>8, WentOn, HeldOn

\* A handler goes on with its challenge.
LEMMA RestHolding ==
  ASSUME Types, Places, Holding, NEW r \in Requests, UpdateCounter(r) \/ ConfirmTotp(r) \/ Send(r)
  PROVE  Holding'
<1>1. req[r] \in Work /\ opened' = opened
  BY DEF Types, UpdateCounter, ConfirmTotp, Send
<1>2. CASE UpdateCounter(r)
  <2> DEFINE w == [req[r] EXCEPT !.pc = "session"]
  <2>1. w \in Work /\ w.id = req[r].id /\ w.alone = req[r].alone /\ req' = [req EXCEPT ![r] = w]
    BY <1>1, <1>2 DEF Work, UpdateCounter, Types
  <2>2. chal' = chal /\ chal[req[r].id].row = "gone" /\ req[r].id \in Ids
    BY <1>2 DEF UpdateCounter, At, Holding, Places
  <2>3. RowsOn
    BY <2>2 DEF RowsOn
  <2> HIDE DEF w
  <2>4. WorkOn /\ GoneOn
    BY <2>1, <2>2, <2>3, WentOn
  <2>5. QED
    BY <1>1, <2>3, <2>4, HeldOn
<1>3. CASE ConfirmTotp(r)
  <2> DEFINE w == [req[r] EXCEPT !.pc = "enable", !.secret = user.pending]
  <2>1. w \in Work /\ w.id = req[r].id /\ w.alone = req[r].alone /\ req' = [req EXCEPT ![r] = w] /\ w.pc = "enable"
    BY <1>1, <1>3 DEF Work, ConfirmTotp, Types, User
  <2>2. RowsOn
    BY <1>3 DEF ConfirmTotp, RowsOn
  <2> HIDE DEF w
  <2>3. WorkOn /\ GoneOn
    BY <2>1, <2>2, WentOn
  <2>4. QED
    BY <1>1, <2>2, <2>3, HeldOn
<1>4. CASE Send(r)
  <2> DEFINE i == req[r].id
  <2>1. i \in Ids /\ chal[i] \in Row
    BY <1>4 DEF Send, At, Places, Types
  <2>2. /\ [chal[i] EXCEPT !.mails = @ + 1] \in Row /\ Change(i, [chal[i] EXCEPT !.mails = @ + 1])
        /\ [chal[i] EXCEPT !.mails = @ + 1].row = chal[i].row
    BY <1>4, <2>1, Rows DEF Send, Row
  <2>3. RowsOn
    BY <2>1, <2>2, ChangedOn DEF Stored
  <2>4. PICK c \in Nat : c = chal[i].mails + 1
    BY <2>1 DEF Row
  <2> DEFINE w == [req[r] EXCEPT !.pc = "store", !.code = c]
  <2>5. w \in Work /\ w.id = req[r].id /\ w.alone = req[r].alone /\ req' = [req EXCEPT ![r] = w] /\ w.pc = "store"
    BY <1>1, <1>4, <2>4 DEF Work, Send, Types
  <2> HIDE DEF w
  <2>6. WorkOn /\ GoneOn
    BY <2>3, <2>5, WentOn
  <2>7. QED
    BY <1>1, <2>3, <2>6, HeldOn
<1>5. QED
  BY <1>2, <1>3, <1>4

\* What ends a handler or touches a row and no more.
LEMMA OtherHolding ==
  ASSUME Types, Places, Holding,
         \/ \E r \in Requests : Erase(r) \/ EraseRefused(r) \/ EnableTotp(r) \/ Break(r)
         \/ StartTotp \/ DisableTotp \/ UNCHANGED vars
         \/ \E i \in Ids : Discard(i) \/ Expire(i) \/ Sweep(i)
  PROVE  Holding'
<1>1. opened' = opened /\ (UNCHANGED req \/ \E r \in Requests : Finish(r))
  BY DEF Erase, EraseRefused, EnableTotp, Break, StartTotp, DisableTotp, vars, Discard, Expire, Sweep
<1>2. RowsOn
  <2>1. CASE \E r \in Requests : Erase(r)
    BY <2>1, Constants DEF Erase, RowsOn, Stored
  <2>2. CASE \E i \in Ids : Discard(i) \/ Sweep(i)
    BY <2>2, ChangedOn, Constants DEF Discard, Sweep, Delete
  <2>3. CASE \E i \in Ids : Expire(i)
    BY <2>3 DEF Expire, RowsOn, Types
  <2>4. CASE chal' = chal
    BY <2>4 DEF RowsOn
  <2>5. QED
    BY <2>1, <2>2, <2>3, <2>4 DEF EraseRefused, EnableTotp, Break, StartTotp, DisableTotp, vars
<1>3. QED
  BY <1>1, <1>2, FinishHolding

\* Every step keeps Holding.
LEMMA NextHolding == Types /\ Places /\ Holding /\ [Next]_vars => Holding'
<1> SUFFICES ASSUME Types, Places, Holding, [Next]_vars PROVE Holding'
  OBVIOUS
<1>1. ASSUME NEW r \in Requests, Look(r) PROVE Holding'
  BY <1>1, ReadHolding DEF Look, ReadLogin, ReadLink, ReadDeletion, ReadResend, Readable
<1>2. ASSUME NEW r \in Requests, Handle(r) PROVE Holding'
  BY <1>2, InsertHolding, ChangeHolding, CheckHolding, RestHolding, SessionHolding, OtherHolding
  DEF Handle
<1>3. QED
  BY <1>1, <1>2, OtherHolding DEF Next

\* Nobody holds anything at first.
LEMMA InitHolding == Init => Holding
BY Bounds DEF Init, Holding, Idle

\* Holding, in every state.
LEMMA HoldingHolds == Spec => []Holding
<1>1. QED
  BY TypesHold, InitHolding, NextHolding, PTL DEF Spec

\* One challenge opens one session, unless two handlers were at work on it at once
\* (account.js:619).
THEOREM RedeemedOnceHolds == Spec => RedeemedOnce
<1>1. Spec => []Holding
  BY HoldingHolds
<1>2. Holding /\ [Next]_vars =>
        [\A r \in Requests : CreateSession(r) /\ req[r].id \in opened => ~req[r].alone]_vars
  BY DEF Holding
<1>3. QED
  BY <1>1, <1>2, PTL DEF RedeemedOnce, Spec

-------------------------------------------------------------------------------
\* The codes: the first is mailed before the browser learns of the challenge, a later
\* one before the row changes to it.
Mailed ==
  /\ \A i \in Ids : chal[i].method = "email" => chal[i].code <= 1 \/ chal[i].code <= chal[i].mails
  /\ CodesMailed
  /\ \A r \in Requests : req[r].pc = "store" /\ Stored(req[r].id) => req[r].code <= chal[req[r].id].mails

\* Neither codes nor mails change, but with the row; nobody goes on to store.
RowsQuiet == \A j \in Ids :
  \/ chal'[j] = Gone
  \/ /\ chal'[j].method = chal[j].method /\ chal'[j].code = chal[j].code
     /\ chal'[j].known = chal[j].known /\ chal'[j].mails = chal[j].mails
     /\ Stored(j)' => Stored(j)
StoreOn == \A g \in Requests : req'[g].pc = "store" =>
  req[g].pc = "store" /\ req'[g].id = req[g].id /\ req'[g].code = req[g].code

\* Mailed is kept where rows are quiet and nobody goes on to store.
LEMMA MailedOn ==
  ASSUME Types, Places, Mailed, RowsQuiet, StoreOn
  PROVE  Mailed'
<1>1. Gone.method = "email" /\ Gone.code = 0 /\ ~Gone.known /\ Gone.row = "gone"
  BY DEF Gone, NoChallenge
<1>2. \A i \in Ids : chal'[i].method = "email" => chal'[i].code <= 1 \/ chal'[i].code <= chal'[i].mails
  BY <1>1 DEF Mailed, RowsQuiet
<1>3. CodesMailed'
  BY <1>1 DEF Mailed, RowsQuiet, CodesMailed
<1>4. ASSUME NEW r \in Requests, req'[r].pc = "store", Stored(req[r].id)'
      PROVE  req'[r].code <= chal'[req'[r].id].mails
  <2>1. req[r].pc = "store" /\ req'[r].id = req[r].id /\ req'[r].code = req[r].code /\ req[r].id \in Ids
    BY <1>4 DEF StoreOn, Places
  <2>2. Stored(req[r].id) /\ chal'[req[r].id].mails = chal[req[r].id].mails
    BY <1>1, <1>4, <2>1 DEF RowsQuiet, Stored
  <2>3. QED
    BY <2>1, <2>2 DEF Mailed
<1>5. QED
  BY <1>2, <1>3, <1>4 DEF Mailed

\* A row changes to another with the same codes, or goes.
LEMMA QuietChange ==
  ASSUME Types, NEW i \in Ids, NEW row \in Row, chal' = chal \/ Change(i, row),
         \/ row = Gone
         \/ row.method = chal[i].method /\ row.code = chal[i].code /\ row.known = chal[i].known /\ row.mails = chal[i].mails
  PROVE  RowsQuiet
<1>1. CASE chal' = chal
  BY <1>1 DEF RowsQuiet, Stored
<1>2. CASE Change(i, row)
  <2>1. \A j \in Ids : chal'[j] = IF j = i /\ Stored(i) THEN row ELSE chal[j]
    BY <1>2, Changing
  <2>2. \A j \in Ids : ~(j = i /\ Stored(i)) => chal'[j] = chal[j]
    BY <2>1
  <2>3. Stored(i) => chal'[i] = row
    BY <2>1
  <2>4. QED
    BY <2>2, <2>3 DEF RowsQuiet, Stored
<1>3. QED
  BY <1>1, <1>2

\* A handler that ends does not store.
LEMMA StoreFinishes ==
  ASSUME Types, UNCHANGED req \/ \E r \in Requests : Finish(r)
  PROVE  StoreOn
<1>1. Idle.pc # "store"
  BY DEF Idle
<1>2. QED
  BY <1>1, Finishing DEF StoreOn

\* The first code of a mail is 1.
LEMMA InsertMailed ==
  ASSUME Types, Places, Holding, Mailed, NEW r \in Requests, InsertChallenge(r)
  PROVE  Mailed'
<1>1. PICK i \in Ids, purpose \in Purposes,
            method \in {"email"} \cup (IF enabled = {} THEN {} ELSE {"totp"}) :
        /\ chal[i].row = "none"
        /\ chal' = [chal EXCEPT ![i] = [NoChallenge EXCEPT !.row = "live",
             !.purpose = purpose, !.method = method,
             !.code = IF method = "email" THEN 1 ELSE 0, !.known = method = "totp"]]
        /\ (req' = [req EXCEPT ![r] = [Idle EXCEPT !.pc = "mail", !.id = i]]) \/ Finish(r)
  BY DEF InsertChallenge
<1>2. \A j \in Ids : j # i => chal'[j] = chal[j]
  BY <1>1 DEF Types
<1>3. /\ chal'[i].method = method /\ chal'[i].code = (IF method = "email" THEN 1 ELSE 0)
      /\ chal'[i].known <=> method = "totp"
  BY <1>1 DEF Types, NoChallenge
<1>4. StoreOn
  <2>1. CASE Finish(r)
    BY <2>1, StoreFinishes
  <2>2. CASE req' = [req EXCEPT ![r] = [Idle EXCEPT !.pc = "mail", !.id = i]]
    <3>1. \A q \in Requests : IF q = r THEN req'[q].pc = "mail" ELSE req'[q] = req[q]
      BY <2>2 DEF Types, Idle
    <3>2. QED
      BY <3>1 DEF StoreOn
  <2>3. QED
    BY <1>1, <2>1, <2>2
<1>5. \A q \in Requests : req'[q].pc = "store" => req'[q].id \in Ids /\ req'[q].id # i
  BY <1>1, <1>4 DEF StoreOn, Places, Holding
<1>6. \A q \in Requests : req'[q].pc = "store" /\ Stored(req[q].id)' => req'[q].code <= chal'[req'[q].id].mails
  BY <1>2, <1>4, <1>5 DEF StoreOn, Stored, Mailed
<1>7. \A j \in Ids : chal'[j].method = "email" => chal'[j].code <= 1 \/ chal'[j].code <= chal'[j].mails
  BY <1>2, <1>3 DEF Mailed
<1>8. CodesMailed'
  BY <1>2, <1>3 DEF Mailed, CodesMailed
<1>9. QED
  BY <1>6, <1>7, <1>8 DEF Mailed

\* A code that is sent is counted.
LEMMA SendMailed ==
  ASSUME Types, Places, Mailed, NEW r \in Requests, MailCode(r) \/ Send(r)
  PROVE  Mailed'
<1> DEFINE i == req[r].id
<1>1. i \in Ids /\ chal[i] \in Row /\ req[r] \in Work
  BY DEF MailCode, Send, At, Places, Types
<1>2. PICK row \in Row :
        /\ Change(i, row) /\ row.mails = chal[i].mails + 1 /\ row.code = chal[i].code
        /\ row.method = chal[i].method /\ row.row = chal[i].row
        /\ row.known = chal[i].known \/ MailCode(r)
  <2>1. CASE MailCode(r)
    <3> DEFINE row == [chal[i] EXCEPT !.mails = @ + 1, !.known = TRUE]
    <3>1. /\ row \in Row /\ row.mails = chal[i].mails + 1 /\ row.code = chal[i].code
          /\ row.method = chal[i].method /\ row.row = chal[i].row
      BY <1>1, Rows DEF Row
    <3>2. Change(i, row)
      BY <2>1 DEF MailCode
    <3> HIDE DEF row
    <3>3. QED
      BY <2>1, <3>1, <3>2
  <2>2. CASE Send(r)
    <3> DEFINE row == [chal[i] EXCEPT !.mails = @ + 1]
    <3>1. /\ row \in Row /\ row.mails = chal[i].mails + 1 /\ row.code = chal[i].code
          /\ row.method = chal[i].method /\ row.row = chal[i].row /\ row.known = chal[i].known
      BY <1>1, Rows DEF Row
    <3>2. Change(i, row)
      BY <2>2 DEF Send
    <3> HIDE DEF row
    <3>3. QED
      BY <3>1, <3>2
  <2>3. QED
    BY <2>1, <2>2
<1>3. \A j \in Ids : ~(j = i /\ Stored(i)) => chal'[j] = chal[j]
  BY <1>1, <1>2, Changing
<1>4. Stored(i) => chal'[i] = row
  BY <1>1, <1>2, Changing
<1>5. \A j \in Ids : /\ Stored(j)' => Stored(j)
                     /\ chal[j].mails <= chal'[j].mails /\ chal[j].mails \in Nat /\ chal'[j].mails \in Nat
                     /\ chal'[j].code = chal[j].code /\ chal'[j].method = chal[j].method /\ chal[j].code \in Nat
  BY <1>1, <1>2, <1>3, <1>4 DEF Stored, Row, Types
<1>6. \A j \in Ids : chal'[j].method = "email" => chal'[j].code <= 1 \/ chal'[j].code <= chal'[j].mails
  BY <1>5 DEF Mailed
<1>7. CodesMailed'
  <2>1. \A j \in Ids : j # i \/ ~Stored(i) => (chal'[j].known /\ chal'[j].method = "email" => chal'[j].code <= chal'[j].mails)
    BY <1>3 DEF Mailed, CodesMailed
  <2>2. Stored(i) /\ chal'[i].method = "email" => chal'[i].code <= chal'[i].mails
    BY <1>1, <1>2, <1>4 DEF Mailed, Row
  <2>3. QED
    BY <2>1, <2>2 DEF CodesMailed
<1>8. \A q \in Requests \ {r} : req'[q] = req[q]
  BY DEF MailCode, Send, Finish, Types
<1>9. req'[r].pc = "store" => /\ req'[r].id = i /\ req'[r].code = chal[i].mails + 1
  BY <1>1 DEF MailCode, Send, Finish, Types, Idle, Work
<1>10. ASSUME NEW q \in Requests, req'[q].pc = "store", Stored(req[q].id)'
       PROVE  req'[q].code <= chal'[req'[q].id].mails
  <2>1. CASE q = r
    BY <1>1, <1>2, <1>4, <1>5, <1>9, <1>10, <2>1
  <2>2. CASE q # r
    <3>1. req'[q] = req[q] /\ req[q].id \in Ids /\ req[q].code \in Nat
      BY <1>8, <1>10, <2>2 DEF Places, Types, Work
    <3>2. Stored(req[q].id)
      BY <1>5, <1>10, <3>1 DEF Stored
    <3>3. req[q].code <= chal[req[q].id].mails
      BY <1>10, <3>1, <3>2 DEF Mailed
    <3>4. QED
      BY <1>5, <3>1, <3>3
  <2>3. QED
    BY <2>1, <2>2
<1>11. QED
  BY <1>6, <1>7, <1>10 DEF Mailed

\* The row changes to a code that has been mailed.
LEMMA StoreMailed ==
  ASSUME Types, Places, Mailed, NEW r \in Requests, Store(r)
  PROVE  Mailed'
<1> DEFINE i == req[r].id
           row == [chal[i] EXCEPT !.code = req[r].code, !.row = "live", !.resends = @ + 1]
<1>1. i \in Ids /\ chal[i] \in Row /\ req[r] \in Work /\ req[r].pc = "store"
  BY DEF Store, At, Places, Types
<1>2. row \in Row /\ row.code = req[r].code /\ row.mails = chal[i].mails /\ row.known = chal[i].known
  BY <1>1, Rows DEF Row, Work
<1>3. Change(i, row)
  BY DEF Store
<1> HIDE DEF row
<1>4. \A j \in Ids : ~(j = i /\ Stored(i)) => chal'[j] = chal[j]
  BY <1>1, <1>2, <1>3, Changing
<1>5. Stored(i) => chal'[i] = row
  BY <1>1, <1>2, <1>3, Changing
<1>6. Stored(i) => row.code <= row.mails
  BY <1>1, <1>2 DEF Mailed
<1>7. \A j \in Ids : chal'[j].method = "email" => chal'[j].code <= 1 \/ chal'[j].code <= chal'[j].mails
  BY <1>4, <1>5, <1>6 DEF Mailed
<1>8. CodesMailed'
  BY <1>4, <1>5, <1>6 DEF Mailed, CodesMailed
<1>9. StoreOn
  BY StoreFinishes DEF Store
<1>10. \A j \in Ids : (Stored(j)' => Stored(j)) /\ chal'[j].mails = chal[j].mails
  BY <1>2, <1>4, <1>5 DEF Stored
<1>11. \A q \in Requests : req'[q].pc = "store" /\ Stored(req[q].id)' => req'[q].code <= chal'[req'[q].id].mails
  BY <1>9, <1>10 DEF StoreOn, Mailed, Places, Stored
<1>12. QED
  BY <1>7, <1>8, <1>11 DEF Mailed

\* The other handlers: rows change quietly, and nobody goes on to store.
LEMMA QuietSteps ==
  ASSUME Types, Places, Holding, NEW r \in Requests,
         \/ MailFails(r) \/ EraseFails(r) \/ CheckWrong(r) \/ CheckMailed(r) \/ CheckTotp(r)
         \/ UpdateCounter(r) \/ CreateSession(r) \/ Erase(r) \/ EraseRefused(r) \/ ConfirmTotp(r)
         \/ EnableTotp(r) \/ Break(r) \/ Look(r)
  PROVE  RowsQuiet /\ StoreOn
<1> DEFINE i == req[r].id
<1>1. CASE MailFails(r) \/ EraseFails(r)
  <2>1. i \in Ids /\ Change(i, Gone) /\ Finish(r)
    BY <1>1 DEF MailFails, EraseFails, At, Places, Delete
  <2>2. QED
    BY <2>1, QuietChange, StoreFinishes, Constants
<1>2. CASE CheckWrong(r)
  <2> DEFINE row == [chal[i] EXCEPT !.attempts = @ + 1, !.wrong = @ + 1]
  <2>1. i \in Ids /\ chal[i] \in Row
    BY <1>2 DEF CheckWrong, At, Places, Types
  <2>2. row \in Row /\ row.method = chal[i].method /\ row.code = chal[i].code /\ row.known = chal[i].known /\ row.mails = chal[i].mails
    BY <2>1, Rows DEF Row
  <2>3. (chal' = chal \/ Change(i, row)) /\ Finish(r)
    BY <1>2 DEF CheckWrong
  <2> HIDE DEF row
  <2>4. QED
    BY <2>1, <2>2, <2>3, QuietChange, StoreFinishes
<1>3. CASE CheckMailed(r) \/ CheckTotp(r)
  <2>1. \E s, c : \E to \in {"session", "counter", "erase"} :
          req' = [req EXCEPT ![r] = [Local(r, to) EXCEPT !.secret = s, !.counter = c]]
    BY <1>3 DEF CheckMailed, CheckTotp, Redeem
  <2>2. chal' = chal \/ Change(i, Gone)
    BY <1>3 DEF CheckMailed, CheckTotp, Redeem, Consume, Delete
  <2>3. i \in Ids
    BY <1>3 DEF CheckMailed, CheckTotp, At, Places
  <2>4. \A s, c : \A to \in {"session", "counter", "erase"} :
          [Local(r, to) EXCEPT !.secret = s, !.counter = c].pc # "store"
    BY DEF Local, Idle
  <2>5. StoreOn
    BY <2>1, <2>4 DEF StoreOn, Types
  <2>6. QED
    BY <2>2, <2>3, <2>5, QuietChange, Constants
<1>4. CASE CreateSession(r) \/ EraseRefused(r) \/ EnableTotp(r) \/ Break(r)
  BY <1>4, StoreFinishes DEF CreateSession, EraseRefused, EnableTotp, Break, RowsQuiet, Stored
<1>5. CASE Erase(r)
  BY <1>5, StoreFinishes DEF Erase, RowsQuiet, Stored, Types
<1>6. CASE UpdateCounter(r) \/ ConfirmTotp(r)
  BY <1>6 DEF UpdateCounter, ConfirmTotp, StoreOn, Types, Work, RowsQuiet, Stored
<1>7. CASE Look(r)
  <2>1. PICK j \in Ids, op \in {"login", "link", "account_delete"}, pc \in {"check", "send"} : Read(r, j, op, pc)
    BY <1>7 DEF Look, ReadLogin, ReadLink, ReadDeletion, ReadResend
  <2>2. chal' = chal /\ \A q \in Requests :
          \/ q = r /\ req'[q].pc = pc
          \/ req'[q].pc = req[q].pc /\ req'[q].id = req[q].id /\ req'[q].code = req[q].code
    BY <2>1 DEF Read, Types, Work, Idle
  <2>3. QED
    BY <2>2 DEF RowsQuiet, StoreOn, Stored
<1>8. QED
  BY <1>1, <1>2, <1>3, <1>4, <1>5, <1>6, <1>7

\* The other steps: likewise.
LEMMA QuietRest ==
  ASSUME Types, \/ StartTotp \/ DisableTotp \/ UNCHANGED vars
                \/ \E i \in Ids : Discard(i) \/ Expire(i) \/ Sweep(i)
  PROVE  RowsQuiet /\ StoreOn
<1>1. StoreOn
  BY StoreFinishes DEF StartTotp, DisableTotp, vars, Discard, Expire, Sweep
<1>2. CASE chal' = chal
  BY <1>1, <1>2 DEF RowsQuiet, Stored
<1>3. CASE \E i \in Ids : Discard(i) \/ Sweep(i)
  BY <1>1, <1>3, QuietChange, Constants DEF Discard, Sweep, Delete
<1>4. CASE \E i \in Ids : Expire(i)
  <2>1. PICK i \in Ids : chal[i].row = "live" /\ chal' = [chal EXCEPT ![i].row = "expired"]
    BY <1>4 DEF Expire
  <2>2. RowsQuiet
    BY <2>1 DEF Types, Row, RowsQuiet, Stored
  <2>3. QED
    BY <1>1, <2>2
<1>5. QED
  BY <1>2, <1>3, <1>4 DEF StartTotp, DisableTotp, vars

\* Every step keeps Mailed.
LEMMA NextMailed == Types /\ Places /\ Holding /\ Mailed /\ [Next]_vars => Mailed'
<1> SUFFICES ASSUME Types, Places, Holding, Mailed, [Next]_vars PROVE Mailed'
  OBVIOUS
<1>1. ASSUME NEW r \in Requests, Look(r) \/ Handle(r) \/ Break(r) PROVE Mailed'
  BY <1>1, InsertMailed, SendMailed, StoreMailed, QuietSteps, MailedOn DEF Handle
<1>2. QED
  BY <1>1, QuietRest, MailedOn DEF Next

\* No code at first.
LEMMA InitMailed == Init => Mailed
BY DEF Init, Mailed, CodesMailed, NoChallenge, Idle

-------------------------------------------------------------------------------
\* The guesses: what has been refused, and what is being checked, never exceed the limit
\* by more than the handlers that read the row before the limit was reached.
Limit == MaxAttempts + Cardinality(Requests) - 1
Checkers(i) == {r \in Requests : req[r].pc = "check" /\ req[r].id = i}
Guesses ==
  /\ \A i \in Ids : chal[i].wrong = chal[i].attempts /\ chal[i].wrong <= Limit
  /\ \A i \in Ids : Checkers(i) # {} => chal[i].wrong + Cardinality(Checkers(i)) <= Limit

RowsTried == \A j \in Ids : chal'[j].wrong = chal'[j].attempts /\ chal'[j].wrong <= chal[j].wrong
CheckOn == \A g \in Requests : req'[g].pc = "check" => req[g].pc = "check" /\ req'[g].id = req[g].id

\* Handlers are finitely many, and fewer check than there are.
LEMMA Counting ==
  /\ Cardinality(Requests) \in Nat
  /\ Limit \in Int /\ Cardinality(Requests) <= Limit
  /\ \A S \in SUBSET Requests : IsFiniteSet(S) /\ Cardinality(S) \in Nat /\ Cardinality(S) <= Cardinality(Requests)
  /\ \A i : IsFiniteSet(Checkers(i)) /\ Checkers(i) \in SUBSET Requests
<1>1. Cardinality(Requests) \in Nat
  BY Bounds, FS_CardinalityType
<1>2. Limit \in Int /\ Cardinality(Requests) <= Limit
  BY <1>1, Bounds DEF Limit
<1>3. ASSUME NEW S \in SUBSET Requests
      PROVE  IsFiniteSet(S) /\ Cardinality(S) \in Nat /\ Cardinality(S) <= Cardinality(Requests)
  BY Bounds, FS_Subset, FS_CardinalityType
<1>4. QED
  BY <1>1, <1>2, <1>3 DEF Checkers

\* The guesses are bounded still where no row has more and nobody begins a check.
LEMMA GuessOn ==
  ASSUME Types, Guesses, Types', RowsTried, CheckOn
  PROVE  Guesses'
<1>1. \A j \in Ids : chal[j].wrong \in Nat /\ chal'[j].wrong \in Nat
  BY DEF Types, Row
<1>2. \A j \in Ids : chal'[j].wrong = chal'[j].attempts /\ chal'[j].wrong <= Limit
  BY <1>1, Counting DEF Guesses, RowsTried
<1>3. ASSUME NEW j \in Ids, Checkers(j)' # {} PROVE chal'[j].wrong + Cardinality(Checkers(j)') <= Limit
  <2>1. Checkers(j)' \subseteq Checkers(j)
    BY DEF Checkers, CheckOn
  <2>2. Cardinality(Checkers(j)') <= Cardinality(Checkers(j))
    BY <2>1, Counting, FS_Subset
  <2>3. Checkers(j)' \in SUBSET Requests
    BY DEF Checkers
  <2>4. chal[j].wrong + Cardinality(Checkers(j)) <= Limit
    BY <1>3, <2>1 DEF Guesses
  <2>5. chal'[j].wrong <= chal[j].wrong
    BY DEF RowsTried
  <2>6. Cardinality(Checkers(j)') \in Nat /\ Cardinality(Checkers(j)) \in Nat
    BY <2>3, Counting
  <2>7. QED
    BY <1>1, <2>2, <2>4, <2>5, <2>6, Counting
<1>4. Limit' = Limit
  BY DEF Limit
<1>5. QED
  BY <1>2, <1>3, <1>4 DEF Guesses

\* Rows: attempts and refusals stay, or go with the row.
LEMMA TriedChange ==
  ASSUME Types, Guesses, NEW i \in Ids, NEW row \in Row, chal' = chal \/ Change(i, row),
         row = Gone \/ (row.wrong = chal[i].wrong /\ row.attempts = chal[i].attempts)
  PROVE  RowsTried
<1>1. Gone.wrong = 0 /\ Gone.attempts = 0
  BY DEF Gone, NoChallenge
<1>2. \A j \in Ids : chal[j].wrong \in Nat /\ chal[j].wrong = chal[j].attempts
  BY DEF Types, Row, Guesses
<1>3. CASE chal' = chal
  BY <1>2, <1>3 DEF RowsTried
<1>4. CASE Change(i, row)
  <2>1. \A j \in Ids : ~(j = i /\ Stored(i)) => chal'[j] = chal[j]
    BY <1>4, Changing
  <2>2. Stored(i) => chal'[i] = row
    BY <1>4, Changing
  <2>3. QED
    BY <1>1, <1>2, <2>1, <2>2 DEF RowsTried
<1>5. QED
  BY <1>3, <1>4

\* No row changes.
LEMMA TriedSame ==
  ASSUME Types, Guesses, chal' = chal
  PROVE  RowsTried
BY DEF Types, Row, Guesses, RowsTried

\* A handler that ends does not check.
LEMMA CheckFinishes ==
  ASSUME Types, UNCHANGED req \/ \E r \in Requests : Finish(r)
  PROVE  CheckOn
<1>1. Idle.pc # "check"
  BY DEF Idle
<1>2. QED
  BY <1>1, Finishing DEF CheckOn

\* All but reading and refusing leave the guesses as they are.
LEMMA TriedSteps ==
  ASSUME Types, Places, Guesses, NEW r \in Requests,
         \/ InsertChallenge(r) \/ MailCode(r) \/ MailFails(r) \/ EraseFails(r) \/ CheckMailed(r) \/ CheckTotp(r)
         \/ UpdateCounter(r) \/ CreateSession(r) \/ Send(r) \/ Store(r) \/ Erase(r) \/ EraseRefused(r)
         \/ ConfirmTotp(r) \/ EnableTotp(r) \/ Break(r)
  PROVE  RowsTried /\ CheckOn
<1> DEFINE i == req[r].id
<1>1. CASE MailFails(r) \/ EraseFails(r)
  <2>1. i \in Ids /\ Change(i, Gone) /\ Finish(r)
    BY <1>1 DEF MailFails, EraseFails, At, Places, Delete
  <2>2. QED
    BY <2>1, TriedChange, CheckFinishes, Constants
<1>2. CASE MailCode(r) \/ Store(r)
  <2>1. i \in Ids /\ chal[i] \in Row /\ req[r] \in Work
    BY <1>2 DEF MailCode, Store, At, Places, Types
  <2>2. CASE MailCode(r)
    <3> DEFINE row == [chal[i] EXCEPT !.mails = @ + 1, !.known = TRUE]
    <3>1. row \in Row /\ row.wrong = chal[i].wrong /\ row.attempts = chal[i].attempts
      BY <2>1, Rows DEF Row
    <3>2. Change(i, row) /\ Finish(r)
      BY <2>2 DEF MailCode
    <3> HIDE DEF row
    <3>3. QED
      BY <2>1, <3>1, <3>2, TriedChange, CheckFinishes
  <2>3. CASE Store(r)
    <3> DEFINE row == [chal[i] EXCEPT !.code = req[r].code, !.row = "live", !.resends = @ + 1]
    <3>1. row \in Row /\ row.wrong = chal[i].wrong /\ row.attempts = chal[i].attempts
      BY <2>1, Rows DEF Row, Work
    <3>2. Change(i, row) /\ Finish(r)
      BY <2>3 DEF Store
    <3> HIDE DEF row
    <3>3. QED
      BY <2>1, <3>1, <3>2, TriedChange, CheckFinishes
  <2>4. QED
    BY <1>2, <2>2, <2>3
<1>3. CASE Send(r)
  <2> DEFINE row == [chal[i] EXCEPT !.mails = @ + 1]
  <2>1. i \in Ids /\ chal[i] \in Row
    BY <1>3 DEF Send, At, Places, Types
  <2>2. row \in Row /\ row.wrong = chal[i].wrong /\ row.attempts = chal[i].attempts
    BY <2>1, Rows DEF Row
  <2>3. Change(i, row)
    BY <1>3 DEF Send
  <2>4. CheckOn
    BY <1>3 DEF Send, Types, Work, CheckOn
  <2> HIDE DEF row
  <2>5. QED
    BY <2>1, <2>2, <2>3, <2>4, TriedChange
<1>4. CASE CheckMailed(r) \/ CheckTotp(r)
  <2>1. \E s, c : \E to \in {"session", "counter", "erase"} :
          req' = [req EXCEPT ![r] = [Local(r, to) EXCEPT !.secret = s, !.counter = c]]
    BY <1>4 DEF CheckMailed, CheckTotp, Redeem
  <2>2. chal' = chal \/ Change(i, Gone)
    BY <1>4 DEF CheckMailed, CheckTotp, Redeem, Consume, Delete
  <2>3. i \in Ids
    BY <1>4 DEF CheckMailed, CheckTotp, At, Places
  <2>4. \A s, c : \A to \in {"session", "counter", "erase"} :
          [Local(r, to) EXCEPT !.secret = s, !.counter = c].pc # "check"
    BY DEF Local, Idle
  <2>5. CheckOn
    BY <2>1, <2>4 DEF CheckOn, Types
  <2>6. QED
    BY <2>2, <2>3, <2>5, TriedChange, Constants
<1>5. CASE CreateSession(r) \/ EraseRefused(r) \/ EnableTotp(r) \/ Break(r)
  BY <1>5, CheckFinishes, TriedSame DEF CreateSession, EraseRefused, EnableTotp, Break
<1>6. CASE Erase(r)
  <2>1. CheckOn
    BY <1>6, CheckFinishes DEF Erase
  <2>2. \A j \in Ids : chal'[j] = Gone \/ chal'[j] = chal[j]
    BY <1>6 DEF Erase, Types
  <2>3. Gone.wrong = 0 /\ Gone.attempts = 0
    BY DEF Gone, NoChallenge
  <2>4. QED
    BY <2>1, <2>2, <2>3 DEF RowsTried, Guesses, Types, Row
<1>7. CASE UpdateCounter(r) \/ ConfirmTotp(r)
  <2>1. CheckOn
    BY <1>7 DEF UpdateCounter, ConfirmTotp, CheckOn, Types, Work
  <2>2. QED
    BY <1>7, <2>1, TriedSame DEF UpdateCounter, ConfirmTotp
<1>8. CASE InsertChallenge(r)
  <2>1. PICK k \in Ids, purpose \in Purposes,
            method \in {"email"} \cup (IF enabled = {} THEN {} ELSE {"totp"}) :
        /\ chal' = [chal EXCEPT ![k] = [NoChallenge EXCEPT !.row = "live",
             !.purpose = purpose, !.method = method,
             !.code = IF method = "email" THEN 1 ELSE 0, !.known = method = "totp"]]
        /\ (req' = [req EXCEPT ![r] = [Idle EXCEPT !.pc = "mail", !.id = k]]) \/ Finish(r)
    BY <1>8 DEF InsertChallenge
  <2>2. \A j \in Ids : j # k => chal'[j] = chal[j]
    BY <2>1 DEF Types
  <2>3. chal'[k].wrong = 0 /\ chal'[k].attempts = 0
    BY <2>1 DEF Types, NoChallenge
  <2>4. RowsTried
    BY <2>2, <2>3 DEF RowsTried, Guesses, Types, Row
  <2>5. CASE Finish(r)
    BY <2>4, <2>5, CheckFinishes
  <2>6. CASE req' = [req EXCEPT ![r] = [Idle EXCEPT !.pc = "mail", !.id = k]]
    <3>1. \A q \in Requests : IF q = r THEN req'[q].pc = "mail" ELSE req'[q] = req[q]
      BY <2>6 DEF Types, Idle
    <3>2. QED
      BY <2>4, <3>1 DEF CheckOn
  <2>7. QED
    BY <2>1, <2>5, <2>6
<1>9. QED
  BY <1>1, <1>2, <1>3, <1>4, <1>5, <1>6, <1>7, <1>8

\* The other steps: likewise.
LEMMA TriedRest ==
  ASSUME Types, Guesses, \/ StartTotp \/ DisableTotp \/ UNCHANGED vars
                         \/ \E i \in Ids : Discard(i) \/ Expire(i) \/ Sweep(i)
  PROVE  RowsTried /\ CheckOn
<1>1. CheckOn
  BY CheckFinishes DEF StartTotp, DisableTotp, vars, Discard, Expire, Sweep
<1>2. CASE chal' = chal
  BY <1>1, <1>2, TriedSame
<1>3. CASE \E i \in Ids : Discard(i) \/ Sweep(i)
  BY <1>1, <1>3, TriedChange, Constants DEF Discard, Sweep, Delete
<1>4. CASE \E i \in Ids : Expire(i)
  <2>1. PICK i \in Ids : chal' = [chal EXCEPT ![i].row = "expired"]
    BY <1>4 DEF Expire
  <2>2. \A j \in Ids : chal'[j].wrong = chal[j].wrong /\ chal'[j].attempts = chal[j].attempts
    BY <2>1 DEF Types, Row
  <2>3. RowsTried
    BY <2>2 DEF Types, Row, RowsTried, Guesses
  <2>4. QED
    BY <1>1, <2>3
<1>5. QED
  BY <1>2, <1>3, <1>4 DEF StartTotp, DisableTotp, vars

\* A wrong code: one more refused, one fewer being checked.
LEMMA WrongGuesses ==
  ASSUME Types, Places, Guesses, Types', NEW r \in Requests, CheckWrong(r)
  PROVE  Guesses'
<1>1. PICK i \in Ids : i = req[r].id
  BY DEF CheckWrong, At, Places
<1> DEFINE row == [chal[i] EXCEPT !.attempts = @ + 1, !.wrong = @ + 1]
<1>2. /\ i = req[r].id /\ chal[i] \in Row /\ req[r].pc = "check" /\ Finish(r)
      /\ chal' = chal \/ Change(i, row)
  BY <1>1 DEF CheckWrong, At, Types
<1>3. CheckOn
  BY <1>2, CheckFinishes
<1>4. CASE chal' = chal
  BY <1>3, <1>4, TriedSame, GuessOn
<1>5. CASE Change(i, row)
  <2>1. row \in Row /\ row.wrong = chal[i].wrong + 1 /\ row.attempts = chal[i].attempts + 1
    BY <1>2, Rows DEF Row
  <2> HIDE DEF row
  <2>2. \A j \in Ids : j # i => chal'[j] = chal[j]
    BY <1>2, <1>5, <2>1, Changing
  <2>3. chal'[i] = row \/ chal'[i] = chal[i]
    BY <1>2, <1>5, <2>1, Changing
  <2>4. r \in Checkers(i) /\ Checkers(i)' \subseteq Checkers(i) \ {r}
    <3>1. req'[r].pc # "check"
      BY <1>2, Finishing DEF Idle
    <3>2. r \in Checkers(i)
      BY <1>2 DEF Checkers
    <3>3. Checkers(i)' \subseteq Checkers(i)
      BY <1>3 DEF Checkers, CheckOn
    <3>4. r \notin Checkers(i)'
      BY <3>1 DEF Checkers
    <3>5. QED
      BY <3>2, <3>3, <3>4
  <2>5. \A j \in Ids : chal[j].wrong \in Nat /\ chal[j].attempts \in Nat /\ chal'[j].wrong \in Nat
    BY DEF Types, Row
  <2>6. /\ Cardinality(Checkers(i)) \in Nat /\ Cardinality(Checkers(i)') \in Nat
        /\ Cardinality(Checkers(i)') + 1 <= Cardinality(Checkers(i))
    <3>1. IsFiniteSet(Checkers(i)) /\ Checkers(i) \in SUBSET Requests
      BY Counting
    <3>2. Cardinality(Checkers(i) \ {r}) = Cardinality(Checkers(i)) - 1 /\ IsFiniteSet(Checkers(i) \ {r})
      BY <2>4, <3>1, FS_RemoveElement
    <3>3. Cardinality(Checkers(i)') <= Cardinality(Checkers(i) \ {r}) /\ IsFiniteSet(Checkers(i)')
      BY <2>4, <3>2, FS_Subset
    <3>4. Cardinality(Checkers(i)) \in Nat /\ Cardinality(Checkers(i)') \in Nat
      BY <3>1, <3>3, FS_CardinalityType
    <3>5. QED
      BY <3>2, <3>3, <3>4
  <2>7. chal[i].wrong + Cardinality(Checkers(i)) <= Limit
    BY <1>2, <2>4 DEF Guesses
  <2>8. chal'[i].wrong + Cardinality(Checkers(i)') <= Limit /\ chal'[i].wrong <= Limit
    BY <1>2, <2>1, <2>3, <2>5, <2>6, <2>7, Counting
  <2>9. \A j \in Ids : chal'[j].wrong = chal'[j].attempts /\ chal'[j].wrong <= Limit
    BY <1>2, <2>1, <2>2, <2>3, <2>8 DEF Guesses
  <2>10. ASSUME NEW j \in Ids, j # i, Checkers(j)' # {} PROVE chal'[j].wrong + Cardinality(Checkers(j)') <= Limit
    <3>1. Checkers(j)' \subseteq Checkers(j)
      BY <1>3 DEF Checkers, CheckOn
    <3>2. IsFiniteSet(Checkers(j)) /\ Cardinality(Checkers(j)) \in Nat
      BY Counting
    <3>3. Cardinality(Checkers(j)') <= Cardinality(Checkers(j)) /\ Cardinality(Checkers(j)') \in Nat
      BY <3>1, <3>2, FS_Subset, FS_CardinalityType
    <3>4. chal[j].wrong + Cardinality(Checkers(j)) <= Limit /\ chal'[j] = chal[j]
      BY <2>2, <2>10, <3>1 DEF Guesses
    <3>5. QED
      BY <2>5, <3>2, <3>3, <3>4, Counting
  <2>11. Limit' = Limit
    BY DEF Limit
  <2>12. \A j \in Ids : Checkers(j)' # {} => chal'[j].wrong + Cardinality(Checkers(j)') <= Limit
    BY <2>8, <2>10
  <2>13. QED
    BY <2>9, <2>11, <2>12 DEF Guesses
<1>6. QED
  BY <1>2, <1>4, <1>5

\* A handler begins a check while attempts are left.
LEMMA LookGuesses ==
  ASSUME Types, Places, Guesses, Types', NEW r \in Requests, Look(r)
  PROVE  Guesses'
<1>1. PICK i \in Ids, op \in {"login", "link", "account_delete"}, pc \in {"check", "send"} :
        Read(r, i, op, pc) /\ (pc = "check" => MayTry(i))
  BY DEF Look, ReadLogin, ReadLink, ReadDeletion, ReadResend
<1>2. chal' = chal /\ \A q \in Requests : IF q = r THEN req'[q].pc = pc /\ req'[q].id = i
                                         ELSE req'[q].pc = req[q].pc /\ req'[q].id = req[q].id
  BY <1>1 DEF Read, Types, Work, Idle
<1>3. \A j \in Ids : chal[j].wrong = chal[j].attempts /\ chal[j].wrong \in Nat /\ chal[j].wrong <= Limit
  BY DEF Guesses, Types, Row
<1>4. ASSUME NEW j \in Ids, Checkers(j)' # {} PROVE chal'[j].wrong + Cardinality(Checkers(j)') <= Limit
  <2>1. Checkers(j)' \in SUBSET Requests
    BY DEF Checkers
  <2>2. Cardinality(Checkers(j)') \in Nat /\ Cardinality(Checkers(j)') <= Cardinality(Requests)
    BY <2>1, Counting
  <2>3. CASE j = i /\ pc = "check"
    BY <1>1, <1>2, <1>3, <2>2, <2>3, Counting, Bounds DEF MayTry, Limit
  <2>4. CASE ~(j = i /\ pc = "check")
    <3>1. Checkers(j)' \subseteq Checkers(j)
      BY <1>2, <2>4 DEF Checkers
    <3>2. IsFiniteSet(Checkers(j)) /\ Cardinality(Checkers(j)) \in Nat
      BY Counting
    <3>3. Cardinality(Checkers(j)') <= Cardinality(Checkers(j))
      BY <3>1, <3>2, FS_Subset
    <3>4. chal[j].wrong + Cardinality(Checkers(j)) <= Limit
      BY <1>4, <3>1 DEF Guesses
    <3>5. QED
      BY <1>2, <1>3, <2>2, <3>2, <3>3, <3>4, Counting
  <2>5. QED
    BY <2>3, <2>4
<1>5. Limit' = Limit
  BY DEF Limit
<1>6. QED
  BY <1>2, <1>3, <1>4, <1>5 DEF Guesses

\* Every step keeps Guesses.
LEMMA NextGuesses == Types /\ Places /\ Guesses /\ Types' /\ [Next]_vars => Guesses'
<1> SUFFICES ASSUME Types, Places, Guesses, Types', [Next]_vars PROVE Guesses'
  OBVIOUS
<1>1. ASSUME NEW r \in Requests, Look(r) \/ Handle(r) \/ Break(r) PROVE Guesses'
  BY <1>1, TriedSteps, WrongGuesses, LookGuesses, GuessOn DEF Handle
<1>2. QED
  BY <1>1, TriedRest, GuessOn DEF Next

\* No guess at first.
LEMMA InitGuesses == Init => Guesses
<1> SUFFICES ASSUME Init PROVE Guesses
  OBVIOUS
<1>1. \A i \in Ids : chal[i].wrong = 0 /\ chal[i].attempts = 0 /\ Checkers(i) = {}
  BY DEF Init, NoChallenge, Idle, Checkers
<1>2. QED
  BY <1>1, Counting DEF Guesses

\* What the forms of a challenge promise its owner: their codes have been mailed, and no
\* more are refused than the limit and those being checked when it was reached
\* (account.js:587, account.js:619).
THEOREM ChallengesSoundHold == Spec => []ChallengesSound
<1>1. Spec => []Mailed
  BY TypesHold, HoldingHolds, InitMailed, NextMailed, PTL DEF Spec
<1>2. Spec => []Guesses
  BY TypesHold, InitGuesses, NextGuesses, PTL DEF Spec
<1>3. Types /\ Mailed /\ Guesses => ChallengesSound
  BY TypesMeans DEF Mailed, Guesses, Limit, ChallengesSound, GuessesBounded
<1>4. QED
  BY <1>1, <1>2, <1>3, TypesHold, PTL

-------------------------------------------------------------------------------
\* The authenticator: what has been used, and what is about to be, belongs to a secret
\* that has been enabled.  As long as no uses have overlapped, at most one handler is
\* about to record a counter, no older than the one recorded; those that have recorded
\* theirs, and the sessions, are covered by it; and no two are of one code.
Redeems(r) == req[r].pc \in {"counter", "session"} /\ req[r].secret > 0
Pair(r) == <<req[r].secret, req[r].counter>>
Apart ==
  /\ \A r, q \in Requests : req[r].pc = "counter" /\ req[q].pc = "counter" => q = r
  /\ \A r \in Requests : req[r].pc = "counter" => user.last <= req[r].counter
  /\ \A r \in Requests : req[r].pc = "session" /\ Redeems(r) /\ req[r].secret = user.secret
                         => req[r].counter <= user.last
  /\ \A p \in used : p[1] = user.secret => p[2] <= user.last
  /\ \A r \in Requests : Redeems(r) => Pair(r) \notin used
  /\ \A r, q \in Requests : q # r /\ Redeems(r) /\ Redeems(q) => Pair(q) # Pair(r)
Counted ==
  /\ user.secret \in enabled \cup {0}
  /\ \A r \in Requests : Redeems(r) => req[r].secret \in enabled
  /\ \A p \in used : p[1] \in enabled
  /\ ~overlap => Apart

\* Whoever is past the check was there before with the same code, or is past one by mail.
RedeemsOn == \A g \in Requests : Redeems(g)' =>
  req'[g].pc = req[g].pc /\ req'[g].secret = req[g].secret /\ req'[g].counter = req[g].counter

\* Counted is kept where nobody gets past the check with a code of the authenticator.
LEMMA CountedOn ==
  ASSUME Types, Places, Types', Places', Counted, RedeemsOn, UNCHANGED <<enabled, used>>,
         overlap => overlap',
         \/ user'.secret = user.secret /\ user'.last = user.last
         \/ user'.secret = 0 /\ user'.last = 0
  PROVE  Counted'
<1>1. \A g \in Requests : Redeems(g)' => Redeems(g) /\ Pair(g)' = Pair(g)
  BY DEF RedeemsOn, Redeems, Pair
<1>2. \A g \in Requests : req'[g].pc = "counter" => Redeems(g)'
  BY DEF Places, Redeems
<1>3. \A p \in used : p[1] # 0
  BY Bounds DEF Types
<1>4. \A g \in Requests : req[g].counter \in Nat /\ req[g].secret \in Nat
  BY Bounds DEF Types, Work
<1>5. ASSUME ~overlap' PROVE Apart'
  <2>1. Apart
    BY <1>5 DEF Counted
  <2>2. \A r, q \in Requests : req'[r].pc = "counter" /\ req'[q].pc = "counter" => q = r
    BY <1>2, <2>1 DEF RedeemsOn, Apart
  <2>3. \A r \in Requests : req'[r].pc = "counter" => user'.last <= req'[r].counter
    BY <1>2, <1>4, <2>1 DEF RedeemsOn, Apart
  <2>4. \A r \in Requests : req'[r].pc = "session" /\ Redeems(r)' /\ req'[r].secret = user'.secret
                            => req'[r].counter <= user'.last
    BY <1>1, <2>1 DEF RedeemsOn, Redeems, Apart
  <2>5. \A p \in used' : p[1] = user'.secret => p[2] <= user'.last
    BY <1>3, <2>1 DEF Apart
  <2>6. \A r \in Requests : Redeems(r)' => Pair(r)' \notin used'
    BY <1>1, <2>1 DEF Apart
  <2>7. \A r, q \in Requests : q # r /\ Redeems(r)' /\ Redeems(q)' => Pair(q)' # Pair(r)'
    BY <1>1, <2>1 DEF Apart
  <2>8. QED
    BY <2>2, <2>3, <2>4, <2>5, <2>6, <2>7 DEF Apart
<1>6. user'.secret \in enabled' \cup {0} /\ \A p \in used' : p[1] \in enabled'
  BY DEF Counted
<1>7. \A r \in Requests : Redeems(r)' => req'[r].secret \in enabled'
  BY <1>1 DEF Counted, RedeemsOn
<1>8. QED
  BY <1>5, <1>6, <1>7 DEF Counted

\* A handler that ends redeems nothing.
LEMMA FinishRedeems ==
  ASSUME Types, UNCHANGED req \/ \E r \in Requests : Finish(r)
  PROVE  RedeemsOn
<1>1. Idle.pc = "idle"
  BY DEF Idle
<1>2. QED
  BY <1>1, Finishing DEF RedeemsOn, Redeems

\* The steps that leave the authenticator alone, or take it away.
LEMMA PlainCounted ==
  ASSUME Types, Places, Types', Places', Counted,
         \/ \E r \in Requests :
              \/ InsertChallenge(r) \/ MailCode(r) \/ MailFails(r) \/ CheckWrong(r) \/ Store(r)
              \/ EraseFails(r) \/ Send(r) \/ Erase(r) \/ EraseRefused(r) \/ ConfirmTotp(r)
              \/ Break(r) \/ Look(r) \/ CheckMailed(r)
         \/ StartTotp \/ DisableTotp \/ UNCHANGED vars
         \/ \E i \in Ids : Discard(i) \/ Expire(i) \/ Sweep(i)
  PROVE  Counted'
<1>1. ASSUME UNCHANGED user, UNCHANGED <<enabled, used, overlap>>, RedeemsOn PROVE Counted'
  BY <1>1, CountedOn
<1>2. ASSUME NEW r \in Requests,
             \/ MailCode(r) \/ MailFails(r) \/ CheckWrong(r) \/ Store(r) \/ EraseFails(r)
             \/ EraseRefused(r) \/ Break(r)
      PROVE  Counted'
  BY <1>1, <1>2, FinishRedeems
  DEF MailCode, MailFails, CheckWrong, Store, EraseFails, EraseRefused, Break
<1>3. ASSUME NEW r \in Requests, InsertChallenge(r) PROVE Counted'
  <2>1. /\ UNCHANGED user /\ UNCHANGED <<enabled, used, overlap>>
        /\ Finish(r) \/ \E i : req' = [req EXCEPT ![r] = [Idle EXCEPT !.pc = "mail", !.id = i]]
    BY <1>3 DEF InsertChallenge
  <2>2. CASE Finish(r)
    BY <1>1, <2>1, <2>2, FinishRedeems
  <2>3. CASE \E i : req' = [req EXCEPT ![r] = [Idle EXCEPT !.pc = "mail", !.id = i]]
    <3>1. RedeemsOn
      BY <2>3 DEF Types, Idle, RedeemsOn, Redeems
    <3>2. QED
      BY <1>1, <2>1, <3>1
  <2>4. QED
    BY <2>1, <2>2, <2>3
<1>4. ASSUME NEW r \in Requests, Send(r) \/ ConfirmTotp(r) PROVE Counted'
  <2>1. RedeemsOn
    BY <1>4 DEF Send, ConfirmTotp, Types, Work, RedeemsOn, Redeems
  <2>2. QED
    BY <1>1, <1>4, <2>1 DEF Send, ConfirmTotp
<1>5. ASSUME NEW r \in Requests, Look(r) PROVE Counted'
  <2>1. PICK i \in Ids, op \in {"login", "link", "account_delete"}, pc \in {"check", "send"} : Read(r, i, op, pc)
    BY <1>5 DEF Look, ReadLogin, ReadLink, ReadDeletion, ReadResend
  <2>2. \A q \in Requests : IF q = r THEN req'[q].pc = pc
          ELSE req'[q].pc = req[q].pc /\ req'[q].secret = req[q].secret /\ req'[q].counter = req[q].counter
    <3>1. \A q \in Requests : /\ [req[q] EXCEPT !.alone = FALSE].pc = req[q].pc
                              /\ [req[q] EXCEPT !.alone = FALSE].secret = req[q].secret
                              /\ [req[q] EXCEPT !.alone = FALSE].counter = req[q].counter
      BY DEF Types, Work
    <3>2. \A q \in Requests : IF q = r THEN req'[q].pc = pc
            ELSE req'[q] = req[q] \/ req'[q] = [req[q] EXCEPT !.alone = FALSE]
      BY <2>1 DEF Read, Idle
    <3>3. QED
      BY <3>1, <3>2
  <2>3. RedeemsOn
    BY <2>2 DEF RedeemsOn, Redeems
  <2>4. QED
    BY <1>1, <2>1, <2>3 DEF Read
<1>6. ASSUME NEW r \in Requests, CheckMailed(r) PROVE Counted'
  <2>1. \E to \in {"session", "erase"} :
          req' = [req EXCEPT ![r] = [Local(r, to) EXCEPT !.secret = 0, !.counter = 0]]
    BY <1>6 DEF CheckMailed, Redeem
  <2>2. \A to : [Local(r, to) EXCEPT !.secret = 0, !.counter = 0].secret = 0
    BY DEF Local, Idle
  <2>3. \A q \in Requests : IF q = r THEN req'[q].secret = 0 ELSE req'[q] = req[q]
    BY <2>1, <2>2 DEF Types
  <2>4. RedeemsOn
    BY <2>3 DEF RedeemsOn, Redeems
  <2>5. QED
    BY <1>1, <1>6, <2>4 DEF CheckMailed
<1>7. ASSUME NEW r \in Requests, Erase(r) PROVE Counted'
  <2>1. user'.secret = 0 /\ user'.last = 0
    BY <1>7 DEF Erase, NewUser
  <2>2. QED
    BY <1>7, <2>1, FinishRedeems, CountedOn DEF Erase
<1>8. CASE DisableTotp
  <2>1. user'.secret = 0 /\ user'.last = 0
    BY <1>8 DEF DisableTotp, NewUser
  <2>2. QED
    BY <1>8, <2>1, FinishRedeems, CountedOn DEF DisableTotp
<1>9. CASE StartTotp
  <2>1. user'.secret = user.secret /\ user'.last = user.last
    BY <1>9 DEF StartTotp, Types, User
  <2>2. QED
    BY <1>9, <2>1, FinishRedeems, CountedOn DEF StartTotp
<1>10. CASE UNCHANGED vars \/ \E i \in Ids : Discard(i) \/ Expire(i) \/ Sweep(i)
  BY <1>1, <1>10, FinishRedeems DEF vars, Discard, Expire, Sweep
<1>11. QED
  BY <1>2, <1>3, <1>4, <1>5, <1>6, <1>7, <1>8, <1>9, <1>10

\* A code that is newer than what is recorded: it is nobody else's.
LEMMA TotpCounted ==
  ASSUME Types, Places, Types', Places', Counted, NEW r \in Requests, CheckTotp(r)
  PROVE  Counted'
<1>1. PICK c \in 1..Counters : Fresh(c) /\ Redeem(r, "counter", user.secret, c)
  BY DEF CheckTotp
<1>2. /\ UNCHANGED <<user, enabled, used>> /\ At(r, "check") /\ user.secret > 0 /\ user.secret \in enabled
      /\ overlap' = (overlap \/ \E q \in Requests \ {r} : At(q, "counter"))
  BY DEF CheckTotp, Counted
<1>3. c \in Nat /\ c > user.last /\ user.last \in Nat /\ user.secret \in Nat
  BY <1>1, Bounds DEF Fresh, Types, User
<1>4. PICK to \in {"counter", "erase"} :
        req' = [req EXCEPT ![r] = [Local(r, to) EXCEPT !.secret = user.secret, !.counter = c]]
  BY <1>1 DEF Redeem
<1>5. /\ req'[r].pc = to /\ req'[r].secret = user.secret /\ req'[r].counter = c
      /\ \A q \in Requests : q # r => req'[q] = req[q]
  BY <1>4 DEF Types, Local, Idle
<1>6. CASE to = "erase"
  <2>1. RedeemsOn
    BY <1>5, <1>6 DEF RedeemsOn, Redeems
  <2>2. QED
    BY <1>2, <2>1, CountedOn
<1>7. CASE to = "counter"
  <2>1. \A q \in Requests : q # r => Redeems(q)' = Redeems(q) /\ Pair(q)' = Pair(q)
    BY <1>5 DEF Redeems, Pair
  <2>2. Redeems(r)' /\ Pair(r)' = <<user.secret, c>>
    BY <1>2, <1>5, <1>7 DEF Redeems, Pair
  <2>3. \A q \in Requests : Redeems(q)' => req'[q].secret \in enabled'
    BY <1>2, <1>5, <2>1 DEF Counted
  <2>4. ASSUME ~overlap' PROVE Apart'
    <3>1. Apart /\ \A q \in Requests : q # r => req[q].pc # "counter"
      BY <1>2, <2>4 DEF Counted, At
    <3>2. \A q, p \in Requests : req'[q].pc = "counter" /\ req'[p].pc = "counter" => p = q
      BY <1>5, <3>1
    <3>3. \A q \in Requests : req'[q].pc = "counter" => user'.last <= req'[q].counter
      BY <1>2, <1>3, <1>5, <3>1
    <3>4. \A q \in Requests : req'[q].pc = "session" /\ Redeems(q)' /\ req'[q].secret = user'.secret
                              => req'[q].counter <= user'.last
      BY <1>2, <1>5, <1>7, <2>1, <3>1 DEF Apart
    <3>5. \A p \in used' : p[1] = user'.secret => p[2] <= user'.last
      BY <1>2, <3>1 DEF Apart
    <3>6. <<user.secret, c>> \notin used
      <4>1. SUFFICES ASSUME <<user.secret, c>> \in used PROVE FALSE
        OBVIOUS
      <4>2. c <= user.last
        BY <3>1, <4>1 DEF Apart
      <4>3. QED
        BY <1>3, <4>2
    <3>7. \A q \in Requests : Redeems(q)' => Pair(q)' \notin used'
      BY <1>2, <2>1, <2>2, <3>1, <3>6 DEF Apart
    <3>8. \A q \in Requests : q # r /\ Redeems(q) => Pair(q) # <<user.secret, c>>
      <4>1. SUFFICES ASSUME NEW q \in Requests, q # r, Redeems(q), Pair(q) = <<user.secret, c>> PROVE FALSE
        OBVIOUS
      <4>2. req[q].secret = user.secret /\ req[q].counter = c /\ req[q].pc = "session"
        BY <3>1, <4>1 DEF Pair, Redeems
      <4>3. c <= user.last
        BY <3>1, <4>1, <4>2 DEF Apart
      <4>4. QED
        BY <1>3, <4>3
    <3>9. \A q, p \in Requests : p # q /\ Redeems(q)' /\ Redeems(p)' => Pair(p)' # Pair(q)'
      BY <2>1, <2>2, <3>1, <3>8 DEF Apart
    <3>10. QED
      BY <3>2, <3>3, <3>4, <3>5, <3>7, <3>9 DEF Apart
  <2>5. QED
    BY <1>2, <2>3, <2>4 DEF Counted
<1>8. QED
  BY <1>6, <1>7

\* The counter is recorded, and as long as nothing has overlapped, none is older.
LEMMA UpdateCounted ==
  ASSUME Types, Places, Types', Places', Counted, NEW r \in Requests, UpdateCounter(r)
  PROVE  Counted'
<1>1. /\ req[r].pc = "counter" /\ UNCHANGED <<enabled, used, overlap>>
      /\ req' = [req EXCEPT ![r].pc = "session"] /\ user' = [user EXCEPT !.last = req[r].counter]
  BY DEF UpdateCounter, At
<1>2. user'.last = req[r].counter /\ user'.secret = user.secret
  BY <1>1 DEF Types, User
<1>3. /\ \A q \in Requests : /\ req'[q].secret = req[q].secret /\ req'[q].counter = req[q].counter
                             /\ q # r => req'[q].pc = req[q].pc
      /\ req'[r].pc = "session"
  BY <1>1 DEF Types, Work
<1>4. \A q \in Requests : (Redeems(q)' <=> Redeems(q)) /\ Pair(q)' = Pair(q)
  BY <1>1, <1>3 DEF Redeems, Pair
<1>5. \A q \in Requests : req[q].counter \in Nat
  BY Bounds DEF Types, Work
<1>6. user.last \in Nat
  BY Bounds DEF Types, User
<1>7. ASSUME ~overlap' PROVE Apart'
  <2>1. Apart
    BY <1>1, <1>7 DEF Counted
  <2>2. user.last <= req[r].counter /\ \A q \in Requests : req'[q].pc # "counter"
    BY <1>1, <1>3, <2>1 DEF Apart
  <2>3. \A q \in Requests : req'[q].pc = "session" /\ Redeems(q)' /\ req'[q].secret = user'.secret
                            => req'[q].counter <= user'.last
    <3>1. \A q \in Requests : q # r /\ req[q].pc = "session" /\ Redeems(q) /\ req[q].secret = user.secret
                              => req[q].counter <= user.last
      BY <2>1 DEF Apart
    <3>2. QED
      BY <1>2, <1>3, <1>4, <1>5, <1>6, <2>2, <3>1
  <2>4. \A p \in used' : p[1] = user'.secret => p[2] <= user'.last
    <3>1. \A p \in used : p[2] \in Nat
      BY Bounds DEF Types
    <3>2. QED
      BY <1>1, <1>2, <1>5, <1>6, <2>1, <2>2, <3>1 DEF Apart
  <2>5. \A q \in Requests : Redeems(q)' => Pair(q)' \notin used'
    BY <1>1, <1>4, <2>1 DEF Apart
  <2>6. \A q, p \in Requests : p # q /\ Redeems(q)' /\ Redeems(p)' => Pair(p)' # Pair(q)'
    BY <1>4, <2>1 DEF Apart
  <2>7. QED
    BY <2>2, <2>3, <2>4, <2>5, <2>6 DEF Apart
<1>8. QED
  BY <1>1, <1>2, <1>3, <1>4, <1>7 DEF Counted

\* A session is opened: its code is used, and the secret is that of nobody who is older.
LEMMA SessionCounted ==
  ASSUME Types, Places, Types', Places', Counted, NEW r \in Requests, CreateSession(r)
  PROVE  Counted'
<1>1. /\ req[r].pc = "session" /\ UNCHANGED <<user, enabled, overlap>> /\ Finish(r)
      /\ used' = IF req[r].secret > 0 /\ ~overlap THEN used \cup {Pair(r)} ELSE used
  BY DEF CreateSession, At, Pair
<1>2. RedeemsOn
  BY <1>1, FinishRedeems
<1>3. CASE ~(req[r].secret > 0 /\ ~overlap)
  BY <1>1, <1>2, <1>3, CountedOn
<1>4. CASE req[r].secret > 0 /\ ~overlap
  <2>1. used' = used \cup {Pair(r)} /\ Redeems(r) /\ Apart
    BY <1>1, <1>4 DEF Redeems, Counted
  <2>2. \A q \in Requests : Redeems(q)' => q # r /\ Redeems(q) /\ Pair(q)' = Pair(q) /\ req'[q] = req[q]
    <3>1. Idle.pc = "idle"
      BY DEF Idle
    <3>2. QED
      BY <1>1, <3>1, Finishing DEF Redeems, Pair
  <2>3. \A q \in Requests : req'[q].pc = "counter" => Redeems(q)'
    BY DEF Places, Redeems
  <2>4. \A p \in used' : p[1] \in enabled' /\ (p[1] = user'.secret => p[2] <= user'.last)
    BY <1>1, <2>1 DEF Apart, Counted, Pair
  <2>5. \A q \in Requests : Redeems(q)' => Pair(q)' \notin used'
    BY <2>1, <2>2 DEF Apart
  <2>6. \A q, p \in Requests : p # q /\ Redeems(q)' /\ Redeems(p)' => Pair(p)' # Pair(q)'
    BY <2>1, <2>2 DEF Apart
  <2>7. \A q, p \in Requests : req'[q].pc = "counter" /\ req'[p].pc = "counter" => p = q
    BY <2>1, <2>2, <2>3 DEF Apart
  <2>8. \A q \in Requests : req'[q].pc = "counter" => user'.last <= req'[q].counter
    BY <1>1, <2>1, <2>2, <2>3 DEF Apart
  <2>9. \A q \in Requests : req'[q].pc = "session" /\ Redeems(q)' /\ req'[q].secret = user'.secret
                            => req'[q].counter <= user'.last
    BY <1>1, <2>1, <2>2 DEF Apart
  <2>10. Apart'
    BY <2>4, <2>5, <2>6, <2>7, <2>8, <2>9 DEF Apart
  <2>11. QED
    BY <1>1, <2>2, <2>4, <2>10 DEF Counted
<1>5. QED
  BY <1>3, <1>4

\* A secret is enabled: the first time nobody has a code of it.
LEMMA EnableCounted ==
  ASSUME Types, Places, Types', Places', Counted, NEW r \in Requests, EnableTotp(r)
  PROVE  Counted'
<1> DEFINE s == req[r].secret
<1>1. /\ enabled' = enabled \cup {s} /\ overlap' = (overlap \/ s \in enabled) /\ used' = used /\ Finish(r)
      /\ user' = [user EXCEPT !.secret = s, !.pending = 0, !.last = 0]
  BY DEF EnableTotp
<1>2. user'.secret = s /\ user'.last = 0
  BY <1>1 DEF Types, User
<1>3. \A q \in Requests : Redeems(q)' => Redeems(q) /\ Pair(q)' = Pair(q) /\ req'[q] = req[q]
  <2>1. Idle.pc = "idle"
    BY DEF Idle
  <2>2. QED
    BY <1>1, <2>1, Finishing DEF Redeems, Pair
<1>4. \A q \in Requests : req'[q].pc = "counter" => Redeems(q)'
  BY DEF Places, Redeems
<1>5. ASSUME ~overlap' PROVE Apart'
  <2>1. Apart /\ s \notin enabled
    BY <1>1, <1>5 DEF Counted
  <2>2. \A q, p \in Requests : req'[q].pc = "counter" /\ req'[p].pc = "counter" => p = q
    BY <1>3, <1>4, <2>1 DEF Apart
  <2>3. \A q \in Requests : req'[q].pc = "counter" => user'.last <= req'[q].counter
    BY <1>2, Bounds DEF Types, Work
  <2>4. \A q \in Requests : Redeems(q)' => req'[q].secret # s
    BY <1>3, <2>1 DEF Counted
  <2>5. \A p \in used' : p[1] # s
    BY <1>1, <2>1 DEF Counted
  <2>6. \A q \in Requests : Redeems(q)' => Pair(q)' \notin used'
    BY <1>1, <1>3, <2>1 DEF Apart
  <2>7. \A q, p \in Requests : p # q /\ Redeems(q)' /\ Redeems(p)' => Pair(p)' # Pair(q)'
    BY <1>3, <2>1 DEF Apart
  <2>8. QED
    BY <1>2, <2>2, <2>3, <2>4, <2>5, <2>6, <2>7 DEF Apart
<1>6. QED
  BY <1>1, <1>2, <1>3, <1>5 DEF Counted

\* Every step keeps Counted.
LEMMA NextCounted == Types /\ Places /\ Types' /\ Places' /\ Counted /\ [Next]_vars => Counted'
<1> SUFFICES ASSUME Types, Places, Types', Places', Counted, [Next]_vars PROVE Counted'
  OBVIOUS
<1>1. ASSUME NEW r \in Requests, Look(r) \/ Handle(r) \/ Break(r) PROVE Counted'
  BY <1>1, PlainCounted, TotpCounted, UpdateCounted, SessionCounted, EnableCounted DEF Handle
<1>2. QED
  BY <1>1, PlainCounted DEF Next

\* No authenticator at first.
LEMMA InitCounted == Init => Counted
BY DEF Init, Counted, Apart, Redeems, Idle, NewUser

\* A code of the authenticator opens one session, unless two uses of the authenticator
\* overlapped (account.js:546).
THEOREM CounterOnceHolds == Spec => CounterOnce
<1>1. Spec => []Counted
  BY TypesHold, InitCounted, NextCounted, PTL DEF Spec
<1>2. Types /\ Counted /\ [Next]_vars =>
        [\A r \in Requests :
           CreateSession(r) /\ ~overlap => <<req[r].secret, req[r].counter>> \notin used]_vars
  <2>1. ASSUME Types, Counted, NEW r \in Requests, CreateSession(r), ~overlap
        PROVE  <<req[r].secret, req[r].counter>> \notin used
    <3>1. CASE req[r].secret = 0
      BY <2>1, <3>1, Bounds DEF Types
    <3>2. CASE req[r].secret # 0
      <4>1. req[r].pc = "session" /\ req[r].secret \in Nat
        BY <2>1, Bounds DEF CreateSession, At, Types, Work
      <4>2. QED
        BY <2>1, <3>2, <4>1 DEF Counted, Apart, Redeems, Pair
    <3>3. QED
      BY <3>1, <3>2
  <2>2. QED
    BY <2>1
<1>3. QED
  BY <1>1, <1>2, TypesHold, PTL DEF CounterOnce, Spec
==============================================================================
