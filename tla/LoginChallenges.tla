---------------------------- MODULE LoginChallenges ----------------------------
(***************************************************************************)
(* The second factor of one account (src/routes/account.js): a login, or   *)
(* the deletion of the account, inserts a row of login_challenges; a form  *)
(* or a link with the code redeems it, a resend replaces the code.  Every  *)
(* statement is awaited, so requests of one browser, or of several,        *)
(* interleave.  TOTP enrolment changes meanwhile what a code is checked    *)
(* against.                                                                *)
(*                                                                         *)
(* Abstracted: what refuses a request before its first write (bot check,   *)
(* password, status, bans, resend delay) is a request that is not made;    *)
(* codes are numbered in the order they are minted, and are not guessed.   *)
(* A statement that touches one row by its id, and follows the check that  *)
(* calls for it, is one step with the check: what others do in between     *)
(* they may as well do before it.                                          *)
(***************************************************************************)
EXTENDS Naturals, FiniteSets

CONSTANTS
  Requests,     \* handlers at work at once (a bound)
  Ids,          \* challenges that are ever inserted (a bound)
  NoId,         \* no cookie
  MaxAttempts,  \* the 5 of "attempts >= 5"
  Resends,      \* RESEND_DELAYS.length
  MaxMails,     \* mails per challenge (a bound: a resend whose UPDATE fails is not
                \* counted)
  Counters,     \* TOTP time steps whose codes are sent: 1..Counters (a bound)
  Secrets,      \* TOTP secrets that are ever drawn: 1..Secrets (a bound)
  Faults        \* TRUE: mail and database errors, and restarts, may happen

ASSUME ChallengesAssumption ==
  /\ {MaxAttempts, Resends, MaxMails, Counters, Secrets} \subseteq Nat
  /\ MaxAttempts > 0 /\ IsFiniteSet(Requests) /\ NoId \notin Ids
  /\ Faults \in BOOLEAN

VARIABLES
  user,     \* the columns of the account's row that the second factor reads
  drawn,    \* how many TOTP secrets have been drawn
  chal,     \* chal[i]: row i of login_challenges; while it is stored, also whether a
            \* browser has its cookie, how many of its codes (1, 2 ...) have been
            \* mailed, and, as history, how many codes its forms have refused
  req,      \* req[r]: where handler r is, and its local variables
  opened,   \* history: challenges that opened a session and may be redeemed again
  enabled,  \* the secrets that have been enabled
  used,     \* history: <<secret, counter>> pairs that have opened a session
  overlap   \* history: two uses of the authenticator overlapped

vars == <<user, drawn, chal, req, opened, enabled, used, overlap>>

NoChallenge ==
  [row |-> "none", purpose |-> "login", method |-> "email", code |-> 0,
   attempts |-> 0, resends |-> 0, known |-> FALSE, mails |-> 0, wrong |-> 0]
Gone == [NoChallenge EXCEPT !.row = "gone"]

Idle ==
  [pc |-> "idle", id |-> NoId, op |-> "login", method |-> "email", code |-> 0,
   secret |-> 0, counter |-> 0, alone |-> TRUE]

\* totp_secret and totp_enabled are one: 0 is NULL and disabled.  last is
\* totp_last_counter, with 0 for NULL.
NewUser == [there |-> TRUE, secret |-> 0, pending |-> 0, last |-> 0]

Purposes == {"login", "account_delete"}
Methods == {"email", "totp"}

TypeOK ==
  /\ user \in [there : BOOLEAN, secret : 0..Secrets, pending : 0..Secrets,
               last : 0..Counters]
  /\ drawn \in 0..Secrets
  /\ chal \in [Ids -> [row : {"none", "live", "expired", "gone"}, purpose : Purposes,
                       method : Methods, code : Nat, attempts : Nat, resends : Nat,
                       known : BOOLEAN, mails : Nat, wrong : Nat]]
  /\ req \in [Requests ->
       [pc : {"idle", "mail", "check", "counter", "session", "send", "store", "erase",
              "enable"},
        id : Ids \cup {NoId}, op : {"login", "link", "account_delete"},
        method : Methods, code : Nat, secret : 0..Secrets, counter : 0..Counters,
        alone : BOOLEAN]]
  /\ opened \subseteq Ids /\ enabled \subseteq 1..Secrets
  /\ used \subseteq (1..Secrets) \X (1..Counters)
  /\ overlap \in BOOLEAN
  /\ ~user.there => \A i \in Ids : chal[i].row \in {"none", "gone"}

Init ==
  /\ user = NewUser /\ drawn = 0
  /\ chal = [i \in Ids |-> NoChallenge]
  /\ req = [r \in Requests |-> Idle]
  /\ opened = {} /\ enabled = {} /\ used = {} /\ overlap = FALSE

At(r, pc) == req[r].pc = pc
Finish(r) == req' = [req EXCEPT ![r] = Idle]

Stored(i) == chal[i].row \in {"live", "expired"}

\* An UPDATE or a DELETE by id does nothing to a row that is not there.
Change(i, row) == chal' = [chal EXCEPT ![i] = IF Stored(i) THEN row ELSE @]
Delete(i) == Change(i, Gone)
-------------------------------------------------------------------------------
(***************************************************************************)
(* Beginning a challenge.                                                  *)
(***************************************************************************)
\* beginTwofa and beginAccountDeletionTwofa.  The method was chosen by a copy of
\* the user that may be old: TOTP was enabled then, and, for a login, preferred
\* (twofa_mode, a column that nothing else reads).
InsertChallenge(r) ==
  \E i \in Ids, purpose \in Purposes,
     method \in {"email"} \cup (IF enabled = {} THEN {} ELSE {"totp"}) :
    /\ At(r, "idle") /\ user.there /\ chal[i].row = "none"
    /\ chal' = [chal EXCEPT ![i] = [NoChallenge EXCEPT !.row = "live",
         !.purpose = purpose, !.method = method,
         !.code = IF method = "email" THEN 1 ELSE 0, !.known = method = "totp"]]
    /\ IF method = "email"
       THEN req' = [req EXCEPT ![r] = [Idle EXCEPT !.pc = "mail", !.id = i]]
       ELSE Finish(r)
    /\ UNCHANGED <<user, drawn, opened, enabled, used, overlap>>

\* The cookie goes out with the answer.
MailCode(r) ==
  /\ At(r, "mail")
  /\ Finish(r)
  /\ Change(req[r].id, [chal[req[r].id] EXCEPT !.mails = @ + 1, !.known = TRUE])
  /\ UNCHANGED <<user, drawn, opened, enabled, used, overlap>>

MailFails(r) ==
  /\ At(r, "mail") /\ Faults
  /\ Finish(r)
  /\ Delete(req[r].id)
  /\ UNCHANGED <<user, drawn, opened, enabled, used, overlap>>
-------------------------------------------------------------------------------
(***************************************************************************)
(* Reading a challenge: the cookie's row, if it has not expired.           *)
(***************************************************************************)
Readable(i) == chal[i].known /\ chal[i].row = "live"
Holds(r, i) == req[r].id = i

\* The local copy of the row that the rest of the handler works with; alone, as
\* long as nobody else has one, is history.
Read(r, i, op, pc) ==
  LET others == {q \in Requests \ {r} : Holds(q, i)}
      copy == [Idle EXCEPT !.pc = pc, !.id = i, !.op = op, !.alone = others = {},
                 !.method = chal[i].method, !.code = chal[i].code]
  IN /\ req' = [q \in Requests |->
          IF q = r THEN copy
          ELSE IF q \in others THEN [req[q] EXCEPT !.alone = FALSE] ELSE req[q]]
     /\ UNCHANGED <<user, drawn, chal, opened, enabled, used, overlap>>

MayTry(i) == chal[i].attempts < MaxAttempts

ReadLogin(r, i) ==
  /\ At(r, "idle") /\ Readable(i) /\ MayTry(i) /\ chal[i].purpose = "login"
  /\ Read(r, i, "login", "check")

\* GET /login/2fa/email.
ReadLink(r, i) ==
  /\ At(r, "idle") /\ Readable(i) /\ MayTry(i)
  /\ chal[i].purpose = "login" /\ chal[i].method = "email"
  /\ Read(r, i, "link", "check")

ReadDeletion(r, i) ==
  /\ At(r, "idle") /\ user.there /\ Readable(i) /\ MayTry(i)
  /\ chal[i].purpose = "account_delete"
  /\ Read(r, i, "account_delete", "check")

\* The delay since the last mail has passed.
ReadResend(r, i) ==
  /\ At(r, "idle") /\ Readable(i) /\ chal[i].resends < Resends
  /\ chal[i].mails < MaxMails
  /\ chal[i].purpose = "login" /\ chal[i].method = "email"
  /\ Read(r, i, "login", "send")

\* What deletes a challenge and does no more: another deletion begun in the same
\* browser, a deletion cancelled, a confirmation whose challenge does not
\* qualify, and a resend when all have been used.
Discard(i) ==
  /\ Stored(i) /\ chal[i].known
  /\ user.there \/ (chal[i].row = "live" /\ chal[i].resends >= Resends)
  /\ Delete(i)
  /\ UNCHANGED <<user, drawn, req, opened, enabled, used, overlap>>
-------------------------------------------------------------------------------
(***************************************************************************)
(* Checking a code, against the copy of the challenge and a fresh copy of  *)
(* the user.  A login that is right takes its row away; a deletion goes on *)
(* to delete the account.                                                  *)
(***************************************************************************)
Local(r, pc) ==
  [Idle EXCEPT !.pc = pc, !.id = req[r].id, !.alone = req[r].alone]

\* Mutant: the row of a challenge is left to the sweep.
ConsumeNothing(r) == chal' = chal
Consume(r) == IF req[r].op = "account_delete" THEN chal' = chal ELSE Delete(req[r].id)

Redeem(r, pc, secret, counter) ==
  /\ req' = [req EXCEPT ![r] =
       [Local(r, IF req[r].op = "account_delete" THEN "erase" ELSE pc)
          EXCEPT !.secret = secret, !.counter = counter]]
  /\ Consume(r)

\* The code that the copy holds, which has been mailed (CodesMailed).
CheckMailed(r) ==
  /\ At(r, "check") /\ req[r].method = "email" /\ user.there
  /\ Redeem(r, "session", 0, 0)
  /\ UNCHANGED <<user, drawn, opened, enabled, used, overlap>>

\* Mutant: the counter used last is taken again.
FreshOrLast(c) == c >= user.last
Fresh(c) == c > user.last

\* A code of a step within one of the current time: matchingTotpCounter says of
\* which.  Any other is a wrong code; what time it is is left open.
CheckTotp(r) ==
  /\ At(r, "check") /\ req[r].method = "totp" /\ user.there /\ user.secret > 0
  /\ \E c \in 1..Counters : Fresh(c) /\ Redeem(r, "counter", user.secret, c)
  /\ overlap' = (overlap \/ \E q \in Requests \ {r} : At(q, "counter"))
  /\ UNCHANGED <<user, drawn, opened, enabled, used>>

\* attempts = attempts + 1, and the answer.  A link that does not fit is answered
\* and not counted.
CheckWrong(r) ==
  /\ At(r, "check")
  /\ Finish(r)
  /\ IF req[r].op = "link" THEN chal' = chal
     ELSE Change(req[r].id, [chal[req[r].id] EXCEPT !.attempts = @ + 1, !.wrong = @ + 1])
  /\ UNCHANGED <<user, drawn, opened, enabled, used, overlap>>

\* Unconditional: of two overlapping logins the later writes its counter, even if
\* it is the older one.
UpdateCounter(r) ==
  /\ At(r, "counter") /\ user.there
  /\ req' = [req EXCEPT ![r].pc = "session"]
  /\ user' = [user EXCEPT !.last = req[r].counter]
  /\ UNCHANGED <<drawn, chal, opened, enabled, used, overlap>>

\* The pair of a session by email is <<0, 0>>, which is of no interest; nor is any
\* once uses have overlapped.
CreateSession(r) ==
  LET i == req[r].id  pair == <<req[r].secret, req[r].counter>> IN
  /\ At(r, "session") /\ user.there
  /\ Finish(r)
  /\ opened' = IF Stored(i) \/ \E q \in Requests \ {r} : Holds(q, i)
               THEN opened \cup {i} ELSE opened
  /\ used' = IF req[r].secret > 0 /\ ~overlap THEN used \cup {pair} ELSE used
  /\ UNCHANGED <<user, drawn, chal, enabled, overlap>>
-------------------------------------------------------------------------------
(***************************************************************************)
(* Another mail.                                                           *)
(***************************************************************************)
Send(r) ==
  LET i == req[r].id IN
  /\ At(r, "send") /\ user.there
  /\ req' = [req EXCEPT ![r].pc = "store", ![r].code = chal[i].mails + 1]
  /\ Change(i, [chal[i] EXCEPT !.mails = @ + 1])
  /\ UNCHANGED <<user, drawn, opened, enabled, used, overlap>>

\* Mutant: a new code comes with new attempts.
StoreResetting(r) ==
  LET i == req[r].id IN
  /\ At(r, "store")
  /\ Finish(r)
  /\ Change(i, [chal[i] EXCEPT !.code = req[r].code, !.row = "live",
                               !.resends = @ + 1, !.attempts = 0])
  /\ UNCHANGED <<user, drawn, opened, enabled, used, overlap>>

\* A row that has expired meanwhile, and has not been swept, lives again.
Store(r) ==
  LET i == req[r].id IN
  /\ At(r, "store")
  /\ Finish(r)
  /\ Change(i, [chal[i] EXCEPT !.code = req[r].code, !.row = "live", !.resends = @ + 1])
  /\ UNCHANGED <<user, drawn, opened, enabled, used, overlap>>
-------------------------------------------------------------------------------
(***************************************************************************)
(* Deleting the account.                                                   *)
(***************************************************************************)
\* deleteUserAccount: the user's row, and by cascade every challenge.
Erase(r) ==
  /\ At(r, "erase") /\ user.there
  /\ Finish(r)
  /\ user' = [NewUser EXCEPT !.there = FALSE]
  /\ chal' = [i \in Ids |-> IF Stored(i) THEN Gone ELSE chal[i]]
  /\ UNCHANGED <<drawn, opened, enabled, used, overlap>>

EraseFails(r) ==
  /\ At(r, "erase") /\ Faults
  /\ Finish(r)
  /\ Delete(req[r].id)
  /\ UNCHANGED <<user, drawn, opened, enabled, used, overlap>>

\* The user has become an owner since: the challenge stays.
EraseRefused(r) ==
  /\ At(r, "erase")
  /\ Finish(r)
  /\ UNCHANGED <<user, drawn, chal, opened, enabled, used, overlap>>
-------------------------------------------------------------------------------
(***************************************************************************)
(* The authenticator.                                                      *)
(***************************************************************************)
StartTotp ==
  /\ user.there /\ drawn < Secrets
  /\ drawn' = drawn + 1
  /\ user' = [user EXCEPT !.pending = drawn + 1]
  /\ UNCHANGED <<chal, req, opened, enabled, used, overlap>>

\* The pending secret is read and the code checked against it, then it is enabled.
ConfirmTotp(r) ==
  /\ At(r, "idle") /\ user.there /\ user.pending > 0
  /\ req' = [req EXCEPT ![r].pc = "enable", ![r].secret = user.pending]
  /\ UNCHANGED <<user, drawn, chal, opened, enabled, used, overlap>>

EnableTotp(r) ==
  /\ At(r, "enable") /\ user.there
  /\ Finish(r)
  /\ user' = [user EXCEPT !.secret = req[r].secret, !.pending = 0, !.last = 0]
  /\ enabled' = enabled \cup {req[r].secret}
  /\ overlap' = (overlap \/ req[r].secret \in enabled)
  /\ UNCHANGED <<drawn, chal, opened, used>>

DisableTotp ==
  /\ user.there
  /\ user' = NewUser
  /\ UNCHANGED <<drawn, chal, req, opened, enabled, used, overlap>>
-------------------------------------------------------------------------------
(***************************************************************************)
(* Time and failures.                                                      *)
(***************************************************************************)
\* Only a handler that had read the row can still change it: without one, the
\* row waits for the sweep.
Expire(i) ==
  /\ chal[i].row = "live" /\ \E r \in Requests : Holds(r, i)
  /\ chal' = [chal EXCEPT ![i].row = "expired"]
  /\ UNCHANGED <<user, drawn, req, opened, enabled, used, overlap>>

\* sweepSessions, every ten minutes.
Sweep(i) ==
  /\ chal[i].row = "expired" \/ (chal[i].row = "live" /\ \A r \in Requests : ~Holds(r, i))
  /\ Delete(i)
  /\ UNCHANGED <<user, drawn, req, opened, enabled, used, overlap>>

\* A handler ends where it is: an error of the database or of the mail, a row of
\* the user that is no longer there, the end of the process.
Break(r) ==
  /\ ~At(r, "idle") /\ (Faults \/ ~user.there)
  /\ Finish(r)
  /\ UNCHANGED <<user, drawn, chal, opened, enabled, used, overlap>>

Look(r) ==
  \E i \in Ids : ReadLogin(r, i) \/ ReadLink(r, i) \/ ReadDeletion(r, i) \/ ReadResend(r, i)
Handle(r) ==
  \/ InsertChallenge(r) \/ MailCode(r) \/ MailFails(r)
  \/ CheckMailed(r) \/ CheckTotp(r) \/ CheckWrong(r)
  \/ UpdateCounter(r) \/ CreateSession(r)
  \/ Send(r) \/ Store(r)
  \/ Erase(r) \/ EraseFails(r) \/ EraseRefused(r)
  \/ ConfirmTotp(r) \/ EnableTotp(r)

Next ==
  \/ \E r \in Requests : Look(r) \/ Handle(r) \/ Break(r)
  \/ StartTotp \/ DisableTotp
  \/ \E i \in Ids : Discard(i) \/ Expire(i) \/ Sweep(i)

Spec == Init /\ [][Next]_vars
-------------------------------------------------------------------------------
\* The attempts are read with the challenge and counted after the check, and a
\* resend gives the row a new code and a new life.  All the same the forms of a
\* challenge refuse no more codes than the limit, and those of handlers that had
\* read it before the limit was reached.
GuessesBounded ==
  \A i \in Ids : chal[i].wrong <= MaxAttempts + Cardinality(Requests) - 1

\* A code that a browser is asked for has been mailed: the first before the
\* browser learns of the challenge, a later one before the row changes to it.
CodesMailed ==
  \A i \in Ids :
    chal[i].known /\ chal[i].method = "email" => chal[i].code <= chal[i].mails

\* What the forms of a challenge promise its owner.
ChallengesSound == TypeOK /\ GuessesBounded /\ CodesMailed

\* One challenge opens one session, however often its code is sent by form and by
\* link, and whatever is resent: a second session takes a handler that had read
\* the challenge while another was at work on it.
RedeemedOnce ==
  [][\A r \in Requests : CreateSession(r) /\ req[r].id \in opened => ~req[r].alone]_vars

\* A code of the authenticator opens one session, in any challenge and after any
\* re-enrolment.  Excepted are overlaps: a code checked while another waits to be
\* recorded, which may then be recorded last and be the older one; and a second
\* confirmation of one enrolment, which clears what was recorded.
CounterOnce ==
  [][\A r \in Requests :
       CreateSession(r) /\ ~overlap => <<req[r].secret, req[r].counter>> \notin used]_vars
================================================================================
