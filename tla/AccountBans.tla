------------------------------ MODULE AccountBans ------------------------------
(***************************************************************************)
(* One account, what administrators decide about it                        *)
(* (src/routes/admin.js), the bans that decisions add and lift, the index  *)
(* of the bans that every process keeps in memory (src/bans.js), and the   *)
(* requests and logins of the account that look it up (attachUser in       *)
(* src/auth.js, POST /login in src/routes/account.js).                     *)
(*                                                                         *)
(* The index is replaced by loads, each a SELECT whose rows are applied    *)
(* when they arrive.  Several may be under way.  Each reads as it is sent; *)
(* answers of D1 arrive in any order (those of the local database in       *)
(* order, which is one of them).                                           *)
(*                                                                         *)
(* Abstracted: bans of addresses go the way of those of e-mail; rows that  *)
(* ban the same are one; the texts, the audit row and the mail that follow *)
(* a decision; a statement that writes to bans, and the reload that its    *)
(* answer starts, are one step; a statement that fails has done nothing.   *)
(***************************************************************************)
EXTENDS Naturals, Sequences

CONSTANTS
  Requests,  \* handlers of administrators at work at once (a bound)
  Visits,    \* requests and logins of the account at once (a bound)
  MaxLoads,  \* loads under way at once (a bound)
  Expiring   \* the kinds of ban that are given an expiry (a bound)

ASSUME BansAssumption ==
  /\ MaxLoads \in Nat /\ Expiring \subseteq {"user", "email"}
  /\ Requests \cap Visits = {}

VARIABLES
  account,   \* the row in users, and whether a browser has a session
  bans,      \* bans[k]: the row that bans by k: live, over (expired), or none
  index,     \* idx: the kinds of ban that a lookup finds
  loaded,    \* the promise: none, pending (the load that is current), or done
  loads,     \* the loads under way, in the order in which they began
  overtaken, \* history: the rows applied last were not those of the latest load
  answered,  \* history: bans whose add has returned
  req,       \* req[r]: what handler r has still to do
  visit      \* visit[v]: where a request is, and its local variables

vars == <<account, bans, index, loaded, loads, overtaken, answered, req, visit>>
cache == <<index, loaded, loads, overtaken>>

Kinds == {"user", "email"}
Statuses == {"pending", "approved", "rejected"}
Steps ==
  ({"ban", "lift"} \X Kinds) \cup {<<"approve", "">>, <<"sweep", "">>}

NoVisit == [pc |-> "idle", ready |-> FALSE, login |-> FALSE, approved |-> FALSE,
            covered |-> {}, clean |-> FALSE]

TypeOK ==
  /\ account \in [status : Statuses, session : BOOLEAN]
  /\ bans \in [Kinds -> {"none", "live", "over"}]
  /\ index \subseteq Kinds /\ answered \subseteq Kinds
  /\ loaded \in {"none", "pending", "done"} /\ overtaken \in BOOLEAN
  /\ Len(loads) <= MaxLoads
  /\ \A n \in 1..Len(loads) :
       loads[n] \in [rows : SUBSET Kinds, current : BOOLEAN,
                     passed : BOOLEAN, waits : SUBSET (Requests \cup Visits)]
  /\ \A r \in Requests : req[r].todo \in Seq(Steps) /\ req[r].adds \in Kinds \cup {""}
  /\ visit \in [Visits -> [pc : Kinds \cup {"idle"}, ready : BOOLEAN, login : BOOLEAN,
                           approved : BOOLEAN, covered : SUBSET Kinds, clean : BOOLEAN]]
  /\ loaded = "pending" <=> \E n \in 1..Len(loads) : loads[n].current

Nothing == [todo |-> <<>>, adds |-> ""]

Init ==
  /\ account = [status |-> "pending", session |-> FALSE]
  /\ bans = [k \in Kinds |-> "none"]
  /\ index = {} /\ loaded = "none" /\ loads = <<>> /\ overtaken = FALSE
  /\ answered = {}
  /\ req = [r \in Requests |-> Nothing]
  /\ visit = [v \in Visits |-> NoVisit]

Loads == 1..Len(loads)
Waits(x) == \E n \in Loads : x \in loads[n].waits
Stored == {k \in Kinds : bans[k] # "none"}
\* applyRows passes over what has expired by then.
InForce(rows) == {k \in rows : bans[k] # "over"}
-------------------------------------------------------------------------------
(***************************************************************************)
(* The index.                                                              *)
(***************************************************************************)
NewLoad(x, stored) ==
  [rows |-> stored, current |-> TRUE, passed |-> FALSE, waits |-> {x}]

Join(x) ==
  loads' = [n \in Loads |->
    [loads[n] EXCEPT !.waits = IF loads[n].current THEN @ \cup {x} ELSE @]]

\* Mutant: a load that is under way will do.
ReloadUnlessPending(x) ==
  IF loaded = "pending" THEN Join(x) /\ UNCHANGED loaded
  ELSE /\ Len(loads) < MaxLoads
       /\ loads' = Append(loads, NewLoad(x, Stored'))
       /\ loaded' = "pending"
\* reload forgets the promise and starts a load, which x waits for.
Reload(x) ==
  /\ Len(loads) < MaxLoads
  /\ loads' = Append([n \in Loads |-> [loads[n] EXCEPT !.current = FALSE]],
                      NewLoad(x, Stored'))
  /\ loaded' = "pending"

\* Without the n-th; those that began before it have been passed.
Without(n) ==
  [m \in 1..(Len(loads) - 1) |->
     IF m < n THEN [loads[m] EXCEPT !.passed = TRUE] ELSE loads[m + 1]]

\* History: rows that others have overtaken are no fault of the requests under way.
Excuse(x) == IF overtaken' THEN [x EXCEPT !.covered = {}, !.clean = FALSE] ELSE x

\* applyRows: an administrator who waited for it has an answer, a lookup goes on.
Apply(n) ==
  /\ index' = InForce(loads[n].rows)
  /\ loads' = Without(n) /\ loaded' = IF loads[n].current THEN "done" ELSE loaded
  /\ overtaken' = loads[n].passed
  /\ visit' = [v \in Visits |->
       Excuse([visit[v] EXCEPT !.ready =
                 (@ \/ v \in loads[n].waits) /\ loaded' # "done"])]
  /\ answered' = answered \cup {k \in Kinds :
                    \E r \in Requests \cap loads[n].waits : req[r].adds = k}
  /\ req' = [r \in Requests |->
       IF r \in loads[n].waits THEN [req[r] EXCEPT !.adds = ""] ELSE req[r]]
  /\ UNCHANGED <<account, bans>>

Failed(n) ==
  /\ loads' = [m \in 1..(Len(loads) - 1) |->
       [(IF m < n THEN loads[m] ELSE loads[m + 1]) EXCEPT !.current = FALSE]]
  /\ req' = [r \in Requests |-> IF r \in loads[n].waits THEN Nothing ELSE req[r]]
  /\ visit' = [v \in Visits |-> IF v \in loads[n].waits THEN NoVisit ELSE visit[v]]
  /\ UNCHANGED <<account, bans, index, overtaken, answered>>

\* Mutant: the promise is kept although it has been broken.
LoadFailsKept(n) == Failed(n) /\ loaded' = loaded
\* The error reaches all that wait.  The promise is forgotten, whichever it is.
LoadFails(n) == Failed(n) /\ loaded' = "none"
-------------------------------------------------------------------------------
(***************************************************************************)
(* Administrators: what a handler does, in this order.                     *)
(***************************************************************************)
\* Approving, by the copy of the account that is read first, and what is done
\* about bans whatever the copy says.
Plans ==
  (IF account.status = "pending" THEN {<< <<"approve", "">> >>} ELSE {})
  \cup {<< <<"ban", "user">> >>, << <<"ban", "email">> >>,
        << <<"ban", "user">>, <<"ban", "email">> >>,
        << <<"lift", "user">> >>, << <<"lift", "email">> >>}

\* Decisions whose first statement sets the status: to reject, with or without
\* bans, and the owner's override.
Decisions ==
  {[status |-> "rejected", todo |-> <<>>],
   [status |-> "rejected", todo |-> << <<"ban", "email">>, <<"ban", "user">> >>]}
  \cup (IF account.status = "approved" THEN {}
        ELSE {[status |-> "approved", todo |-> << <<"lift", "user">>, <<"lift", "email">> >>]})

Free(r) == req[r] = Nothing /\ ~Waits(r)

Begin(r) ==
  /\ Free(r)
  /\ \E plan \in Plans : req' = [req EXCEPT ![r].todo = plan]
  /\ UNCHANGED <<account, bans, cache, answered, visit>>

Decide(r) ==
  /\ Free(r)
  /\ \E d \in Decisions :
       /\ account' = [account EXCEPT !.status = d.status]
       /\ req' = [req EXCEPT ![r].todo = d.todo]
  /\ UNCHANGED <<bans, cache, answered, visit>>

\* runMaintenance.
BeginSweep(r) ==
  /\ Free(r)
  /\ req' = [req EXCEPT ![r].todo = << <<"sweep", "">> >>]
  /\ UNCHANGED <<account, bans, cache, answered, visit>>

Ready(r, do) == req[r].todo # <<>> /\ Head(req[r].todo)[1] = do /\ ~Waits(r)
On(r) == Head(req[r].todo)[2]
Rest(r) == [req[r] EXCEPT !.todo = Tail(@)]

\* The account was pending when it was read.
Approve(r) ==
  /\ Ready(r, "approve")
  /\ account' = [account EXCEPT !.status = "approved"]
  /\ req' = [req EXCEPT ![r] = Rest(r)]
  /\ UNCHANGED <<bans, cache, answered, visit>>

\* History: nobody may count on the ban by k any longer.
Uncover(k) ==
  /\ answered' = answered \ {k}
  /\ visit' = [v \in Visits |-> [visit[v] EXCEPT !.covered = @ \ {k}]]
NotAdding(k, x) == IF x.adds = k THEN [x EXCEPT !.adds = ""] ELSE x

AddBan(r) ==
  /\ Ready(r, "ban")
  /\ bans' = [bans EXCEPT ![On(r)] = "live"]
  /\ req' = [req EXCEPT ![r] = [Rest(r) EXCEPT !.adds = On(r)]]
  /\ visit' = [v \in Visits |-> [visit[v] EXCEPT !.clean = FALSE]]
  /\ Reload(r)
  /\ UNCHANGED <<account, index, overtaken, answered>>

\* Mutant: the index is left as it is.
ReloadNever(x) == UNCHANGED <<loads, loaded>>
ReloadLifted(x) == Reload(x)

\* remove and removeMatching.
LiftBan(r) ==
  /\ Ready(r, "lift")
  /\ bans' = [bans EXCEPT ![On(r)] = "none"]
  /\ req' = [q \in Requests |-> NotAdding(On(r), IF q = r THEN Rest(r) ELSE req[q])]
  /\ Uncover(On(r))
  /\ ReloadLifted(r)
  /\ UNCHANGED <<account, index, overtaken>>

\* sweepExpired: without a change there is no reload.
Sweep(r) ==
  /\ Ready(r, "sweep")
  /\ bans' = [k \in Kinds |-> IF bans[k] = "over" THEN "none" ELSE bans[k]]
  /\ req' = [req EXCEPT ![r] = Rest(r)]
  /\ IF bans' # bans THEN Reload(r) ELSE UNCHANGED <<loads, loaded>>
  /\ UNCHANGED <<account, index, overtaken, answered, visit>>

\* A statement fails, and with it the handler.
Break(r) ==
  /\ req[r].todo # <<>> /\ ~Waits(r)
  /\ req' = [req EXCEPT ![r] = Nothing]
  /\ UNCHANGED <<account, bans, cache, answered, visit>>
-------------------------------------------------------------------------------
(***************************************************************************)
(* Requests and logins of the account.                                     *)
(***************************************************************************)
\* The session and the user are read (attachUser), or the user and the password.
\* clean, as history: no ban is stored, and nobody is at work on any.
Arrive(v) ==
  /\ visit[v].pc = "idle"
  /\ \E login \in BOOLEAN :
       /\ IF login THEN account.status = "approved" ELSE account.session
       /\ visit' = [visit EXCEPT ![v] =
            [pc |-> "user", ready |-> FALSE, login |-> login, approved |-> account.status = "approved",
             covered |-> IF overtaken \/ account.status # "approved" THEN {} ELSE answered,
             clean |-> ~overtaken /\ Stored = {} /\ \A r \in Requests : Free(r)]]
  /\ UNCHANGED <<account, bans, cache, answered, req>>

\* load(): the promise there is, or a new one.
Load(v) ==
  /\ visit[v].pc # "idle" /\ ~visit[v].ready /\ loaded # "done" /\ ~Waits(v)
  /\ IF loaded = "none" THEN Len(loads) < MaxLoads /\ loads' = Append(loads, NewLoad(v, Stored))
     ELSE Join(v)
  /\ loaded' = "pending"
  /\ UNCHANGED <<account, bans, index, overtaken, answered, req, visit>>

\* userBan and emailBan, one after the other: the promise that was awaited, be it
\* the current one or not, has been kept.
Looks(v, kind) == visit[v].pc = kind /\ (visit[v].ready \/ (~Waits(v) /\ loaded = "done"))

NotBanned(v) ==
  /\ Looks(v, "user") /\ "user" \notin index
  /\ visit' = [visit EXCEPT ![v].pc = "email", ![v].ready = FALSE]
  /\ UNCHANGED <<account, bans, cache, answered, req>>

\* The request is the account's; a login opens a session (LoginChallenges).
Admit(v) ==
  /\ Looks(v, "email") /\ "email" \notin index /\ visit[v].approved
  /\ account' = IF visit[v].login THEN [account EXCEPT !.session = TRUE]
                ELSE account
  /\ visit' = [visit EXCEPT ![v] = NoVisit]
  /\ UNCHANGED <<bans, cache, answered, req>>

\* The account is not approved: the request is nobody's, its session stays.
Ignore(v) ==
  /\ Looks(v, "email") /\ "email" \notin index /\ ~visit[v].approved
  /\ visit' = [visit EXCEPT ![v] = NoVisit]
  /\ UNCHANGED <<account, bans, cache, answered, req>>

\* A banned account's session is revoked.
Refuse(v) ==
  /\ \E k \in index : Looks(v, k)
  /\ account' = IF visit[v].login THEN account ELSE [account EXCEPT !.session = FALSE]
  /\ visit' = [visit EXCEPT ![v] = NoVisit]
  /\ UNCHANGED <<bans, cache, answered, req>>
-------------------------------------------------------------------------------
\* Time passes: a ban is over, in the database at once, in the index with the next
\* load.
Expire(k) ==
  /\ bans[k] = "live"
  /\ bans' = [bans EXCEPT ![k] = "over"]
  /\ req' = [q \in Requests |-> NotAdding(k, req[q])]
  /\ Uncover(k)
  /\ UNCHANGED <<account, cache>>

Restart ==
  /\ index' = {} /\ loaded' = "none" /\ loads' = <<>> /\ overtaken' = FALSE
  /\ req' = [r \in Requests |-> Nothing] /\ visit' = [v \in Visits |-> NoVisit]
  /\ UNCHANGED <<account, bans, answered>>

Next ==
  \/ \E n \in Loads : Apply(n) \/ LoadFails(n)
  \/ \E r \in Requests :
       \/ Begin(r) \/ BeginSweep(r) \/ Decide(r) \/ Approve(r) \/ AddBan(r) \/ LiftBan(r)
       \/ Sweep(r) \/ Break(r)
  \/ \E v \in Visits :
       Arrive(v) \/ Load(v) \/ NotBanned(v) \/ Admit(v) \/ Ignore(v) \/ Refuse(v)
  \/ \E k \in Expiring : Expire(k)
  \/ Restart

Spec == Init /\ [][Next]_vars
-------------------------------------------------------------------------------
\* Once a ban has been answered, no request or login that begins later is admitted
\* while the ban is in force, whatever loads are under way or fail, and across a
\* restart.  Excepted are lookups in rows that a D1 answer has put back.
BannedRefused ==
  [][\A v \in Visits : Admit(v) => visit[v].covered = {}]_vars

\* Once the bans have been lifted, and everybody who did has an answer, no request
\* that begins later is refused before someone bans the account again.
LiftedAdmitted ==
  [][\A v \in Visits : Refuse(v) => ~visit[v].clean]_vars
================================================================================
