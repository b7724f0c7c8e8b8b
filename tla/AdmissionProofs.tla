--------------------------- MODULE AdmissionProofs ---------------------------
(***************************************************************************)
(* Proofs about what refuses a request: AccountBans, for any number of     *)
(* administrators, of requests of the account, and of loads under way;     *)
(* Datasets, for any number of versions and restarts; and RequestLimits,   *)
(* for any processes, callers and keys, any limit and any window.          *)
(***************************************************************************)
EXTENDS AccountBans, Datasets, RequestLimits,
        SequenceTheorems, NaturalsInduction, WellFoundedInduction, TLAPS

LoadType == [rows : SUBSET Kinds, current : BOOLEAN, passed : BOOLEAN,
             waits : SUBSET (Requests \cup Visits)]
Job == [todo : Seq(Steps), adds : Kinds \cup {""}]
Visit == [pc : Kinds \cup {"idle"}, ready : BOOLEAN, login : BOOLEAN,
          approved : BOOLEAN, covered : SUBSET Kinds, clean : BOOLEAN]

Types ==
  /\ account \in [status : Statuses, session : BOOLEAN]
  /\ bans \in [Kinds -> {"none", "live", "over"}]
  /\ index \subseteq Kinds /\ answered \subseteq Kinds
  /\ loaded \in {"none", "pending", "done"} /\ overtaken \in BOOLEAN
  /\ loads \in Seq(LoadType) /\ Len(loads) <= MaxLoads
  /\ req \in [Requests -> Job] /\ visit \in [Visits -> Visit]

\* The promise is that of the latest load, which has read what is stored now.  Once
\* it has been kept, all loads that are still under way are older.
CurrentInv ==
  /\ loaded = "pending" <=> \E n \in Loads : loads[n].current
  /\ \A n \in Loads : loads[n].current => n = Len(loads) /\ loads[n].rows = Stored
  /\ loaded = "done" => \A n \in Loads : loads[n].passed

\* A request waits for one load at most, before it looks anything up.
WaitInv ==
  \A v \in Visits : \A n \in Loads : v \in loads[n].waits =>
    /\ visit[v].pc # "idle" /\ ~visit[v].ready
    /\ \A m \in Loads : v \in loads[m].waits => m = n

\* The n-th load has read the ban by k, or counts as overtaken if it is applied.
Knows(n, k) == loads[n].passed \/ k \in loads[n].rows
\* Bans that have been answered, and those that will be once a load is applied.
AnsweredInv ==
  /\ \A k \in answered : bans[k] = "live" /\ \A n \in Loads : Knows(n, k)
  /\ \A r \in Requests : \A k \in Kinds : req[r].adds = k =>
       /\ bans[k] = "live"
       /\ \A n \in Loads : r \in loads[n].waits => \A m \in Loads : m >= n => Knows(m, k)

\* The index, where it is the latest; and where it is not.
IndexInv ==
  /\ loaded = "done" /\ ~overtaken => answered \subseteq index /\ index \subseteq Stored
  /\ overtaken => \A v \in Visits : visit[v].covered = {} /\ ~visit[v].clean

\* What a request under way may count on.
CoveredInv ==
  \A v \in Visits :
    /\ visit[v].covered \subseteq answered
    /\ visit[v].ready => visit[v].covered \subseteq index
    /\ visit[v].pc = "email" => "user" \notin visit[v].covered

\* The n-th load has found no ban, or counts as overtaken.
NoBanIn(n) == loads[n].passed \/ loads[n].rows = {}
CleanInv ==
  \A v \in Visits : visit[v].clean =>
    /\ Stored = {}
    /\ \A n \in Loads : v \in loads[n].waits => \A m \in Loads : m >= n => NoBanIn(m)
    /\ visit[v].ready => index = {} /\ \A m \in Loads : NoBanIn(m)

Inv == Types /\ CurrentInv /\ WaitInv /\ AnsweredInv /\ IndexInv /\ CoveredInv /\ CleanInv

\* What the invariant is for.
LEMMA InvShows ==
  ASSUME Inv
  PROVE  /\ TypeOK
         /\ \A v \in Visits : Admit(v) => visit[v].covered = {}
         /\ \A v \in Visits : Refuse(v) => ~visit[v].clean
<1>1. TypeOK
  <2>1. \A n \in 1..Len(loads) : loads[n] \in LoadType
    BY ElementOfSeq DEF Inv, Types
  <2>2. \A r \in Requests : req[r].todo \in Seq(Steps) /\ req[r].adds \in Kinds \cup {""}
    BY DEF Inv, Types, Job
  <2>3. loaded = "pending" <=> \E n \in 1..Len(loads) : loads[n].current
    BY DEF Inv, CurrentInv, Loads
  <2>4. QED
    BY <2>1, <2>2, <2>3 DEF Inv, Types, TypeOK, LoadType, Visit
<1>2. ASSUME NEW v \in Visits, Looks(v, visit[v].pc)
      PROVE  /\ visit[v].covered \subseteq index
             /\ visit[v].clean => index = {}
  <2>1. CASE visit[v].ready
    BY <2>1 DEF Inv, CoveredInv, CleanInv
  <2>2. CASE ~visit[v].ready
    <3>1. loaded = "done"
      BY <1>2, <2>2 DEF Looks
    <3>2. CASE overtaken
      BY <3>2 DEF Inv, IndexInv
    <3>3. CASE ~overtaken
      BY <3>1, <3>3 DEF Inv, IndexInv, CoveredInv, CleanInv
    <3>4. QED
      BY <3>2, <3>3
  <2>3. QED
    BY <2>1, <2>2
<1>3. ASSUME NEW v \in Visits, Admit(v) PROVE visit[v].covered = {}
  <2>1. visit[v].pc = "email" /\ Looks(v, visit[v].pc) /\ "email" \notin index
    BY <1>3 DEF Admit, Looks
  <2>2. visit[v].covered \subseteq index /\ "user" \notin visit[v].covered
    BY <1>2, <2>1 DEF Inv, CoveredInv
  <2>3. visit[v].covered \subseteq Kinds
    BY DEF Inv, Types, Visit
  <2>4. QED
    BY <2>1, <2>2, <2>3 DEF Kinds
<1>4. ASSUME NEW v \in Visits, Refuse(v) PROVE ~visit[v].clean
  <2>1. index # {} /\ Looks(v, visit[v].pc)
    BY <1>4 DEF Refuse, Looks
  <2>2. QED
    BY <1>2, <2>1
<1>5. QED
  BY <1>1, <1>3, <1>4

LEMMA Constants ==
  /\ NoVisit \in Visit /\ NoVisit.pc = "idle" /\ ~NoVisit.ready /\ NoVisit.covered = {}
  /\ ~NoVisit.clean
  /\ Nothing \in Job /\ Nothing.adds = "" /\ "" \notin Kinds
BY DEF NoVisit, Visit, Nothing, Job, Kinds

\* No load is under way.
LEMMA NoLoads ==
  ASSUME NEW l, l = <<>>
  PROVE  l \in Seq(LoadType) /\ Len(l) = 0 /\ 1..Len(l) = {}
BY EmptySeq

LEMMA InitInv == Init => Inv
<1> SUFFICES ASSUME Init PROVE Inv
  OBVIOUS
<1>1. loads \in Seq(LoadType) /\ Len(loads) = 0 /\ Loads = {}
  BY NoLoads DEF Init, Loads
<1>2. Types
  <2>1. account \in [status : Statuses, session : BOOLEAN]
    BY DEF Init, Statuses
  <2>2. bans \in [Kinds -> {"none", "live", "over"}]
    BY DEF Init
  <2>3. req \in [Requests -> Job] /\ visit \in [Visits -> Visit]
    BY Constants DEF Init
  <2>4. Len(loads) <= MaxLoads
    BY <1>1, BansAssumption
  <2>5. index \subseteq Kinds /\ answered \subseteq Kinds /\ loaded = "none" /\ overtaken = FALSE
    BY DEF Init
  <2>6. QED
    BY <1>1, <2>1, <2>2, <2>3, <2>4, <2>5 DEF Types
<1>3. /\ \A v \in Visits : visit[v] = NoVisit
      /\ \A r \in Requests : req[r] = Nothing
      /\ loaded = "none" /\ ~overtaken /\ answered = {}
  BY DEF Init
<1>4. QED
  BY <1>1, <1>2, <1>3, Constants DEF Inv, CurrentInv, WaitInv, AnsweredInv, IndexInv,
     CoveredInv, CleanInv
-------------------------------------------------------------------------------
(***************************************************************************)
(* The steps that leave the index and its loads alone.                     *)
(***************************************************************************)
\* What a request under way may be, where a are the bans that have been answered.
Sound(v, x, a) ==
  /\ x.covered \subseteq a /\ (overtaken => x.covered = {} /\ ~x.clean)
  /\ x.ready => x.covered \subseteq index
  /\ x.pc = "email" => "user" \notin x.covered
  /\ Waits(v) => x.pc # "idle" /\ ~x.ready
  /\ x.clean => /\ Stored = {} /\ (visit[v].clean \/ ~Waits(v))
                /\ x.ready => index = {} /\ \A m \in Loads : NoBanIn(m)

LEMMA SoundNow ==
  ASSUME Inv, NEW v \in Visits
  PROVE  Sound(v, visit[v], answered)
BY DEF Inv, WaitInv, IndexInv, CoveredInv, CleanInv, Sound, Waits

LEMMA SameLoads ==
  ASSUME Inv, UNCHANGED cache, Types', Stored' = Stored,
         \A k \in answered' : k \in answered /\ bans'[k] = "live",
         \A r \in Requests : \A k \in Kinds :
           req'[r].adds = k => req[r].adds = k /\ bans'[k] = "live",
         \A v \in Visits : Sound(v, visit'[v], answered')
  PROVE  Inv'
<1>0. /\ UNCHANGED <<index, loaded, loads, overtaken>> /\ Loads' = Loads
      /\ \A n, k : Knows(n, k)' <=> Knows(n, k)
      /\ \A n : NoBanIn(n)' <=> NoBanIn(n)
  BY DEF cache, Loads, Knows, NoBanIn
<1>1. CurrentInv'
  BY <1>0 DEF Inv, CurrentInv
<1>2. WaitInv'
  BY <1>0 DEF Inv, WaitInv, Sound, Waits
<1>3. AnsweredInv'
  BY <1>0 DEF Inv, AnsweredInv
<1>4. IndexInv'
  BY <1>0 DEF Inv, IndexInv, Sound
<1>5. CoveredInv'
  BY <1>0 DEF CoveredInv, Sound
<1>6. CleanInv'
  BY <1>0 DEF Inv, CleanInv, Sound, Waits
<1>7. QED
  BY <1>1, <1>2, <1>3, <1>4, <1>5, <1>6 DEF Inv

\* Jobs.
LEMMA StepsAre ==
  /\ <<"approve", "">> \in Steps /\ <<"sweep", "">> \in Steps
  /\ \A k \in Kinds : <<"ban", k>> \in Steps /\ <<"lift", k>> \in Steps
BY DEF Steps, Kinds

LEMMA PlansAre ==
  /\ \A p \in Plans : p \in Seq(Steps)
  /\ \A d \in Decisions : d.todo \in Seq(Steps) /\ d.status \in Statuses
  /\ << <<"sweep", "">> >> \in Seq(Steps)
<1>1. \A s \in Steps : <<s>> \in Seq(Steps)
  OBVIOUS
<1>2. \A s, t \in Steps : <<s, t>> \in Seq(Steps)
  OBVIOUS
<1>3. <<>> \in Seq(Steps)
  OBVIOUS
<1>4. "user" \in Kinds /\ "email" \in Kinds
  BY DEF Kinds
<1>5. \A p \in Plans : p \in Seq(Steps)
  <2>1. \A p \in Plans : p \in {<< <<"approve", "">> >>} \/
          p \in {<< <<"ban", "user">> >>, << <<"ban", "email">> >>,
                 << <<"ban", "user">>, <<"ban", "email">> >>,
                 << <<"lift", "user">> >>, << <<"lift", "email">> >>}
    BY DEF Plans
  <2>2. QED
    BY <1>1, <1>2, <1>4, <2>1, StepsAre
<1>6. \A d \in Decisions : d.todo \in Seq(Steps) /\ d.status \in Statuses
  <2> DEFINE lifts == << <<"lift", "user">>, <<"lift", "email">> >>
             both == << <<"ban", "email">>, <<"ban", "user">> >>
  <2>1. lifts \in Seq(Steps) /\ both \in Seq(Steps)
    BY <1>2, <1>4, StepsAre
  <2> DEFINE none == <<>>
             R == [status |-> "rejected", todo |-> none]
             B == [status |-> "rejected", todo |-> both]
             A == [status |-> "approved", todo |-> lifts]
  <2>2. \A d \in Decisions : d = R \/ d = B \/ d = A
    BY DEF Decisions
  <2>3. none \in Seq(Steps)
    BY <1>3
  <2> HIDE DEF lifts, both, none
  <2>4. /\ R.status \in Statuses /\ B.status \in Statuses /\ A.status \in Statuses
        /\ R.todo = none /\ B.todo = both /\ A.todo = lifts
    BY DEF Statuses
  <2> HIDE DEF R, B, A
  <2>5. QED
    BY <2>1, <2>2, <2>3, <2>4
<1>7. << <<"sweep", "">> >> \in Seq(Steps)
  BY <1>1, StepsAre, Zenon
<1>8. QED
  BY <1>5, <1>6, <1>7

LEMMA JobChanges ==
  ASSUME Types, NEW r \in Requests, NEW j \in Job, req' = [req EXCEPT ![r] = j]
  PROVE  /\ req' \in [Requests -> Job]
         /\ req'[r] = j /\ \A q \in Requests \ {r} : req'[q] = req[q]
BY DEF Types

\* A handler is given something to do.
LEMMA JobBegins ==
  ASSUME Types, NEW r \in Requests, NEW todo \in Seq(Steps), req' = [req EXCEPT ![r].todo = todo]
  PROVE  /\ req' \in [Requests -> Job]
         /\ \A q \in Requests : req'[q].adds = req[q].adds
<1> DEFINE j == [req[r] EXCEPT !.todo = todo]
<1>1. j \in Job /\ j.adds = req[r].adds
  BY DEF Types, Job
<1>2. req' = [req EXCEPT ![r] = j]
  BY DEF Types
<1> HIDE DEF j
<1>3. QED
  BY <1>1, <1>2, JobChanges

\* What is left to do, and whom it is about.
LEMMA JobGoesOn ==
  ASSUME Types, NEW r \in Requests, NEW do, Ready(r, do)
  PROVE  /\ Rest(r) \in Job /\ Rest(r).adds = req[r].adds
         /\ do \in {"ban", "lift"} => On(r) \in Kinds
<1> DEFINE todo == Tail(req[r].todo)
<1>1. req[r] \in Job /\ req[r].todo \in Seq(Steps) /\ req[r].todo # <<>>
  BY DEF Types, Job, Ready
<1>2. todo \in Seq(Steps) /\ Head(req[r].todo) \in Steps
  BY <1>1
<1>3. Rest(r) = [req[r] EXCEPT !.todo = todo]
  BY DEF Rest
<1> HIDE DEF todo
<1>4. Rest(r) \in Job /\ Rest(r).adds = req[r].adds
  BY <1>1, <1>2, <1>3 DEF Job
<1>5. ASSUME NEW s \in Steps, s[1] = "ban" \/ s[1] = "lift" PROVE s[2] \in Kinds
  <2>1. CASE s \in {"ban", "lift"} \X Kinds
    BY <2>1
  <2>2. CASE s = <<"approve", "">> \/ s = <<"sweep", "">>
    <3>1. <<"approve", "">>[1] = "approve" /\ <<"sweep", "">>[1] = "sweep"
      OBVIOUS
    <3>2. s[1] = "approve" \/ s[1] = "sweep"
      BY <2>2, <3>1, Zenon
    <3>3. s[1] # "ban" /\ s[1] # "lift"
      BY <3>2
    <3>4. QED
      BY <1>5, <3>3, Zenon
  <2>3. QED
    BY <2>1, <2>2 DEF Steps
<1>6. QED
  BY <1>2, <1>4, <1>5 DEF Ready, On

\* One visit changes.
LEMMA VisitChanges ==
  ASSUME Types, NEW v \in Visits, NEW x \in Visit, visit' = [visit EXCEPT ![v] = x]
  PROVE  /\ visit' \in [Visits -> Visit]
         /\ visit'[v] = x /\ \A u \in Visits \ {v} : visit'[u] = visit[u]
BY DEF Types

\* Administrators who do not touch the bans.
LEMMA DeskInv ==
  ASSUME Inv, UNCHANGED <<bans, cache, answered, visit>>,
         account' \in [status : Statuses, session : BOOLEAN], req' \in [Requests -> Job],
         \A r \in Requests : req'[r].adds \in {req[r].adds, ""}
  PROVE  Inv'
<1>1. Types'
  BY DEF Inv, Types, cache
<1>2. Stored' = Stored /\ \A k \in answered' : k \in answered /\ bans'[k] = "live"
  BY DEF Stored, Inv, AnsweredInv
<1>3. \A r \in Requests : \A k \in Kinds :
        req'[r].adds = k => req[r].adds = k /\ bans'[k] = "live"
  <2>1. ASSUME NEW r \in Requests, NEW k \in Kinds, req'[r].adds = k
        PROVE  req[r].adds = k
    BY <2>1, Constants
  <2>2. ASSUME NEW r \in Requests, NEW k \in Kinds, req[r].adds = k
        PROVE  bans[k] = "live"
    <3>1. AnsweredInv
      BY DEF Inv
    <3>2. QED
      BY <2>2, <3>1 DEF AnsweredInv
  <2>3. bans' = bans
    OBVIOUS
  <2>4. ASSUME NEW r \in Requests, NEW k \in Kinds, req'[r].adds = k
        PROVE  req[r].adds = k /\ bans'[k] = "live"
    <3>1. req[r].adds = k
      BY <2>1, <2>4
    <3>2. bans[k] = "live"
      BY <2>2, <3>1
    <3>3. QED
      BY <2>3, <3>1, <3>2
  <2>5. QED
    BY <2>4
<1>4. \A v \in Visits : Sound(v, visit'[v], answered')
  BY SoundNow
<1>5. QED
  BY <1>1, <1>2, <1>3, <1>4, SameLoads

LEMMA DesksInv ==
  ASSUME Inv, NEW r \in Requests,
         Begin(r) \/ Decide(r) \/ BeginSweep(r) \/ Approve(r) \/ Break(r)
  PROVE  Inv'
<1>0. Types /\ account \in [status : Statuses, session : BOOLEAN]
  BY DEF Inv, Types
<1>1. CASE Begin(r)
  BY <1>0, <1>1, PlansAre, JobBegins, DeskInv DEF Begin
<1>2. CASE Decide(r)
  <2>1. PICK d \in Decisions : /\ account' = [account EXCEPT !.status = d.status]
                              /\ req' = [req EXCEPT ![r].todo = d.todo]
    BY <1>2 DEF Decide
  <2>2. d.todo \in Seq(Steps) /\ d.status \in Statuses
    BY PlansAre
  <2> DEFINE status == d.status
  <2>3. account' = [account EXCEPT !.status = status] /\ status \in Statuses
    BY <2>1, <2>2
  <2> HIDE DEF status
  <2>4. account' \in [status : Statuses, session : BOOLEAN]
    BY <1>0, <2>3
  <2>5. QED
    BY <1>0, <1>2, <2>1, <2>2, <2>4, JobBegins, DeskInv DEF Decide
<1>3. CASE BeginSweep(r)
  <2>1. << <<"sweep", "">> >> \in Seq(Steps)
    BY PlansAre
  <2>2. QED
    BY <1>0, <1>3, <2>1, JobBegins, DeskInv DEF BeginSweep
<1>4. CASE Approve(r)
  <2>1. Rest(r) \in Job /\ Rest(r).adds = req[r].adds
    BY <1>0, <1>4, JobGoesOn DEF Approve
  <2>2. req' = [req EXCEPT ![r] = Rest(r)]
    BY <1>4 DEF Approve
  <2>3. /\ req' \in [Requests -> Job]
        /\ \A q \in Requests : req'[q].adds = req[q].adds
    BY <1>0, <2>1, <2>2, JobChanges
  <2>4. account' \in [status : Statuses, session : BOOLEAN]
    BY <1>0, <1>4 DEF Approve, Statuses
  <2>5. QED
    BY <1>4, <2>3, <2>4, DeskInv DEF Approve
<1>5. CASE Break(r)
  <2>1. /\ req' \in [Requests -> Job]
        /\ req'[r] = Nothing /\ \A q \in Requests \ {r} : req'[q] = req[q]
    BY <1>0, <1>5, Constants, JobChanges DEF Break
  <2>2. QED
    BY <1>0, <1>5, <2>1, Constants, DeskInv DEF Break
<1>6. QED
  BY <1>1, <1>2, <1>3, <1>4, <1>5

\* One request of the account goes on to x.
LEMMA VisitInv ==
  ASSUME Inv, UNCHANGED <<bans, cache, answered, req>>,
         account' \in [status : Statuses, session : BOOLEAN],
         NEW v \in Visits, NEW x \in Visit, visit' = [visit EXCEPT ![v] = x],
         Sound(v, x, answered)
  PROVE  Inv'
<1>0. /\ visit' \in [Visits -> Visit]
      /\ visit'[v] = x /\ \A u \in Visits \ {v} : visit'[u] = visit[u]
  BY VisitChanges DEF Inv
<1>1. Types'
  BY <1>0 DEF Inv, Types, cache
<1>2. Stored' = Stored /\ \A k \in answered' : k \in answered /\ bans'[k] = "live"
  BY DEF Stored, Inv, AnsweredInv
<1>3. \A r \in Requests : \A k \in Kinds :
        req'[r].adds = k => req[r].adds = k /\ bans'[k] = "live"
  BY DEF Inv, AnsweredInv
<1>4. \A u \in Visits : Sound(u, visit'[u], answered')
  <2>1. \A u \in Visits \ {v} : Sound(u, visit'[u], answered')
    BY <1>0, SoundNow
  <2>2. Sound(v, visit'[v], answered')
    BY <1>0
  <2>3. QED
    BY <2>1, <2>2
<1>5. QED
  BY <1>1, <1>2, <1>3, <1>4, SameLoads

LEMMA ArriveInv ==
  ASSUME Inv, NEW v \in Visits, Arrive(v)
  PROVE  Inv'
<1>0. /\ Types /\ visit[v].pc = "idle" /\ UNCHANGED <<account, bans, cache, answered, req>>
      /\ account' \in [status : Statuses, session : BOOLEAN] /\ answered \subseteq Kinds
  BY DEF Inv, Arrive, Types
<1> DEFINE approved == account.status = "approved"
           covered == IF overtaken \/ account.status # "approved" THEN {} ELSE answered
           clean == ~overtaken /\ Stored = {} /\ \A r \in Requests : Free(r)
           x(login) == [pc |-> "user", ready |-> FALSE, login |-> login, approved |-> approved,
                        covered |-> covered, clean |-> clean]
<1>1. PICK login \in BOOLEAN : visit' = [visit EXCEPT ![v] = x(login)]
  BY DEF Arrive
<1>2. /\ approved \in BOOLEAN /\ clean \in BOOLEAN
      /\ covered \in SUBSET Kinds /\ covered \subseteq answered
      /\ overtaken => covered = {}
  BY <1>0
<1>3. clean => ~overtaken /\ Stored = {}
  OBVIOUS
<1> HIDE DEF approved, covered, clean
<1>4. /\ x(login) \in Visit /\ x(login).pc = "user" /\ ~x(login).ready
      /\ x(login).covered = covered /\ x(login).clean = clean
  BY <1>2 DEF Visit, Kinds
<1> HIDE DEF x
<1>5. ~Waits(v)
  BY <1>0 DEF Inv, WaitInv, Waits
<1>6. Sound(v, x(login), answered)
  BY <1>2, <1>3, <1>4, <1>5 DEF Sound
<1>7. QED
  BY <1>0, <1>1, <1>4, <1>6, VisitInv

\* A visit that looks something up does not wait.
LEMMA LooksFree ==
  ASSUME Inv, NEW v \in Visits, NEW k \in Kinds, Looks(v, k)
  PROVE  ~Waits(v) /\ (visit[v].covered \subseteq index)
<1>1. ~Waits(v)
  BY DEF Inv, WaitInv, Waits, Looks
<1>2. visit[v].covered \subseteq index
  BY DEF Inv, IndexInv, CoveredInv, Looks, Types
<1>3. QED
  BY <1>1, <1>2

LEMMA VisitsInv ==
  ASSUME Inv, NEW v \in Visits,
         Arrive(v) \/ NotBanned(v) \/ Admit(v) \/ Ignore(v) \/ Refuse(v)
  PROVE  Inv'
<1>0. Types /\ account \in [status : Statuses, session : BOOLEAN] /\ visit[v] \in Visit
  BY DEF Inv, Types
<1>1. ASSUME ~Waits(v) PROVE Sound(v, NoVisit, answered)
  BY <1>1, Constants DEF Sound
<1>2. CASE NotBanned(v)
  <2> DEFINE x == [visit[v] EXCEPT !.pc = "email", !.ready = FALSE]
  <2>1. /\ x \in Visit /\ x.pc = "email" /\ ~x.ready /\ x.covered = visit[v].covered
        /\ x.clean = visit[v].clean
    BY <1>0 DEF Visit, Kinds
  <2>2. /\ visit' = [visit EXCEPT ![v] = x] /\ UNCHANGED <<account, bans, cache, answered, req>>
        /\ Looks(v, "user") /\ "user" \notin index /\ "user" \in Kinds
    BY <1>0, <1>2 DEF NotBanned, Types, Kinds
  <2> HIDE DEF x
  <2>3. ~Waits(v) /\ visit[v].covered \subseteq index
    BY <2>2, LooksFree
  <2>4. Sound(v, visit[v], answered)
    BY SoundNow
  <2>5. Sound(v, x, answered)
    BY <2>1, <2>2, <2>3, <2>4 DEF Sound
  <2>6. QED
    BY <1>0, <2>1, <2>2, <2>5, VisitInv
<1>3. CASE Admit(v) \/ Ignore(v) \/ Refuse(v)
  <2>1. /\ visit' = [visit EXCEPT ![v] = NoVisit]
        /\ UNCHANGED <<bans, cache, answered, req>>
        /\ account' \in {account, [account EXCEPT !.session = TRUE], [account EXCEPT !.session = FALSE]}
    BY <1>3 DEF Admit, Ignore, Refuse
  <2>2. account' \in [status : Statuses, session : BOOLEAN]
    BY <1>0, <2>1
  <2>3. \E k \in Kinds : Looks(v, k)
    BY <1>0, <1>3 DEF Admit, Ignore, Refuse, Types, Kinds
  <2>4. ~Waits(v)
    BY <2>3, LooksFree
  <2>5. QED
    BY <1>1, <2>1, <2>2, <2>4, Constants, VisitInv
<1>4. QED
  BY <1>2, <1>3, ArriveInv

\* A visit that nobody may count on k for any longer.
LEMMA Uncovers ==
  ASSUME Inv, NEW k \in Kinds, Uncover(k)
  PROVE  /\ visit' \in [Visits -> Visit]
         /\ answered' = answered \ {k}
         /\ \A v \in Visits :
              /\ visit'[v].pc = visit[v].pc /\ visit'[v].ready = visit[v].ready
              /\ visit'[v].clean = visit[v].clean
              /\ visit'[v].covered = visit[v].covered \ {k}
<1>1. ASSUME NEW v \in Visits
      PROVE  /\ visit'[v] \in Visit
             /\ visit'[v].pc = visit[v].pc /\ visit'[v].ready = visit[v].ready
             /\ visit'[v].clean = visit[v].clean
             /\ visit'[v].covered = visit[v].covered \ {k}
  <2> DEFINE covered == visit[v].covered \ {k}
  <2>1. visit[v] \in Visit /\ visit'[v] = [visit[v] EXCEPT !.covered = covered]
    BY DEF Inv, Types, Uncover
  <2>2. covered \in SUBSET Kinds
    BY <2>1 DEF Visit
  <2>3. covered = visit[v].covered \ {k}
    OBVIOUS
  <2> HIDE DEF covered
  <2>4. QED
    BY <2>1, <2>2, <2>3 DEF Visit
<1>2. visit' = [v \in Visits |-> visit'[v]] /\ answered' = answered \ {k}
  BY DEF Uncover
<1>3. visit' \in [Visits -> Visit]
  BY <1>1, <1>2
<1>4. QED
  BY <1>1, <1>2, <1>3

\* Whoever adds the ban by k is not adding it any longer.
LEMMA NotAddingIs ==
  ASSUME NEW k \in Kinds, NEW j \in Job
  PROVE  NotAdding(k, j) \in Job /\ NotAdding(k, j).adds = IF j.adds = k THEN "" ELSE j.adds
BY DEF NotAdding, Job

LEMMA ExpireInv ==
  ASSUME Inv, NEW k \in Expiring, Expire(k)
  PROVE  Inv'
<1>0. /\ Types /\ k \in Kinds /\ UNCHANGED <<account, cache>> /\ bans[k] = "live"
      /\ bans' = [bans EXCEPT ![k] = "over"] /\ Uncover(k)
  BY BansAssumption DEF Inv, Expire, Kinds
<1>1. /\ visit' \in [Visits -> Visit]
      /\ answered' = answered \ {k}
      /\ \A v \in Visits :
           /\ visit'[v].pc = visit[v].pc /\ visit'[v].ready = visit[v].ready
           /\ visit'[v].clean = visit[v].clean
           /\ visit'[v].covered = visit[v].covered \ {k}
  BY <1>0, Uncovers
<1>2. /\ bans' \in [Kinds -> {"none", "live", "over"}] /\ Stored' = Stored
      /\ \A l \in Kinds \ {k} : bans'[l] = bans[l]
  <2>1. /\ bans' \in [Kinds -> {"none", "live", "over"}] /\ bans'[k] = "over"
        /\ \A l \in Kinds \ {k} : bans'[l] = bans[l]
    BY <1>0 DEF Types
  <2>2. \A l \in Kinds : bans'[l] # "none" <=> bans[l] # "none"
    BY <1>0, <2>1
  <2>3. QED
    BY <2>1, <2>2 DEF Stored
<1>3. /\ req' \in [Requests -> Job]
      /\ \A r \in Requests : req'[r].adds = IF req[r].adds = k THEN "" ELSE req[r].adds
  <2>1. req' = [r \in Requests |-> NotAdding(k, req[r])]
    BY DEF Expire
  <2>2. \A r \in Requests : req[r] \in Job
    BY <1>0 DEF Types
  <2>3. QED
    BY <1>0, <2>1, <2>2, NotAddingIs
<1>4. Types'
  BY <1>0, <1>1, <1>2, <1>3 DEF Types, cache
<1>5. \A l \in answered' : l \in answered /\ bans'[l] = "live"
  BY <1>0, <1>1, <1>2 DEF Inv, AnsweredInv, Types
<1>6. \A r \in Requests : \A l \in Kinds :
        req'[r].adds = l => req[r].adds = l /\ bans'[l] = "live"
  <2>1. ASSUME NEW r \in Requests, NEW l \in Kinds, req'[r].adds = l
        PROVE  req[r].adds = l /\ l # k
    BY <1>3, <2>1, Constants
  <2>2. QED
    BY <1>2, <2>1 DEF Inv, AnsweredInv
<1>7. ASSUME NEW v \in Visits PROVE Sound(v, visit'[v], answered')
  <2>1. Sound(v, visit[v], answered)
    BY SoundNow
  <2>2. QED
    BY <1>1, <2>1 DEF Sound
<1>8. QED
  BY <1>0, <1>2, <1>4, <1>5, <1>6, <1>7, SameLoads
-------------------------------------------------------------------------------
(***************************************************************************)
(* A load is begun.                                                        *)
(***************************************************************************)
\* What the n-th load is, but for its promise and who waits for it.
SameLoad(n) ==
  /\ loads'[n].rows = loads[n].rows /\ loads'[n].passed = loads[n].passed
  /\ loads'[n].waits = loads[n].waits

\* One load more, that x waits for; the others are no longer current.
Begun(x) ==
  /\ loads' \in Seq(LoadType) /\ Len(loads') = Len(loads) + 1 /\ Len(loads') <= MaxLoads
  /\ \A n \in Loads : SameLoad(n) /\ ~loads'[n].current
  /\ LET l == loads'[Len(loads) + 1] IN
     l.rows = Stored' /\ l.current /\ ~l.passed /\ l.waits = {x}
  /\ loaded' = "pending"

LEMMA AppendLoad ==
  ASSUME Types, NEW old \in Seq(LoadType), Len(old) = Len(loads), Len(loads) < MaxLoads,
         NEW l \in LoadType, loads' = Append(old, l)
  PROVE  /\ loads' \in Seq(LoadType) /\ Len(loads') = Len(loads) + 1 /\ Len(loads') <= MaxLoads
         /\ loads'[Len(loads) + 1] = l /\ \A n \in Loads : loads'[n] = old[n]
<1>1. Len(loads) \in Nat
  BY LenProperties DEF Types
<1>2. /\ Append(old, l) \in Seq(LoadType) /\ Len(Append(old, l)) = Len(old) + 1
      /\ Append(old, l)[Len(old) + 1] = l
      /\ \A n \in 1..Len(old) : Append(old, l)[n] = old[n]
  BY AppendProperties
<1>3. QED
  BY <1>1, <1>2, BansAssumption DEF Loads

\* A function on an initial interval is a sequence.
LEMMA ASequence ==
  ASSUME NEW S, NEW n \in Nat, NEW f \in [1..n -> S]
  PROVE  f \in Seq(S) /\ Len(f) = n
<1>1. f \in Seq(S)
  BY SeqDef
<1>2. DOMAIN f = 1..Len(f) /\ Len(f) \in Nat
  BY <1>1, LenProperties
<1>3. QED
  BY <1>1, <1>2

LEMMA NewLoadType ==
  ASSUME NEW x \in Requests \cup Visits, NEW stored \in SUBSET Kinds
  PROVE  /\ NewLoad(x, stored) \in LoadType
         /\ NewLoad(x, stored).rows = stored /\ NewLoad(x, stored).current
         /\ ~NewLoad(x, stored).passed /\ NewLoad(x, stored).waits = {x}
BY DEF NewLoad, LoadType

LEMMA Reloading ==
  ASSUME Types, NEW x \in Requests \cup Visits, Reload(x)
  PROVE  Begun(x)
<1> DEFINE old == [n \in Loads |-> [loads[n] EXCEPT !.current = FALSE]]
<1>1. Stored' \in SUBSET Kinds /\ Len(loads) \in Nat
  BY LenProperties DEF Stored, Types
<1>2. \A n \in Loads : loads[n] \in LoadType
  BY ElementOfSeq DEF Types, Loads
<1>3. ASSUME NEW n \in Loads
      PROVE  /\ old[n] \in LoadType /\ ~old[n].current /\ old[n].rows = loads[n].rows
             /\ old[n].passed = loads[n].passed /\ old[n].waits = loads[n].waits
  <2> DEFINE l == [loads[n] EXCEPT !.current = FALSE]
  <2>1. old[n] = l
    OBVIOUS
  <2>2. /\ l \in LoadType /\ ~l.current /\ l.rows = loads[n].rows
        /\ l.passed = loads[n].passed /\ l.waits = loads[n].waits
    BY <1>2 DEF LoadType
  <2> HIDE DEF old, l
  <2>3. QED
    BY <2>1, <2>2
<1>4. old \in Seq(LoadType) /\ Len(old) = Len(loads)
  <2>1. old \in [1..Len(loads) -> LoadType]
    BY <1>3 DEF Loads
  <2> HIDE DEF old
  <2>2. QED
    BY <1>1, <2>1, ASequence
<1>5. loads' = Append(old, NewLoad(x, Stored')) /\ Len(loads) < MaxLoads
  BY DEF Reload
<1> HIDE DEF old
<1>6. /\ loads' \in Seq(LoadType) /\ Len(loads') = Len(loads) + 1 /\ Len(loads') <= MaxLoads
      /\ loads'[Len(loads) + 1] = NewLoad(x, Stored') /\ \A n \in Loads : loads'[n] = old[n]
  BY <1>1, <1>4, <1>5, NewLoadType, AppendLoad
<1>7. loaded' = "pending"
  BY DEF Reload
<1>8. QED
  BY <1>1, <1>3, <1>6, <1>7, NewLoadType DEF Begun, SameLoad

\* What else may change as a load is begun for x.
LEMMA BegunInv ==
  ASSUME Inv, Types', UNCHANGED <<index, overtaken>>,
         NEW x \in Requests \cup Visits, Begun(x),
         \A k \in answered' : k \in answered /\ bans'[k] = "live",
         \A r \in Requests : \A k \in Kinds : req'[r].adds = k =>
           bans'[k] = "live" /\ (req[r].adds = k \/ ~Waits(r)),
         \A v \in Visits :
           /\ visit'[v].pc = visit[v].pc /\ visit'[v].ready = visit[v].ready
           /\ visit'[v].covered \subseteq visit[v].covered
           /\ visit'[v].covered \subseteq answered'
           /\ visit'[v].clean => visit[v].clean /\ Stored' = {},
         \A v \in Visits : x = v => ~Waits(v) /\ visit[v].pc # "idle" /\ ~visit[v].ready
  PROVE  Inv'
<1>n. PICK new : new = Len(loads) + 1
  OBVIOUS
<1>0. /\ Len(loads) \in Nat /\ Len(loads') = new /\ new \in Loads' /\ Loads' = Loads \cup {new}
      /\ \A n \in Loads : n < new
      /\ \A n \in Loads : n # new
  BY <1>n, LenProperties DEF Inv, Types, Begun, Loads
<1>1. /\ \A n \in Loads : SameLoad(n) /\ ~loads'[n].current
      /\ loads'[new].rows = Stored' /\ loads'[new].current /\ ~loads'[new].passed
      /\ loads'[new].waits = {x} /\ loaded' = "pending"
  BY <1>n DEF Begun
<1>2. /\ \A n \in Loads : \A k : Knows(n, k)' <=> Knows(n, k)
      /\ \A n \in Loads : NoBanIn(n)' <=> NoBanIn(n)
      /\ NoBanIn(new)' <=> Stored' = {}
      /\ \A k \in Kinds : bans'[k] = "live" => Knows(new, k)'
  BY <1>1 DEF Knows, NoBanIn, SameLoad, Stored
<1>3. CurrentInv'
  BY <1>0, <1>1 DEF CurrentInv
<1>4. WaitInv'
  <2>1. ASSUME NEW v \in Visits, NEW n \in Loads', v \in loads'[n].waits
        PROVE  /\ visit[v].pc # "idle" /\ ~visit[v].ready
               /\ \A m \in Loads' : v \in loads'[m].waits => m = n
    <3>1. CASE v = x
      <4>1. \A m \in Loads : v \notin loads'[m].waits
        BY <1>1, <3>1 DEF SameLoad, Waits
      <4>2. QED
        BY <1>0, <2>1, <3>1, <4>1
    <3>2. CASE v # x
      <4>1. v \notin loads'[new].waits
        BY <1>1, <3>2
      <4>2. n \in Loads /\ \A m \in Loads : loads'[m].waits = loads[m].waits
        BY <1>0, <1>1, <2>1, <4>1 DEF SameLoad
      <4>3. QED
        BY <1>0, <2>1, <4>1, <4>2 DEF Inv, WaitInv
    <3>3. QED
      BY <3>1, <3>2
  <2>2. QED
    BY <2>1 DEF WaitInv
<1>5. AnsweredInv'
  <2>1. ASSUME NEW k \in answered' PROVE bans'[k] = "live" /\ \A n \in Loads' : Knows(n, k)'
    <3>1. k \in answered /\ k \in Kinds /\ bans'[k] = "live" /\ \A n \in Loads : Knows(n, k)
      BY DEF Inv, AnsweredInv, Types
    <3>2. QED
      BY <1>0, <1>2, <3>1
  <2>2. ASSUME NEW r \in Requests, NEW k \in Kinds, req'[r].adds = k,
               NEW n \in Loads', r \in loads'[n].waits, NEW m \in Loads', m >= n
        PROVE  Knows(m, k)'
    <3>1. CASE m = new
      BY <1>2, <2>2, <3>1
    <3>2. CASE m # new
      <4>1. m \in Loads /\ n \in Loads
        BY <1>0, <2>2, <3>2 DEF Loads
      <4>2. r \in loads[n].waits
        BY <1>1, <2>2, <4>1 DEF SameLoad
      <4>3. req[r].adds = k
        BY <2>2, <4>1, <4>2 DEF Waits
      <4>4. Knows(m, k)
        BY <2>2, <4>1, <4>2, <4>3 DEF Inv, AnsweredInv
      <4>5. QED
        BY <1>2, <4>1, <4>4
    <3>3. QED
      BY <3>1, <3>2
  <2>3. QED
    BY <2>1, <2>2 DEF AnsweredInv
<1>6. IndexInv'
  BY <1>1 DEF Inv, IndexInv
<1>7. CoveredInv'
  BY DEF Inv, CoveredInv
<1>8. CleanInv'
  <2>1. ASSUME NEW v \in Visits, visit'[v].clean
        PROVE  visit[v].clean /\ Stored' = {} /\ NoBanIn(new)'
    BY <1>2, <2>1
  <2>2. ASSUME NEW v \in Visits, visit'[v].clean, NEW n \in Loads', v \in loads'[n].waits,
               NEW m \in Loads', m >= n
        PROVE  NoBanIn(m)'
    <3>1. CASE m = new
      BY <2>1, <2>2, <3>1
    <3>2. CASE m # new
      <4>1. m \in Loads /\ n \in Loads
        BY <1>0, <2>2, <3>2 DEF Loads
      <4>2. v \in loads[n].waits
        BY <1>1, <2>2, <4>1 DEF SameLoad
      <4>3. NoBanIn(m)
        BY <2>1, <2>2, <4>1, <4>2 DEF Inv, CleanInv
      <4>4. QED
        BY <1>2, <4>1, <4>3
    <3>3. QED
      BY <3>1, <3>2
  <2>3. ASSUME NEW v \in Visits, visit'[v].clean, visit'[v].ready
        PROVE  index' = {} /\ \A m \in Loads' : NoBanIn(m)'
    <3>1. index = {} /\ \A m \in Loads : NoBanIn(m)
      BY <2>1, <2>3 DEF Inv, CleanInv
    <3>2. QED
      BY <1>0, <1>2, <2>1, <2>3, <3>1
  <2>4. QED
    BY <2>1, <2>2, <2>3 DEF CleanInv
<1>9. QED
  BY <1>3, <1>4, <1>5, <1>6, <1>7, <1>8 DEF Inv

LEMMA AddBanInv ==
  ASSUME Inv, NEW r \in Requests, AddBan(r)
  PROVE  Inv'
<1> DEFINE k == On(r)
           j == [Rest(r) EXCEPT !.adds = k]
<1>0. /\ Types /\ Ready(r, "ban") /\ ~Waits(r) /\ bans' = [bans EXCEPT ![k] = "live"]
      /\ req' = [req EXCEPT ![r] = j]
      /\ visit' = [v \in Visits |-> [visit[v] EXCEPT !.clean = FALSE]]
      /\ Reload(r) /\ UNCHANGED <<account, index, overtaken, answered>>
  BY DEF Inv, AddBan, Ready
<1>1. k \in Kinds /\ j \in Job /\ j.adds = k
  <2>1. k \in Kinds /\ Rest(r) \in Job
    BY <1>0, JobGoesOn
  <2> HIDE DEF k
  <2>2. j \in Job /\ j.adds = k
    BY <2>1 DEF Job
  <2>3. QED
    BY <2>1, <2>2
<1> HIDE DEF k, j
<1>2. /\ bans' \in [Kinds -> {"none", "live", "over"}] /\ bans'[k] = "live"
      /\ \A l \in Kinds \ {k} : bans'[l] = bans[l]
  BY <1>0, <1>1 DEF Types
<1>3. /\ req' \in [Requests -> Job]
      /\ req'[r] = j /\ \A q \in Requests \ {r} : req'[q] = req[q]
  BY <1>0, <1>1, JobChanges
<1>4. ASSUME NEW v \in Visits
      PROVE  /\ visit'[v] \in Visit /\ ~visit'[v].clean
             /\ visit'[v].pc = visit[v].pc /\ visit'[v].ready = visit[v].ready
             /\ visit'[v].covered = visit[v].covered
  <2>1. visit[v] \in Visit /\ visit'[v] = [visit[v] EXCEPT !.clean = FALSE]
    BY <1>0 DEF Types
  <2>2. QED
    BY <2>1 DEF Visit
<1>5. visit' \in [Visits -> Visit]
  BY <1>0, <1>4
<1>6. Begun(r)
  BY <1>0, Reloading
<1>7. Types'
  BY <1>0, <1>2, <1>3, <1>5, <1>6 DEF Types, Begun
<1>8. \A l \in answered' : l \in answered /\ bans'[l] = "live"
  BY <1>0, <1>2 DEF Inv, AnsweredInv, Types
<1>9. \A q \in Requests : \A l \in Kinds : req'[q].adds = l =>
           bans'[l] = "live" /\ (req[q].adds = l \/ ~Waits(q))
  <2>1. ASSUME NEW q \in Requests, NEW l \in Kinds, req'[q].adds = l
        PROVE  bans'[l] = "live" /\ (req[q].adds = l \/ ~Waits(q))
    <3>1. CASE q = r
      BY <1>0, <1>1, <1>2, <1>3, <2>1, <3>1
    <3>2. CASE q # r
      <4>1. req[q].adds = l
        BY <1>3, <2>1, <3>2
      <4>2. QED
        BY <1>2, <4>1 DEF Inv, AnsweredInv
    <3>3. QED
      BY <3>1, <3>2
  <2>2. QED
    BY <2>1
<1>10. \A v \in Visits : visit[v].covered \subseteq answered' /\ r # v
  BY <1>0, BansAssumption DEF Inv, CoveredInv
<1>11. QED
  BY <1>0, <1>4, <1>6, <1>7, <1>8, <1>9, <1>10, BegunInv

LEMMA LiftBanInv ==
  ASSUME Inv, NEW r \in Requests, LiftBan(r)
  PROVE  Inv'
<1>p. PICK k : k = On(r)
  OBVIOUS
<1>0. /\ Types /\ Ready(r, "lift") /\ ~Waits(r) /\ bans' = [bans EXCEPT ![k] = "none"]
      /\ req' = [q \in Requests |-> NotAdding(k, IF q = r THEN Rest(r) ELSE req[q])]
      /\ Uncover(k) /\ Reload(r) /\ UNCHANGED <<account, index, overtaken>>
  BY <1>p DEF Inv, LiftBan, Ready, ReloadLifted
<1>1. k \in Kinds /\ Rest(r) \in Job /\ Rest(r).adds = req[r].adds
  BY <1>0, <1>p, JobGoesOn
<1>2. /\ bans' \in [Kinds -> {"none", "live", "over"}] /\ Stored' \subseteq Stored
      /\ \A l \in Kinds \ {k} : bans'[l] = bans[l]
  <2>1. /\ bans' \in [Kinds -> {"none", "live", "over"}] /\ bans'[k] = "none"
        /\ \A l \in Kinds \ {k} : bans'[l] = bans[l]
    BY <1>0, <1>1 DEF Types
  <2>2. QED
    BY <2>1 DEF Stored
<1>3. /\ visit' \in [Visits -> Visit]
      /\ answered' = answered \ {k}
      /\ \A v \in Visits :
           /\ visit'[v].pc = visit[v].pc /\ visit'[v].ready = visit[v].ready
           /\ visit'[v].clean = visit[v].clean
           /\ visit'[v].covered = visit[v].covered \ {k}
  BY <1>0, <1>1, Uncovers
<1>4. /\ req' \in [Requests -> Job]
      /\ \A q \in Requests : req'[q].adds = IF req[q].adds = k THEN "" ELSE req[q].adds
  <2>1. ASSUME NEW q \in Requests
        PROVE  req'[q] \in Job /\ req'[q].adds = IF req[q].adds = k THEN "" ELSE req[q].adds
    <3>1. PICK j \in Job : req'[q] = NotAdding(k, j) /\ j.adds = req[q].adds
      <4>1. CASE q = r
        BY <1>0, <1>1, <4>1
      <4>2. CASE q # r
        BY <1>0, <4>2 DEF Types
      <4>3. QED
        BY <4>1, <4>2
    <3>2. NotAdding(k, j) \in Job /\ NotAdding(k, j).adds = IF j.adds = k THEN "" ELSE j.adds
      BY <1>1, NotAddingIs
    <3>3. QED
      BY <3>1, <3>2
  <2>2. QED
    BY <1>0, <2>1
<1>6. Begun(r)
  BY <1>0, Reloading
<1>7. Types'
  BY <1>0, <1>2, <1>3, <1>4, <1>6 DEF Types, Begun
<1>8. \A l \in answered' : l \in answered /\ bans'[l] = "live"
  BY <1>2, <1>3 DEF Inv, AnsweredInv, Types
<1>9. \A q \in Requests : \A l \in Kinds : req'[q].adds = l =>
           bans'[l] = "live" /\ (req[q].adds = l \/ ~Waits(q))
  <2>1. ASSUME NEW q \in Requests, NEW l \in Kinds, req'[q].adds = l
        PROVE  req[q].adds = l /\ l # k
    BY <1>4, <2>1, Constants
  <2>2. QED
    BY <1>2, <2>1 DEF Inv, AnsweredInv
<1>10. \A v \in Visits : /\ visit[v].covered \subseteq answered /\ r # v
                         /\ visit[v].clean => Stored = {}
  BY BansAssumption DEF Inv, CoveredInv, CleanInv
<1>11. \A v \in Visits :
           /\ visit'[v].covered \subseteq visit[v].covered
           /\ visit'[v].covered \subseteq answered'
           /\ visit'[v].clean => visit[v].clean /\ Stored' = {}
  BY <1>2, <1>3, <1>10
<1>12. QED
  BY <1>0, <1>3, <1>6, <1>7, <1>8, <1>9, <1>10, <1>11, BegunInv

LEMMA SweepInv ==
  ASSUME Inv, NEW r \in Requests, Sweep(r)
  PROVE  Inv'
<1>0. /\ Types /\ Ready(r, "sweep") /\ ~Waits(r)
      /\ bans' = [k \in Kinds |-> IF bans[k] = "over" THEN "none" ELSE bans[k]]
      /\ req' = [req EXCEPT ![r] = Rest(r)]
      /\ IF bans' # bans THEN Reload(r) ELSE UNCHANGED <<loads, loaded>>
      /\ UNCHANGED <<account, index, overtaken, answered, visit>>
  BY DEF Inv, Sweep, Ready
<1>1. /\ bans' \in [Kinds -> {"none", "live", "over"}] /\ Stored' \subseteq Stored
      /\ \A k \in Kinds : bans[k] = "live" => bans'[k] = "live"
  <2>1. \A k \in Kinds : /\ bans[k] \in {"none", "live", "over"}
                         /\ bans'[k] = IF bans[k] = "over" THEN "none" ELSE bans[k]
    BY <1>0 DEF Types
  <2>2. \A k \in Kinds : bans'[k] \in {"none", "live", "over"}
    BY <2>1
  <2>3. bans' \in [Kinds -> {"none", "live", "over"}]
    BY <1>0, <2>2
  <2>4. QED
    BY <2>1, <2>3 DEF Stored
<1>2. Rest(r) \in Job /\ Rest(r).adds = req[r].adds
  BY <1>0, JobGoesOn
<1>3. /\ req' \in [Requests -> Job]
      /\ \A q \in Requests : req'[q].adds = req[q].adds
  BY <1>0, <1>2, JobChanges
<1>4. /\ \A k \in answered' : k \in answered /\ bans'[k] = "live"
      /\ \A q \in Requests : \A k \in Kinds :
           req'[q].adds = k => req[q].adds = k /\ bans'[k] = "live"
  BY <1>0, <1>1, <1>3 DEF Inv, AnsweredInv, Types
<1>5. CASE bans' # bans
  <2>1. Begun(r)
    BY <1>0, <1>5, Reloading
  <2>2. Types'
    BY <1>0, <1>1, <1>3, <2>1 DEF Types, Begun
  <2>3. \A v \in Visits : /\ visit[v].covered \subseteq answered /\ r # v
                          /\ visit[v].clean => Stored = {}
    BY BansAssumption DEF Inv, CoveredInv, CleanInv
  <2>4. QED
    BY <1>0, <1>1, <1>4, <2>1, <2>2, <2>3, BegunInv
<1>6. CASE bans' = bans
  <2>1. UNCHANGED cache /\ Stored' = Stored
    BY <1>0, <1>6 DEF cache, Stored
  <2>2. Types'
    BY <1>0, <1>3, <1>6 DEF Types
  <2>3. \A v \in Visits : Sound(v, visit'[v], answered')
    BY <1>0, SoundNow
  <2>4. QED
    BY <1>4, <2>1, <2>2, <2>3, SameLoads
<1>7. QED
  BY <1>5, <1>6

\* One who waits more, for the load that is current.
LEMMA Joining ==
  ASSUME Inv, NEW v \in Visits, Join(v)
  PROVE  /\ loads' \in Seq(LoadType) /\ Len(loads') = Len(loads)
         /\ \A n \in Loads :
              /\ loads'[n].rows = loads[n].rows /\ loads'[n].passed = loads[n].passed
              /\ loads'[n].current = loads[n].current
              /\ loads'[n].waits = loads[n].waits \/
                   (loads[n].current /\ loads'[n].waits = loads[n].waits \cup {v})
<1>1. Len(loads) \in Nat
  BY LenProperties DEF Inv, Types
<1>2. ASSUME NEW n \in Loads
      PROVE  /\ loads'[n] \in LoadType
             /\ loads'[n].rows = loads[n].rows /\ loads'[n].passed = loads[n].passed
             /\ loads'[n].current = loads[n].current
             /\ loads'[n].waits = loads[n].waits \/
                  (loads[n].current /\ loads'[n].waits = loads[n].waits \cup {v})
  <2> DEFINE waits == IF loads[n].current THEN loads[n].waits \cup {v} ELSE loads[n].waits
             l == [loads[n] EXCEPT !.waits = waits]
  <2>1. loads[n] \in LoadType
    BY ElementOfSeq DEF Inv, Types, Loads
  <2>2. loads'[n] = l
    BY DEF Join
  <2>3. /\ waits \in SUBSET (Requests \cup Visits)
        /\ waits = loads[n].waits \/ (loads[n].current /\ waits = loads[n].waits \cup {v})
    BY <2>1 DEF LoadType
  <2> HIDE DEF waits
  <2>4. /\ l \in LoadType /\ l.rows = loads[n].rows /\ l.passed = loads[n].passed
        /\ l.current = loads[n].current /\ l.waits = waits
    BY <2>1, <2>3 DEF LoadType
  <2> HIDE DEF l
  <2>5. QED
    BY <2>2, <2>3, <2>4
<1>3. loads' = [n \in 1..Len(loads) |-> loads'[n]]
  BY DEF Join, Loads
<1>4. loads' \in [1..Len(loads) -> LoadType]
  BY <1>2, <1>3 DEF Loads
<1>5. loads' \in Seq(LoadType) /\ Len(loads') = Len(loads)
  BY <1>1, <1>4, ASequence
<1>6. QED
  BY <1>2, <1>5

LEMMA JoinInv ==
  ASSUME Inv, NEW v \in Visits, Load(v), loaded # "none"
  PROVE  Inv'
<1>0. /\ Types /\ visit[v].pc # "idle" /\ ~visit[v].ready /\ ~Waits(v) /\ v \notin Requests
      /\ loaded = "pending" /\ loaded' = "pending"
      /\ Join(v) /\ UNCHANGED <<account, bans, index, overtaken, answered, req, visit>>
  BY BansAssumption DEF Inv, Types, Load
<1>1. /\ loads' \in Seq(LoadType) /\ Len(loads') = Len(loads) /\ Loads' = Loads
      /\ \A n \in Loads :
           /\ loads'[n].rows = loads[n].rows /\ loads'[n].passed = loads[n].passed
           /\ loads'[n].current = loads[n].current
           /\ loads'[n].waits = loads[n].waits \/
                (loads[n].current /\ loads'[n].waits = loads[n].waits \cup {v})
  BY <1>0, Joining DEF Loads
<1>2. Stored' = Stored
  BY <1>0 DEF Stored
<1>3. \A n \in Loads : (\A k : Knows(n, k)' <=> Knows(n, k)) /\ (NoBanIn(n)' <=> NoBanIn(n))
  BY <1>1 DEF Knows, NoBanIn
<1>4. \A n \in Loads : loads[n].current =>
        loads[n].rows = Stored /\ \A m \in Loads : m >= n => m = n
  BY DEF Inv, CurrentInv, Types, Loads
<1>5. Types'
  BY <1>0, <1>1 DEF Types
<1>6. CurrentInv'
  BY <1>0, <1>1, <1>2 DEF Inv, CurrentInv
<1>7. WaitInv'
  <2>1. ASSUME NEW u \in Visits, NEW n \in Loads, u \in loads'[n].waits
        PROVE  /\ visit[u].pc # "idle" /\ ~visit[u].ready
               /\ \A m \in Loads : u \in loads'[m].waits => m = n
    <3>1. CASE u = v
      <4>1. \A m \in Loads : v \in loads'[m].waits => loads[m].current
        BY <1>0, <1>1 DEF Waits
      <4>2. \A m \in Loads : loads[m].current => m = Len(loads)
        BY DEF Inv, CurrentInv
      <4>3. QED
        BY <1>0, <2>1, <3>1, <4>1, <4>2
    <3>2. CASE u # v
      <4>1. \A m \in Loads : u \in loads'[m].waits => u \in loads[m].waits
        BY <1>1, <3>2
      <4>2. QED
        BY <2>1, <4>1 DEF Inv, WaitInv
    <3>3. QED
      BY <3>1, <3>2
  <2>2. QED
    BY <1>0, <1>1, <2>1 DEF WaitInv
<1>8. AnsweredInv'
  <2>1. \A r \in Requests : \A n \in Loads : r \in loads'[n].waits => r \in loads[n].waits
    BY <1>0, <1>1
  <2>2. QED
    BY <1>0, <1>1, <1>3, <2>1 DEF Inv, AnsweredInv
<1>9. IndexInv'
  BY <1>0 DEF Inv, IndexInv
<1>10. CoveredInv'
  BY <1>0 DEF Inv, CoveredInv
<1>11. CleanInv'
  <2>1. ASSUME NEW u \in Visits, visit[u].clean, NEW n \in Loads, u \in loads'[n].waits,
               NEW m \in Loads, m >= n
        PROVE  NoBanIn(m)
    <3>1. CASE u \in loads[n].waits
      BY <2>1, <3>1 DEF Inv, CleanInv
    <3>2. CASE u \notin loads[n].waits
      <4>1. m = n /\ loads[n].rows = Stored
        BY <1>1, <1>4, <2>1, <3>2
      <4>2. Stored = {}
        BY <2>1 DEF Inv, CleanInv
      <4>3. QED
        BY <4>1, <4>2 DEF NoBanIn
    <3>3. QED
      BY <3>1, <3>2
  <2>2. ASSUME NEW u \in Visits, visit[u].clean
        PROVE  Stored = {} /\ (visit[u].ready => index = {} /\ \A m \in Loads : NoBanIn(m))
    BY <2>2 DEF Inv, CleanInv
  <2>3. QED
    BY <1>0, <1>1, <1>2, <1>3, <2>1, <2>2 DEF CleanInv
<1>12. QED
  BY <1>5, <1>6, <1>7, <1>8, <1>9, <1>10, <1>11 DEF Inv

LEMMA LoadInv ==
  ASSUME Inv, NEW v \in Visits, Load(v)
  PROVE  Inv'
<1>1. CASE loaded # "none"
  BY <1>1, JoinInv
<1>2. CASE loaded = "none"
  <2>0. /\ Types /\ visit[v].pc # "idle" /\ ~visit[v].ready /\ ~Waits(v)
        /\ Len(loads) < MaxLoads /\ loads' = Append(loads, NewLoad(v, Stored))
        /\ loaded' = "pending"
        /\ UNCHANGED <<account, bans, index, overtaken, answered, req, visit>>
    BY <1>2 DEF Inv, Load
  <2>1. Stored \in SUBSET Kinds /\ Stored' = Stored
    BY <2>0 DEF Stored
  <2>2. /\ loads' \in Seq(LoadType) /\ Len(loads') = Len(loads) + 1 /\ Len(loads') <= MaxLoads
        /\ loads'[Len(loads) + 1] = NewLoad(v, Stored) /\ \A n \in Loads : loads'[n] = loads[n]
    BY <2>0, <2>1, NewLoadType, AppendLoad DEF Types
  <2>3. \A n \in Loads : ~loads[n].current
    BY <1>2 DEF Inv, CurrentInv
  <2>4. Begun(v)
    <3>1. LET l == NewLoad(v, Stored) IN
          l.rows = Stored' /\ l.current /\ ~l.passed /\ l.waits = {v}
      BY <2>1, NewLoadType
    <3>2. \A n \in Loads : SameLoad(n) /\ ~loads'[n].current
      BY <2>2, <2>3 DEF SameLoad
    <3>3. QED
      BY <2>0, <2>2, <3>1, <3>2 DEF Begun
  <2>5. Types'
    BY <2>0, <2>2 DEF Types
  <2>6. \A r \in Requests : \A k \in Kinds : req[r].adds = k => bans[k] = "live"
    BY DEF Inv, AnsweredInv
  <2>7. \A k \in answered : bans[k] = "live"
    BY DEF Inv, AnsweredInv
  <2>8. \A u \in Visits : visit[u].covered \subseteq answered /\ (visit[u].clean => Stored = {})
    BY DEF Inv, CoveredInv, CleanInv
  <2>9. QED
    BY <2>0, <2>1, <2>4, <2>5, <2>6, <2>7, <2>8, BegunInv
<1>3. QED
  BY <1>1, <1>2
-------------------------------------------------------------------------------
(***************************************************************************)
(* A load is over: its rows are applied, or it has failed.                 *)
(***************************************************************************)
\* Where the load that is now the m-th was, when the n-th has gone.
Was(n, m) == IF m < n THEN m ELSE m + 1

\* The n-th load has gone, with the others as they were but for the two flags.
Gone(n) ==
  /\ loads' \in Seq(LoadType) /\ Len(loads') <= MaxLoads
  /\ \A m \in Loads' : Was(n, m) \in Loads \ {n}
  /\ \A m \in Loads' : loads'[m].rows = loads[Was(n, m)].rows
                       /\ loads'[m].waits = loads[Was(n, m)].waits
  /\ \A m, l \in Loads' : m >= l => Was(n, m) >= Was(n, l)
  /\ \A m, l \in Loads' : Was(n, m) = Was(n, l) => m = l
  /\ \A l \in Loads \ {n} : \E m \in Loads' : Was(n, m) = l
  /\ \A m \in Loads' : Was(n, m) = Len(loads) => m = Len(loads')

LEMMA WasLoad ==
  ASSUME Types, NEW n \in Loads, NEW m \in 1..(Len(loads) - 1)
  PROVE  Was(n, m) \in Loads \ {n} /\ loads[Was(n, m)] \in LoadType
<1>1. Len(loads) \in Nat /\ n \in 1..Len(loads)
  BY LenProperties DEF Types, Loads
<1>2. Was(n, m) \in Loads \ {n}
  BY <1>1 DEF Was, Loads
<1>3. QED
  BY <1>2, ElementOfSeq DEF Types, Loads

LEMMA Going ==
  ASSUME Types, NEW n \in Loads, loads' = [m \in 1..(Len(loads) - 1) |-> loads'[m]],
         \A m \in 1..(Len(loads) - 1) :
           /\ loads'[m].rows = loads[Was(n, m)].rows
           /\ loads'[m].waits = loads[Was(n, m)].waits
           /\ loads'[m] \in LoadType
  PROVE  Gone(n) /\ Loads' = 1..(Len(loads) - 1)
<1>1. Len(loads) \in Nat /\ Len(loads) - 1 \in Nat /\ n \in 1..Len(loads)
  BY LenProperties DEF Types, Loads
<1>2. \A m \in 1..(Len(loads) - 1) : Was(n, m) \in Loads \ {n}
  BY WasLoad
<1>4. loads' \in [1..(Len(loads) - 1) -> LoadType]
  OBVIOUS
<1>5. loads' \in Seq(LoadType) /\ Len(loads') = Len(loads) - 1
  BY <1>1, <1>4, ASequence
<1>6. Loads' = 1..(Len(loads) - 1)
  BY <1>5 DEF Loads
<1>7. /\ \A m, l \in Loads' : m >= l => Was(n, m) >= Was(n, l)
      /\ \A m, l \in Loads' : Was(n, m) = Was(n, l) => m = l
      /\ \A m \in Loads' : Was(n, m) = Len(loads) => m = Len(loads')
  BY <1>1, <1>5, <1>6 DEF Was
<1>8. ASSUME NEW l \in Loads \ {n} PROVE \E m \in Loads' : Was(n, m) = l
  <2>1. CASE l < n
    <3>1. l \in Loads' /\ Was(n, l) = l
      BY <1>1, <1>6, <2>1 DEF Was, Loads
    <3>2. QED
      BY <3>1
  <2>2. CASE ~(l < n)
    <3>1. (l - 1) \in Loads' /\ Was(n, l - 1) = l
      BY <1>1, <1>6, <2>2 DEF Was, Loads
    <3>2. QED
      BY <3>1
  <2>3. QED
    BY <2>1, <2>2
<1>9. Len(loads') <= MaxLoads
  BY <1>1, <1>5, BansAssumption DEF Types
<1>10. QED
  BY <1>2, <1>5, <1>6, <1>7, <1>8, <1>9 DEF Gone

\* The load whose rows are applied.
LEMMA Applying ==
  ASSUME Types, NEW n \in Loads, loads' = Without(n)
  PROVE  /\ Gone(n)
         /\ \A m \in Loads' :
              /\ loads'[m].current = loads[Was(n, m)].current
              /\ loads[Was(n, m)].passed => loads'[m].passed
              /\ m < n => loads'[m].passed
<1>1. ASSUME NEW m \in 1..(Len(loads) - 1)
      PROVE  /\ loads'[m].rows = loads[Was(n, m)].rows
             /\ loads'[m].waits = loads[Was(n, m)].waits
             /\ loads'[m] \in LoadType
             /\ loads'[m].current = loads[Was(n, m)].current
             /\ loads[Was(n, m)].passed => loads'[m].passed
             /\ m < n => loads'[m].passed
  <2>0. loads[Was(n, m)] \in LoadType
    BY WasLoad
  <2>1. CASE m < n
    <3>1. Was(n, m) = m /\ loads'[m] = [loads[m] EXCEPT !.passed = TRUE]
      BY <2>1 DEF Was, Without
    <3>2. QED
      BY <2>0, <3>1 DEF LoadType
  <2>2. CASE ~(m < n)
    <3>1. loads'[m] = loads[Was(n, m)]
      BY <2>2 DEF Was, Without
    <3>2. QED
      BY <2>0, <2>2, <3>1 DEF LoadType
  <2>3. QED
    BY <2>1, <2>2
<1>2. loads' = [m \in 1..(Len(loads) - 1) |-> loads'[m]]
  BY DEF Without
<1>3. Gone(n) /\ Loads' = 1..(Len(loads) - 1)
  BY <1>1, <1>2, Going
<1>4. QED
  BY <1>1, <1>3

\* The load that has failed.
LEMMA Failing ==
  ASSUME Types, NEW n \in Loads, Failed(n)
  PROVE  /\ Gone(n)
         /\ \A m \in Loads' :
              ~loads'[m].current /\ loads'[m].passed = loads[Was(n, m)].passed
<1>1. ASSUME NEW m \in 1..(Len(loads) - 1)
      PROVE  /\ loads'[m].rows = loads[Was(n, m)].rows
             /\ loads'[m].waits = loads[Was(n, m)].waits
             /\ loads'[m] \in LoadType
             /\ ~loads'[m].current /\ loads'[m].passed = loads[Was(n, m)].passed
  <2>0. loads[Was(n, m)] \in LoadType
    BY WasLoad
  <2>1. loads'[m] = [loads[Was(n, m)] EXCEPT !.current = FALSE]
    BY DEF Failed, Was
  <2>2. QED
    BY <2>0, <2>1 DEF LoadType
<1>2. loads' = [m \in 1..(Len(loads) - 1) |-> loads'[m]]
  BY DEF Failed
<1>3. Gone(n) /\ Loads' = 1..(Len(loads) - 1)
  BY <1>1, <1>2, Going
<1>4. QED
  BY <1>1, <1>3

\* What an error leaves.
LEMMA LoadFailsInv ==
  ASSUME Inv, NEW n \in Loads, LoadFails(n)
  PROVE  Inv'
<1>0. /\ Types /\ Failed(n) /\ loaded' = "none"
      /\ UNCHANGED <<account, bans, index, overtaken, answered>>
  BY DEF Inv, LoadFails, Failed
<1>1. /\ Gone(n)
      /\ \A m \in Loads' :
           ~loads'[m].current /\ loads'[m].passed = loads[Was(n, m)].passed
  BY <1>0, Failing
<1>2. /\ req' \in [Requests -> Job]
      /\ \A r \in Requests : req'[r] = Nothing \/ req'[r] = req[r]
  <2>1. req' = [r \in Requests |-> IF r \in loads[n].waits THEN Nothing ELSE req[r]]
    BY <1>0 DEF Failed
  <2>2. QED
    BY <1>0, <2>1, Constants DEF Types
<1>3. /\ visit' \in [Visits -> Visit]
      /\ \A v \in Visits : IF v \in loads[n].waits THEN visit'[v] = NoVisit
                           ELSE visit'[v] = visit[v]
  <2>1. visit' = [v \in Visits |-> IF v \in loads[n].waits THEN NoVisit ELSE visit[v]]
    BY <1>0 DEF Failed
  <2>2. QED
    BY <1>0, <2>1, Constants DEF Types
<1>4. \A v \in Visits : visit'[v] = NoVisit \/ visit'[v] = visit[v]
  BY <1>3
<1>5. Stored' = Stored
  BY <1>0 DEF Stored
<1>6. /\ \A m \in Loads' : \A k : Knows(Was(n, m), k) => Knows(m, k)'
      /\ \A m \in Loads' : NoBanIn(Was(n, m)) => NoBanIn(m)'
  BY <1>1 DEF Gone, Knows, NoBanIn
<1>7. Types'
  BY <1>0, <1>1, <1>2, <1>3 DEF Types, Gone
<1>8. CurrentInv'
  BY <1>0, <1>1 DEF CurrentInv
<1>9. WaitInv'
  <2>1. ASSUME NEW v \in Visits, NEW m \in Loads', v \in loads'[m].waits
        PROVE  /\ visit'[v].pc # "idle" /\ ~visit'[v].ready
               /\ \A l \in Loads' : v \in loads'[l].waits => l = m
    <3>1. Was(n, m) \in Loads \ {n} /\ v \in loads[Was(n, m)].waits
      BY <1>1, <2>1 DEF Gone
    <3>2. v \notin loads[n].waits /\ visit[v].pc # "idle" /\ ~visit[v].ready
      BY <3>1 DEF Inv, WaitInv
    <3>3. ASSUME NEW l \in Loads', v \in loads'[l].waits PROVE l = m
      <4>1. Was(n, l) \in Loads /\ v \in loads[Was(n, l)].waits
        BY <1>1, <3>3 DEF Gone
      <4>2. Was(n, l) = Was(n, m)
        BY <3>1, <4>1 DEF Inv, WaitInv
      <4>3. QED
        BY <1>1, <4>2 DEF Gone
    <3>4. QED
      BY <1>3, <3>2, <3>3
  <2>2. QED
    BY <2>1 DEF WaitInv
<1>10. AnsweredInv'
  <2>1. ASSUME NEW k \in answered PROVE bans[k] = "live" /\ \A m \in Loads' : Knows(m, k)'
    <3>1. bans[k] = "live" /\ \A m \in Loads : Knows(m, k)
      BY DEF Inv, AnsweredInv
    <3>2. QED
      BY <1>1, <1>6, <3>1 DEF Gone
  <2>2. ASSUME NEW r \in Requests, NEW k \in Kinds, req'[r].adds = k
        PROVE  /\ bans[k] = "live"
               /\ \A m \in Loads' : r \in loads'[m].waits =>
                    \A l \in Loads' : l >= m => Knows(l, k)'
    <3>1. req[r].adds = k
      BY <1>2, <2>2, Constants
    <3>2. ASSUME NEW m \in Loads', r \in loads'[m].waits, NEW l \in Loads', l >= m
          PROVE  Knows(l, k)'
      <4>1. /\ Was(n, m) \in Loads /\ Was(n, l) \in Loads /\ Was(n, l) >= Was(n, m)
            /\ r \in loads[Was(n, m)].waits
        BY <1>1, <3>2 DEF Gone
      <4>2. Knows(Was(n, l), k)
        BY <3>1, <4>1 DEF Inv, AnsweredInv
      <4>3. QED
        BY <1>6, <4>2
    <3>3. QED
      BY <3>1, <3>2 DEF Inv, AnsweredInv
  <2>3. QED
    BY <1>0, <2>1, <2>2 DEF AnsweredInv
<1>11. IndexInv'
  BY <1>0, <1>4, Constants DEF Inv, IndexInv
<1>12. CoveredInv'
  BY <1>0, <1>4, Constants DEF Inv, CoveredInv
<1>13. CleanInv'
  <2>1. ASSUME NEW v \in Visits, visit'[v].clean
        PROVE  visit[v].clean /\ visit'[v] = visit[v]
    BY <1>4, <2>1, Constants
  <2>2. ASSUME NEW v \in Visits, visit'[v].clean, NEW m \in Loads', v \in loads'[m].waits,
               NEW l \in Loads', l >= m
        PROVE  NoBanIn(l)'
    <3>1. /\ Was(n, m) \in Loads /\ Was(n, l) \in Loads /\ Was(n, l) >= Was(n, m)
          /\ v \in loads[Was(n, m)].waits
      BY <1>1, <2>2 DEF Gone
    <3>2. NoBanIn(Was(n, l))
      BY <2>1, <2>2, <3>1 DEF Inv, CleanInv
    <3>3. QED
      BY <1>6, <3>2
  <2>3. ASSUME NEW v \in Visits, visit'[v].clean
        PROVE  Stored = {} /\ (visit'[v].ready => index = {} /\ \A m \in Loads' : NoBanIn(m)')
    <3>1. Stored = {} /\ (visit[v].ready => index = {} /\ \A m \in Loads : NoBanIn(m))
      BY <2>1, <2>3 DEF Inv, CleanInv
    <3>2. QED
      BY <1>1, <1>6, <2>1, <2>3, <3>1 DEF Gone
  <2>4. QED
    BY <1>0, <1>5, <2>2, <2>3 DEF CleanInv
<1>14. QED
  BY <1>7, <1>8, <1>9, <1>10, <1>11, <1>12, <1>13 DEF Inv

\* What the rows that are applied are to a request of the account.
LEMMA Shown ==
  ASSUME Inv, NEW n \in Loads, Apply(n)
  PROVE  /\ visit' \in [Visits -> Visit]
         /\ \A v \in Visits :
              /\ visit'[v].pc = visit[v].pc
              /\ visit'[v].ready <=> (visit[v].ready \/ v \in loads[n].waits) /\ loaded' # "done"
              /\ visit'[v].covered = IF overtaken' THEN {} ELSE visit[v].covered
              /\ visit'[v].clean <=> visit[v].clean /\ ~overtaken'
<1>1. ASSUME NEW v \in Visits
      PROVE  /\ visit'[v] \in Visit
             /\ visit'[v].pc = visit[v].pc
             /\ visit'[v].ready <=> (visit[v].ready \/ v \in loads[n].waits) /\ loaded' # "done"
             /\ visit'[v].covered = IF overtaken' THEN {} ELSE visit[v].covered
             /\ visit'[v].clean <=> visit[v].clean /\ ~overtaken'
  <2> DEFINE ready == (visit[v].ready \/ v \in loads[n].waits) /\ loaded' # "done"
             x == [visit[v] EXCEPT !.ready = ready]
  <2>1. visit[v] \in Visit
    BY DEF Inv, Types
  <2>2. visit'[v] = Excuse(x)
    BY DEF Apply
  <2>3. ready \in BOOLEAN
    OBVIOUS
  <2>4. ready <=> (visit[v].ready \/ v \in loads[n].waits) /\ loaded' # "done"
    OBVIOUS
  <2> HIDE DEF ready
  <2>5. /\ x \in Visit /\ x.pc = visit[v].pc /\ x.ready = ready
        /\ x.covered = visit[v].covered /\ x.clean = visit[v].clean
    BY <2>1, <2>3 DEF Visit
  <2> HIDE DEF x
  <2>6. CASE overtaken'
    <3>1. visit'[v] = [x EXCEPT !.covered = {}, !.clean = FALSE]
      BY <2>2, <2>6 DEF Excuse
    <3>2. QED
      BY <2>4, <2>5, <2>6, <3>1 DEF Visit
  <2>7. CASE ~overtaken'
    <3>1. visit'[v] = x
      BY <2>2, <2>7 DEF Excuse
    <3>2. QED
      BY <2>4, <2>5, <2>7, <3>1
  <2>8. QED
    BY <2>6, <2>7
<1>2. visit' = [v \in Visits |-> visit'[v]]
  BY DEF Apply
<1>3. visit' \in [Visits -> Visit]
  BY <1>1, <1>2
<1>4. QED
  BY <1>1, <1>3

LEMMA ApplyInv ==
  ASSUME Inv, NEW n \in Loads, Apply(n)
  PROVE  Inv'
<1>z. /\ Types /\ loads[n] \in LoadType /\ n \in Nat /\ Len(loads) \in Nat /\ n <= Len(loads)
  <2>1. Types /\ loads \in Seq(LoadType) /\ Len(loads) \in Nat /\ n \in 1..Len(loads)
    BY LenProperties DEF Inv, Types, Loads
  <2>2. QED
    BY <2>1, ElementOfSeq
<1>0. /\ Types /\ index' = InForce(loads[n].rows) /\ loads' = Without(n)
      /\ loaded' = IF loads[n].current THEN "done" ELSE loaded
      /\ overtaken' = loads[n].passed /\ loads[n] \in LoadType
      /\ UNCHANGED <<account, bans>> /\ Stored' = Stored
      /\ n \in Nat /\ Len(loads) \in Nat /\ n <= Len(loads)
  BY <1>z DEF Apply, Stored
<1>1. /\ Gone(n)
      /\ \A m \in Loads' :
           /\ loads'[m].current = loads[Was(n, m)].current
           /\ loads[Was(n, m)].passed => loads'[m].passed
           /\ m < n => loads'[m].passed
  BY <1>0, Applying
<1>2. /\ visit' \in [Visits -> Visit]
      /\ \A v \in Visits :
           /\ visit'[v].pc = visit[v].pc
           /\ visit'[v].ready <=> (visit[v].ready \/ v \in loads[n].waits) /\ loaded' # "done"
           /\ visit'[v].covered = IF overtaken' THEN {} ELSE visit[v].covered
           /\ visit'[v].clean <=> visit[v].clean /\ ~overtaken'
  BY Shown
<1>3. /\ req' \in [Requests -> Job]
      /\ \A r \in Requests :
           req'[r].adds = IF r \in loads[n].waits THEN "" ELSE req[r].adds
  <2>1. ASSUME NEW r \in Requests
        PROVE  /\ req'[r] \in Job
               /\ req'[r].adds = IF r \in loads[n].waits THEN "" ELSE req[r].adds
    <3>1. /\ req[r] \in Job
          /\ req'[r] = IF r \in loads[n].waits THEN [req[r] EXCEPT !.adds = ""] ELSE req[r]
      BY <1>0 DEF Types, Apply
    <3>2. QED
      BY <3>1 DEF Job
  <2>2. req' = [r \in Requests |-> req'[r]]
    BY DEF Apply
  <2>3. QED
    BY <2>1, <2>2
<1>4. /\ \A m \in Loads' : \A k : Knows(Was(n, m), k) => Knows(m, k)'
      /\ \A m \in Loads' : NoBanIn(Was(n, m)) => NoBanIn(m)'
      /\ \A m \in Loads' : m < n => NoBanIn(m)' /\ \A k : Knows(m, k)'
      /\ \A m \in Loads' : ~(m < n) => Was(n, m) >= n
      /\ \A m \in Loads' : Was(n, m) \in Loads
  BY <1>0, <1>1 DEF Gone, Knows, NoBanIn, Was, Loads
<1>5. \A k \in answered' : /\ k \in Kinds /\ bans[k] = "live"
                           /\ \A m \in Loads : m >= n => Knows(m, k)
  <2>1. ASSUME NEW k \in answered
        PROVE  k \in Kinds /\ bans[k] = "live" /\ \A m \in Loads : Knows(m, k)
    BY DEF Inv, AnsweredInv, Types
  <2>2. ASSUME NEW k \in Kinds, NEW r \in Requests \cap loads[n].waits, req[r].adds = k
        PROVE  bans[k] = "live" /\ \A m \in Loads : m >= n => Knows(m, k)
    BY <2>2 DEF Inv, AnsweredInv
  <2>3. \A k \in answered' : k \in answered \/
           (k \in Kinds /\ \E r \in Requests \cap loads[n].waits : req[r].adds = k)
    BY DEF Apply
  <2>4. QED
    BY <2>1, <2>2, <2>3
<1>6. answered \subseteq answered' /\ answered' \subseteq Kinds
  BY <1>5 DEF Apply
<1>7. overtaken' \/ answered' \subseteq index'
  BY <1>0, <1>5 DEF Knows, InForce
<1>8. Types'
  <2>1. index' \subseteq Kinds
    BY <1>0 DEF InForce, LoadType
  <2>2. overtaken' \in BOOLEAN /\ loaded' \in {"none", "pending", "done"}
    BY <1>0 DEF LoadType, Types
  <2>3. QED
    BY <1>0, <1>1, <1>2, <1>3, <1>6, <2>1, <2>2 DEF Types, Gone
<1>9. CurrentInv'
  <2>1. ASSUME NEW m \in Loads', loads'[m].current
        PROVE  /\ ~loads[n].current /\ loaded = "pending"
               /\ m = Len(loads') /\ loads'[m].rows = Stored
    <3>1. Was(n, m) \in Loads \ {n} /\ loads[Was(n, m)].current
      BY <1>1, <2>1 DEF Gone
    <3>2. /\ Was(n, m) = Len(loads) /\ loads[Was(n, m)].rows = Stored /\ ~loads[n].current
          /\ loaded = "pending"
      BY <3>1 DEF Inv, CurrentInv
    <3>3. QED
      BY <1>1, <3>2 DEF Gone
  <2>2. ASSUME loaded' = "pending" PROVE \E m \in Loads' : loads'[m].current
    <3>1. ~loads[n].current /\ loaded = "pending"
      BY <1>0, <2>2
    <3>2. PICK c \in Loads \ {n} : loads[c].current
      BY <3>1 DEF Inv, CurrentInv
    <3>3. PICK m \in Loads' : Was(n, m) = c
      BY <1>1 DEF Gone
    <3>4. QED
      BY <1>1, <3>2, <3>3
  <2>3. ASSUME loaded' = "done", NEW m \in Loads' PROVE loads'[m].passed
    <3>1. CASE loads[n].current
      <4>1. n = Len(loads) /\ Was(n, m) \in Loads
        BY <1>4, <3>1 DEF Inv, CurrentInv
      <4>2. m < n
        BY <1>0, <1>1, <4>1 DEF Gone, Was, Loads
      <4>3. QED
        BY <1>1, <4>2
    <3>2. CASE ~loads[n].current
      <4>1. loads[Was(n, m)].passed
        BY <1>0, <1>4, <2>3, <3>2 DEF Inv, CurrentInv
      <4>2. QED
        BY <1>1, <4>1
    <3>3. QED
      BY <3>1, <3>2
  <2>4. QED
    BY <1>0, <2>1, <2>2, <2>3 DEF CurrentInv
<1>10. WaitInv'
  <2>1. ASSUME NEW v \in Visits, NEW m \in Loads', v \in loads'[m].waits
        PROVE  /\ visit'[v].pc # "idle" /\ ~visit'[v].ready
               /\ \A l \in Loads' : v \in loads'[l].waits => l = m
    <3>1. Was(n, m) \in Loads \ {n} /\ v \in loads[Was(n, m)].waits
      BY <1>1, <2>1 DEF Gone
    <3>2. v \notin loads[n].waits /\ visit[v].pc # "idle" /\ ~visit[v].ready
      BY <3>1 DEF Inv, WaitInv
    <3>3. ASSUME NEW l \in Loads', v \in loads'[l].waits PROVE l = m
      <4>1. Was(n, l) \in Loads /\ v \in loads[Was(n, l)].waits
        BY <1>1, <3>3 DEF Gone
      <4>2. Was(n, l) = Was(n, m)
        BY <3>1, <4>1 DEF Inv, WaitInv
      <4>3. QED
        BY <1>1, <4>2 DEF Gone
    <3>4. QED
      BY <1>2, <3>2, <3>3
  <2>2. QED
    BY <2>1 DEF WaitInv
<1>11. AnsweredInv'
  <2>1. ASSUME NEW k \in answered' PROVE bans[k] = "live" /\ \A m \in Loads' : Knows(m, k)'
    BY <1>4, <1>5
  <2>2. ASSUME NEW r \in Requests, NEW k \in Kinds, req'[r].adds = k
        PROVE  /\ bans[k] = "live"
               /\ \A m \in Loads' : r \in loads'[m].waits =>
                    \A l \in Loads' : l >= m => Knows(l, k)'
    <3>1. req[r].adds = k
      BY <1>3, <2>2, Constants
    <3>2. ASSUME NEW m \in Loads', r \in loads'[m].waits, NEW l \in Loads', l >= m
          PROVE  Knows(l, k)'
      <4>1. /\ Was(n, m) \in Loads /\ Was(n, l) \in Loads /\ Was(n, l) >= Was(n, m)
            /\ r \in loads[Was(n, m)].waits
        BY <1>1, <3>2 DEF Gone
      <4>2. Knows(Was(n, l), k)
        BY <3>1, <4>1 DEF Inv, AnsweredInv
      <4>3. QED
        BY <1>4, <4>2
    <3>3. QED
      BY <3>1, <3>2 DEF Inv, AnsweredInv
  <2>3. QED
    BY <1>0, <2>1, <2>2 DEF AnsweredInv
<1>12. IndexInv'
  <2>1. ASSUME loaded' = "done", ~overtaken' PROVE index' \subseteq Stored
    <3>1. loads[n].current
      BY <1>0, <2>1 DEF Inv, CurrentInv
    <3>2. loads[n].rows = Stored
      BY <3>1 DEF Inv, CurrentInv
    <3>3. QED
      BY <1>0, <3>2 DEF InForce
  <2>2. QED
    BY <1>0, <1>2, <1>7, <2>1 DEF IndexInv
<1>13. CoveredInv'
  <2>1. \A v \in Visits : /\ visit[v].covered \subseteq answered
                          /\ visit[v].pc = "email" => "user" \notin visit[v].covered
    BY DEF Inv, CoveredInv
  <2>2. QED
    BY <1>2, <1>6, <1>7, <2>1 DEF CoveredInv
<1>14. CleanInv'
  <2>1. ASSUME NEW v \in Visits, visit'[v].clean
        PROVE  visit[v].clean /\ ~loads[n].passed /\ Stored = {}
    BY <1>0, <1>2, <2>1 DEF Inv, CleanInv
  <2>2. ASSUME NEW v \in Visits, visit'[v].clean, NEW m \in Loads', v \in loads'[m].waits,
               NEW l \in Loads', l >= m
        PROVE  NoBanIn(l)'
    <3>1. /\ Was(n, m) \in Loads /\ Was(n, l) \in Loads /\ Was(n, l) >= Was(n, m)
          /\ v \in loads[Was(n, m)].waits
      BY <1>1, <2>2 DEF Gone
    <3>2. NoBanIn(Was(n, l))
      BY <2>1, <2>2, <3>1 DEF Inv, CleanInv
    <3>3. QED
      BY <1>4, <3>2
  <2>3. ASSUME NEW v \in Visits, visit'[v].clean, visit'[v].ready
        PROVE  index' = {} /\ \A m \in Loads' : NoBanIn(m)'
    <3>1. visit[v].ready \/ v \in loads[n].waits
      BY <1>2, <2>3
    <3>2. \A m \in Loads : m >= n => NoBanIn(m)
      BY <2>1, <2>3, <3>1 DEF Inv, CleanInv
    <3>3. loads[n].rows = {}
      BY <1>0, <2>1, <2>3, <3>2 DEF NoBanIn
    <3>4. index' = {}
      BY <1>0, <3>3 DEF InForce
    <3>5. QED
      BY <1>4, <3>2, <3>4
  <2>4. QED
    BY <1>0, <2>1, <2>2, <2>3 DEF CleanInv
<1>15. QED
  BY <1>8, <1>9, <1>10, <1>11, <1>12, <1>13, <1>14 DEF Inv
-------------------------------------------------------------------------------
LEMMA RestartInv ==
  ASSUME Inv, Restart
  PROVE  Inv'
<1>1. loads' \in Seq(LoadType) /\ Len(loads') = 0 /\ Loads' = {}
  BY NoLoads DEF Restart, Loads
<1>2. /\ req' \in [Requests -> Job] /\ visit' \in [Visits -> Visit]
      /\ \A v \in Visits : visit'[v] = NoVisit
      /\ \A r \in Requests : req'[r] = Nothing
  BY Constants DEF Restart
<1>3. /\ UNCHANGED <<account, bans, answered>> /\ loaded' = "none" /\ overtaken' = FALSE /\ index' = {}
  BY DEF Restart
<1>4. Types'
  <2>1. Len(loads') <= MaxLoads
    BY <1>1, BansAssumption
  <2>2. QED
    BY <1>1, <1>2, <1>3, <2>1 DEF Inv, Types
<1>5. CurrentInv' /\ WaitInv' /\ IndexInv'
  BY <1>1, <1>3 DEF CurrentInv, WaitInv, IndexInv
<1>6. AnsweredInv'
  BY <1>1, <1>2, <1>3, Constants DEF Inv, AnsweredInv
<1>7. CoveredInv' /\ CleanInv'
  BY <1>2, Constants DEF CoveredInv, CleanInv
<1>8. QED
  BY <1>4, <1>5, <1>6, <1>7 DEF Inv

LEMMA StepInv == Inv /\ [Next]_vars => Inv'
<1> SUFFICES ASSUME Inv, [Next]_vars PROVE Inv'
  OBVIOUS
<1>1. CASE Next
  <2>1. ASSUME NEW n \in Loads, Apply(n) \/ LoadFails(n) PROVE Inv'
    BY <2>1, ApplyInv, LoadFailsInv
  <2>2. ASSUME NEW r \in Requests,
               Begin(r) \/ BeginSweep(r) \/ Decide(r) \/ Approve(r) \/ AddBan(r) \/ LiftBan(r)
                 \/ Sweep(r) \/ Break(r)
        PROVE  Inv'
    BY <2>2, DesksInv, AddBanInv, LiftBanInv, SweepInv
  <2>3. ASSUME NEW v \in Visits,
               Arrive(v) \/ Load(v) \/ NotBanned(v) \/ Admit(v) \/ Ignore(v) \/ Refuse(v)
        PROVE  Inv'
    BY <2>3, LoadInv, VisitsInv
  <2>4. ASSUME NEW k \in Expiring, Expire(k) PROVE Inv'
    BY <2>4, ExpireInv
  <2>5. QED
    BY <1>1, <2>1, <2>2, <2>3, <2>4, RestartInv DEF Next
<1>2. CASE UNCHANGED vars
  <2>1. UNCHANGED <<account, bans, cache, answered, req, visit>>
    BY <1>2 DEF vars, cache
  <2>2. /\ account' \in [status : Statuses, session : BOOLEAN] /\ req' \in [Requests -> Job]
        /\ \A r \in Requests : req'[r].adds = req[r].adds
    BY <2>1 DEF Inv, Types
  <2>3. QED
    BY <2>1, <2>2, DeskInv
<1>3. QED
  BY <1>1, <1>2

LEMMA Invariance == Spec => []Inv
<1>1. QED
  BY InitInv, StepInv, PTL DEF Spec
-------------------------------------------------------------------------------
\* The index of bans, its loads, and those that wait for them, are what they are
\* meant to be: the promise is pending exactly while one of the loads is current.
THEOREM TypeCorrect == Spec => []TypeOK
<1>1. Inv => TypeOK
  BY InvShows
<1>2. QED
  BY <1>1, Invariance, PTL

\* A ban that has been answered is in every later lookup's way: attachUser and POST
\* /login admit nobody who came after the answer, whichever loads are under way or
\* have failed, and across a restart (reload, load and applyRows in src/bans.js).
THEOREM BannedAreRefused == Spec => BannedRefused
<1>1. Inv /\ [Next]_vars => [\A v \in Visits : Admit(v) => visit[v].covered = {}]_vars
  BY InvShows
<1>2. QED
  BY <1>1, Invariance, PTL DEF Spec, BannedRefused

\* Once the bans are lifted and the answers are out, no request that comes later is
\* refused because of an index that still holds them (remove, removeMatching and
\* reload in src/bans.js).
THEOREM LiftedAreAdmitted == Spec => LiftedAdmitted
<1>1. Inv /\ [Next]_vars => [\A v \in Visits : Refuse(v) => ~visit[v].clean]_vars
  BY InvShows
<1>2. QED
  BY <1>1, Invariance, PTL DEF Spec, LiftedAdmitted

-------------------------------------------------------------------------------
(***************************************************************************)
(* Datasets.                                                               *)
(***************************************************************************)
Text == [v : 0..MaxVersion, is : {"none", "whole", "blank", "cut"}]
Texted == [Sources -> Text]
Refresh == [pc : {"idle", "fetch", "write", "note"}, at : Sources, got : Text,
            changed : BOOLEAN, texts : Texted]

\* What is in memory was in the file; the file is not ahead of the publisher; what is
\* noted as fetched is not cut.
SourceInv(s) ==
  /\ mem[s].v <= file[s].v /\ file[s].v <= upstream[s].v /\ upstream[s].is # "cut"
  /\ meta[s] <= file[s].v /\ (meta[s] = file[s].v => file[s].is # "cut")
  /\ file[s].is = "none" => file[s].v = 0
  /\ s \in Used => upstream[s].v > 0 /\ upstream[s].is # "none"

\* What a refresh has fetched is newer than what was noted, and what it has read of the
\* first source is still in its file.
RefreshInv ==
  /\ job.at \in Used
  /\ job.at = Second /\ kind = "ranges" => job.texts[First] = file[First]
  /\ job.pc = "write" => /\ job.got.is \notin {"cut", "none"} /\ meta[job.at] < job.got.v
                         /\ file[job.at].v <= job.got.v /\ job.got.v <= upstream[job.at].v
  /\ job.pc = "note" => job.got = file[job.at] /\ job.got.is \notin {"cut", "none"}

ListsTyped ==
  /\ kind \in DatasetKinds /\ upstream \in Texted /\ file \in Texted
  /\ meta \in [Sources -> 0..MaxVersion] /\ mem \in Texted
  /\ usable \in BOOLEAN /\ restarts \in 0..MaxRestarts /\ broken \in BOOLEAN
  /\ job \in Refresh

ListsInv == ListsTyped /\ RefreshInv /\ \A s \in Sources : SourceInv(s)

LEMMA ListsShow == ListsInv => ListsTypeOK
BY DEF ListsInv, ListsTyped, ListsTypeOK, Texted, Text, Refresh, Texts, SourceInv

LEMMA Rests ==
  /\ NoText \in Text /\ NoText.v = 0 /\ NoText.is = "none"
  /\ Resting \in Refresh /\ Resting.pc = "idle" /\ Resting.at = First
  /\ First # Second /\ Sources = {First, Second}
  /\ First \in Used /\ Used \subseteq Sources
  /\ Second \in Used => kind \in {"ranges", "geo"}
<1>1. NoText \in Text /\ NoText.v = 0 /\ NoText.is = "none"
  BY DatasetsAssumption DEF NoText, Text
<1>2. NoTexts \in Texted
  BY <1>1 DEF NoTexts, Texted
<1>3. First # Second /\ Sources = {First, Second}
  BY DatasetsAssumption DEF Sources
<1>4. /\ First \in Used /\ Used \subseteq Sources
      /\ Second \in Used => kind \in {"ranges", "geo"}
  BY <1>3 DEF Used
<1>5. QED
  BY <1>1, <1>2, <1>3, <1>4, DatasetsAssumption DEF Resting, Refresh, Sources

LEMMA SameUsed == kind' = kind => Used' = Used
BY DEF Used

LEMMA InitLists == ListsInit => ListsInv
<1> SUFFICES ASSUME ListsInit PROVE ListsInv
  OBVIOUS
<1>0. NoText \in Text /\ NoText.v = 0 /\ NoText.is = "none"
  BY DatasetsAssumption DEF NoText, Text
<1>1. NoTexts \in Texted /\ \A s \in Sources : NoTexts[s] = NoText
  BY <1>0 DEF NoTexts, Texted
<1>2. Resting \in Refresh /\ Resting.pc = "idle" /\ Resting.at = First
  BY <1>0, <1>1 DEF Resting, Refresh, Sources
<1>3. /\ upstream \in Texted /\ \A s \in Sources : upstream[s].is # "cut"
      /\ \A s \in Used : upstream[s].v = 1 /\ upstream[s].is # "none"
  <2>1. PICK is \in [Used -> Published] :
       upstream = [s \in Sources |-> IF s \in Used THEN [v |-> 1, is |-> is[s]] ELSE NoText]
    BY DEF ListsInit
  <2>2. ASSUME NEW s \in Sources PROVE upstream[s] \in Text /\ upstream[s].is # "cut"
    <3>1. CASE s \in Used
      <4>1. upstream[s] = [v |-> 1, is |-> is[s]] /\ is[s] \in {"whole", "blank"}
        BY <3>1, <2>1 DEF Published
      <4>2. 1 \in 0..MaxVersion
        BY DatasetsAssumption
      <4>3. QED
        BY <4>1, <4>2 DEF Text
    <3>2. CASE s \notin Used
      BY <3>2, <2>1, <1>0
    <3>3. QED
      BY <3>1, <3>2
  <2>3. ASSUME NEW s \in Used PROVE upstream[s].v = 1 /\ upstream[s].is # "none"
    <3>1. upstream[s] = [v |-> 1, is |-> is[s]] /\ is[s] \in {"whole", "blank"}
      BY <2>1, Rests DEF Published
    <3>2. QED
      BY <3>1
  <2>4. QED
    BY <2>1, <2>2, <2>3 DEF Texted
<1>4. ListsTyped
  <2>1. kind \in DatasetKinds /\ file = NoTexts /\ mem = NoTexts /\ job = Resting
        /\ meta = [s \in Sources |-> 0] /\ usable = FALSE /\ restarts = 0 /\ broken = FALSE
    BY DEF ListsInit
  <2>2. 0 \in 0..MaxVersion /\ 0 \in 0..MaxRestarts
    BY DatasetsAssumption
  <2>3. QED
    BY <1>1, <1>2, <1>3, <2>1, <2>2 DEF ListsTyped
<1>5. RefreshInv
  BY <1>2, Rests DEF ListsInit, RefreshInv
<1>6. ASSUME NEW s \in Sources PROVE SourceInv(s)
  <2>1. mem[s] = NoText /\ file[s] = NoText /\ meta[s] = 0
    BY <1>1 DEF ListsInit
  <2>2. upstream[s].v \in Nat /\ upstream[s].is # "cut"
    BY <1>3 DEF Texted, Text
  <2>3. s \in Used => upstream[s].v > 0 /\ upstream[s].is # "none"
    BY <1>3
  <2>4. QED
    BY <1>0, <2>1, <2>2, <2>3 DEF SourceInv
<1>7. QED
  BY <1>4, <1>5, <1>6 DEF ListsInv

\* What one step may do to what a usable list refuses.
Kept ==
  restarts' = restarts =>
    \A s \in Used : Refuses(s) =>
      /\ mem'[s].v >= mem[s].v
      /\ Whole(mem'[s]) \/ (kind # "domains" /\ mem'[s] = file'[s])

\* The source at hand has been answered, or its fetch has failed.
Answers(status) ==
  /\ kind' = kind /\ upstream' = upstream /\ restarts' = restarts
  /\ file' \in Texted /\ meta' \in [Sources -> 0..MaxVersion]
  /\ \A s \in Sources : s # job.at => file'[s] = file[s] /\ meta'[s] = meta[s]
  /\ file[job.at].v <= file'[job.at].v /\ file'[job.at].v <= upstream[job.at].v
  /\ meta'[job.at] <= file'[job.at].v
  /\ file'[job.at].is = "none" => file'[job.at].v = 0
  /\ (meta'[job.at] = file'[job.at].v \/ status # "error") => file'[job.at].is # "cut"

\* What is in memory of a source is what was there, or is in its file; the refresh is over,
\* or goes on with the second source.
Matched ==
  /\ mem' \in Texted /\ usable' \in BOOLEAN /\ broken' \in BOOLEAN
  /\ \A s \in Sources :
       mem'[s] = mem[s] \/ (mem'[s] = file'[s] /\ (kind = "domains" => Whole(file'[s])))
WentOn ==
  /\ job' \in Refresh /\ job'.pc \in {"idle", "fetch"}
  /\ job'.at = Second => /\ kind \in {"ranges", "geo"}
                         /\ kind = "ranges" => job'.texts[First] = file'[First]

LEMMA MatchedInv ==
  ASSUME ListsInv, NEW status, Answers(status), Matched, WentOn
  PROVE  ListsInv' /\ Kept
<1>1. ListsTyped'
  BY Rests DEF ListsInv, ListsTyped, Answers, Matched, WentOn
<1>2. RefreshInv'
  <2>1. Used' = Used /\ job'.at \in Sources /\ (job'.at = Second => Second \in Used)
    BY SameUsed DEF WentOn, Answers, Refresh, Used
  <2>2. job'.at \in Used'
    BY <2>1, Rests
  <2>3. QED
    BY <2>2 DEF RefreshInv, WentOn, Answers
<1>3. ASSUME NEW s \in Sources PROVE SourceInv(s)' /\ mem[s].v <= mem'[s].v
  <2>1. mem[s].v \in Nat /\ file[s].v \in Nat /\ upstream[s].v \in Nat /\ file'[s].v \in Nat
    BY DEF ListsInv, ListsTyped, Texted, Text, Answers
  <2>2. SourceInv(s)
    BY DEF ListsInv
  <2>3. file[s].v <= file'[s].v /\ file'[s].v <= upstream'[s].v /\ upstream'[s].is # "cut"
        /\ meta'[s] <= file'[s].v /\ (meta'[s] = file'[s].v => file'[s].is # "cut")
        /\ (file'[s].is = "none" => file'[s].v = 0)
    <3>1. CASE s = job.at
      BY <3>1, <2>2 DEF Answers, SourceInv
    <3>2. CASE s # job.at
      BY <3>2, <2>1, <2>2 DEF Answers, SourceInv
    <3>3. QED
      BY <3>1, <3>2
  <2>4. mem'[s].v = mem[s].v \/ mem'[s].v = file'[s].v
    BY DEF Matched
  <2>5. mem[s].v <= mem'[s].v /\ mem'[s].v <= file'[s].v
    BY <2>1, <2>2, <2>3, <2>4 DEF SourceInv
  <2>6. s \in Used' => upstream'[s].v > 0 /\ upstream'[s].is # "none"
    BY <2>2, SameUsed DEF SourceInv, Answers
  <2>7. QED
    BY <2>3, <2>5, <2>6 DEF SourceInv
<1>4. Kept
  <2> SUFFICES ASSUME NEW s \in Used, Refuses(s)
               PROVE  /\ mem'[s].v >= mem[s].v
                      /\ Whole(mem'[s]) \/ (kind # "domains" /\ mem'[s] = file'[s])
    BY DEF Kept
  <2>1. s \in Sources
    BY DEF Used, Sources
  <2>2. mem[s].v \in Nat /\ mem'[s].v \in Nat
    BY <2>1 DEF ListsInv, ListsTyped, Texted, Text, Matched
  <2>3. Whole(mem[s])
    BY DEF Refuses
  <2>4. mem[s].v <= mem'[s].v
    BY <1>3, <2>1
  <2>5. mem'[s] = mem[s] \/ (mem'[s] = file'[s] /\ (kind = "domains" => Whole(file'[s])))
    BY <2>1 DEF Matched
  <2>6. QED
    BY <2>2, <2>3, <2>4, <2>5
<1>5. QED
  BY <1>1, <1>2, <1>3, <1>4 DEF ListsInv

\* What a refresh does with the answer for one source.
LEMMA TakesInv ==
  ASSUME ListsInv, NEW status, Answers(status),
         (Returns(status) /\ (kind = "geo" => file' = file)) \/ BreaksOff
  PROVE  ListsInv' /\ Kept
<1>1. /\ mem \in Texted /\ file' \in Texted /\ usable \in BOOLEAN /\ broken \in BOOLEAN
      /\ job \in Refresh /\ job.at \in {First, Second} /\ kind \in DatasetKinds
  BY Rests DEF ListsInv, ListsTyped, Answers, Refresh
<1>2. job.at = Second => kind \in {"ranges", "geo"} /\ (kind = "ranges" => job.texts[First] = file'[First])
  BY Rests DEF ListsInv, RefreshInv, Answers
<1>t. TextOf(status, file'[job.at]) = file'[job.at]
  BY DEF TextOf
<1>3. CASE BreaksOff
  <2>1. Matched /\ WentOn
    BY <1>1, <1>3, Rests DEF BreaksOff, Matched, WentOn
  <2>2. QED
    BY <2>1, MatchedInv
<1>4. CASE kind = "tor" /\ Returns(status)
  <2>1. TakeTor(status, file'[job.at]) /\ broken' = broken /\ job.at = First
    BY <1>1, <1>2, <1>4, <1>t DEF Returns, Take
  <2>2. job' = Resting /\ usable' \in BOOLEAN
        /\ (mem' = mem \/ mem' = [mem EXCEPT ![First] = file'[First]])
    BY <1>1, <2>1 DEF TakeTor
  <2>3. Matched /\ WentOn
    BY <1>1, <1>4, <2>1, <2>2, Rests DEF Matched, WentOn, Texted
  <2>4. QED
    BY <2>3, MatchedInv
<1>5. CASE kind = "domains" /\ Returns(status)
  <2>1. TakeDomains(status, file'[job.at]) /\ broken' = broken /\ job.at = First
    BY <1>1, <1>2, <1>5, <1>t DEF Returns, Take
  <2>2. job' = Resting /\ usable' = usable
        /\ (mem' = mem \/ (mem' = [mem EXCEPT ![First] = file'[First]] /\ Whole(file'[First])))
    BY <1>1, <2>1 DEF TakeDomains, Some, Whole, Answers
  <2>3. Matched /\ WentOn
    BY <1>1, <1>5, <2>1, <2>2, Rests DEF Matched, WentOn, Texted
  <2>4. QED
    BY <2>3, MatchedInv
<1>6. CASE kind = "ranges" /\ Returns(status)
  <2>1. TakeRange(status, file'[job.at]) /\ broken' = broken
    BY <1>1, <1>6, <1>t DEF Returns, Take
  <2> DEFINE texts == [job.texts EXCEPT ![job.at] = file'[job.at]]
  <2>2. texts \in Texted /\ texts[First] = file'[First] /\ (job.at = Second => texts = file')
    BY <1>1, <1>2, <1>6, Rests DEF Refresh, Texted
  <2>3. CASE job.at = First
    <3>1. /\ job' = [ToSecond EXCEPT !.changed = (job.changed \/ status = "ok"), !.texts = texts]
          /\ mem' = mem /\ usable' = usable
      BY <2>1, <2>3, Rests DEF TakeRange, Last
    <3>2. job' \in Refresh /\ job'.at = Second /\ job'.pc = "fetch" /\ job'.texts = texts
      BY <1>1, <2>2, <3>1, Rests DEF ToSecond, Refresh
    <3>3. Matched /\ WentOn
      BY <1>1, <1>6, <2>1, <2>2, <3>1, <3>2 DEF Matched, WentOn
    <3>4. QED
      BY <3>3, MatchedInv
  <2>4. CASE job.at = Second
    <3>1. job' = Resting /\ usable' \in BOOLEAN /\ (mem' = mem \/ mem' = file')
      BY <1>1, <2>1, <2>2, <2>4 DEF TakeRange, Last
    <3>2. Matched /\ WentOn
      BY <1>1, <1>6, <2>1, <3>1, Rests DEF Matched, WentOn
    <3>3. QED
      BY <3>2, MatchedInv
  <2>5. QED
    BY <1>1, <2>3, <2>4
<1>7. CASE kind = "geo" /\ Returns(status) /\ file' = file
  <2>1. TakeEdition(status = "ok") /\ usable' = usable
    BY <1>7 DEF Returns, Installed
  <2>2. CASE job.at = First
    <3>1. job' = [ToSecond EXCEPT !.changed = (status = "ok")] /\ mem' = mem /\ broken' = broken
      BY <2>1, <2>2, Rests DEF TakeEdition, Last
    <3>2. job' \in Refresh /\ job'.at = Second /\ job'.pc = "fetch"
      BY <1>1, <3>1, Rests DEF ToSecond, Refresh
    <3>3. Matched /\ WentOn
      BY <1>1, <1>7, <2>1, <3>1, <3>2 DEF Matched, WentOn
    <3>4. QED
      BY <3>3, MatchedInv
  <2>3. CASE job.at = Second
    <3>1. job' = Resting /\ broken' \in BOOLEAN /\ (mem' = mem \/ mem' = Opened(file))
      BY <1>1, <2>1, <2>3 DEF TakeEdition, Last
    <3>2. mem' \in Texted /\ \A s \in Sources : mem'[s] = mem[s] \/ mem'[s] = file'[s]
      BY <1>1, <1>7, <3>1 DEF Opened, Texted
    <3>3. Matched /\ WentOn
      BY <1>1, <1>7, <2>1, <3>1, <3>2, Rests DEF Matched, WentOn
    <3>4. QED
      BY <3>3, MatchedInv
  <2>4. QED
    BY <1>1, <2>2, <2>3
<1>8. QED
  BY <1>1, <1>3, <1>4, <1>5, <1>6, <1>7 DEF DatasetKinds

LEMMA SameKept ==
  ASSUME ListsInv, mem' = mem
  PROVE  Kept
<1>1. ASSUME NEW s \in Used PROVE mem[s].v \in Nat
  BY DEF Used, Sources, ListsInv, ListsTyped, Texted, Text
<1>2. QED
  BY <1>1 DEF Kept, Refuses

LEMMA PublishInv ==
  ASSUME ListsInv, NEW s \in Used, Publish(s)
  PROVE  ListsInv' /\ Kept
<1>1. PICK is \in Published : upstream' = [upstream EXCEPT ![s] = [v |-> @.v + 1, is |-> is]]
  BY DEF Publish
<1>2. s \in Sources /\ upstream[s].v \in Nat /\ upstream[s].v < MaxVersion /\ is \in {"whole", "blank"}
  BY <1>1 DEF Publish, Used, Sources, ListsInv, ListsTyped, Texted, Text, Published
<1>3. upstream[s].v + 1 \in 0..MaxVersion
  BY <1>2, DatasetsAssumption
<1>4. [v |-> upstream[s].v + 1, is |-> is] \in Text
  BY <1>2, <1>3 DEF Text
<1>5. /\ upstream' \in Texted /\ \A x \in Sources : upstream[x].v <= upstream'[x].v
      /\ \A x \in Sources : \A way \in {"cut", "none"} : upstream[x].is # way => upstream'[x].is # way
  <2>1. upstream \in Texted
    BY DEF ListsInv, ListsTyped
  <2>2. ASSUME NEW x \in Sources
        PROVE  upstream[x].v <= upstream'[x].v 
               /\ \A way \in {"cut", "none"} : upstream[x].is # way => upstream'[x].is # way
    <3>1. upstream[x].v \in Nat
      BY <2>1 DEF Texted, Text
    <3>2. CASE x = s
      BY <1>1, <1>2, <2>1, <3>2 DEF Texted
    <3>3. CASE x # s
      BY <1>1, <2>1, <3>1, <3>3 DEF Texted
    <3>4. QED
      BY <3>2, <3>3
  <2>3. upstream' \in Texted
    BY <1>1, <1>4, <2>1 DEF Texted
  <2>4. QED
    BY <2>2, <2>3
<1>6. UNCHANGED <<kind, file, meta, mem, usable, job, restarts, broken>>
  BY DEF Publish
<1>7. ListsTyped'
  BY <1>5, <1>6 DEF ListsInv, ListsTyped
<1>8. RefreshInv'
  <2>1. job.at \in Sources /\ upstream[job.at].v \in Nat /\ upstream'[job.at].v \in Nat /\ job.got.v \in Nat
    BY <1>5 DEF ListsInv, ListsTyped, Refresh, Texted, Text
  <2>2. upstream[job.at].v <= upstream'[job.at].v
    BY <1>5, <2>1
  <2>3. QED
    BY <1>6, <2>1, <2>2, SameUsed DEF ListsInv, RefreshInv
<1>9. ASSUME NEW x \in Sources PROVE SourceInv(x)'
  <2>1. upstream[x].v \in Nat /\ upstream'[x].v \in Nat /\ file[x].v \in Nat /\ SourceInv(x)
    BY <1>5 DEF ListsInv, ListsTyped, Texted, Text
  <2>2. QED
    BY <1>5, <1>6, <2>1, SameUsed DEF SourceInv
<1>10. Kept
  BY <1>6, SameKept
<1>11. QED
  BY <1>7, <1>8, <1>9, <1>10 DEF ListsInv

\* What the server has in memory when it has started again.
LEMMA RestartsInv ==
  ASSUME ListsInv, restarts < MaxRestarts, restarts' = restarts + 1,
         kind' = kind, upstream' = upstream, file' \in Texted, meta' = meta,
         \A s \in Sources :
            /\ file[s].v <= file'[s].v /\ file'[s].v <= upstream[s].v
            /\ meta[s] <= file'[s].v /\ (meta[s] = file'[s].v => file'[s].is # "cut")
            /\ file'[s].is = "none" => file'[s].v = 0,
         mem' = [s \in Sources |-> IF Loadable(file'[s]) THEN file'[s] ELSE NoText],
         usable' \in BOOLEAN, job' = Resting, broken' = FALSE
  PROVE  ListsInv' /\ Kept
<1>1. restarts' \in 0..MaxRestarts /\ restarts' # restarts
  BY DatasetsAssumption DEF ListsInv, ListsTyped
<1>2. mem' \in Texted
  BY Rests DEF Texted
<1>3. ListsTyped'
  BY <1>1, <1>2, Rests DEF ListsInv, ListsTyped
<1>4. RefreshInv'
  BY Rests, SameUsed DEF RefreshInv
<1>5. ASSUME NEW s \in Sources PROVE SourceInv(s)'
  <2>1. SourceInv(s) /\ file'[s].v \in Nat
    BY DEF ListsInv, Texted, Text
  <2>2. mem'[s].v <= file'[s].v
    BY <2>1, Rests
  <2>3. QED
    BY <2>1, <2>2, SameUsed DEF SourceInv
<1>6. QED
  BY <1>1, <1>3, <1>4, <1>5 DEF ListsInv, Kept

\* What a write that is cut short leaves.
LEMMA TornIs ==
  ASSUME ListsInv, job.pc = "write", NEW torn \in Torn
  PROVE  /\ torn \in Texted
         /\ \A s \in Sources : s # job.at => torn[s] = file[s]
         /\ torn[job.at].v = job.got.v /\ torn[job.at].is # "none"
<1>1. PICK is \in {"cut", "blank"} : torn = [file EXCEPT ![job.at] = [job.got EXCEPT !.is = is]]
  BY DEF Torn
<1>2. job.got \in Text /\ job.at \in Sources /\ file \in Texted
  BY DEF ListsInv, ListsTyped, Refresh
<1>3. [job.got EXCEPT !.is = is] \in Text /\ [job.got EXCEPT !.is = is].v = job.got.v
      /\ [job.got EXCEPT !.is = is].is # "none"
  BY <1>1, <1>2 DEF Text
<1>4. QED
  BY <1>1, <1>2, <1>3 DEF Texted

LEMMA StoppedInv ==
  ASSUME ListsInv, RestartServer \/ WriteTorn
  PROVE  ListsInv' /\ Kept
<1>1. CASE RestartServer
  <2>1. /\ restarts < MaxRestarts /\ restarts' = restarts + 1 /\ kind' = kind /\ upstream' = upstream
        /\ file' = file /\ meta' = meta /\ usable' \in BOOLEAN /\ job' = Resting /\ broken' = FALSE
        /\ mem' = [s \in Sources |-> IF Loadable(file'[s]) THEN file'[s] ELSE NoText]
    BY <1>1 DEF RestartServer
  <2>2. ASSUME NEW s \in Sources
        PROVE  /\ file[s].v <= file'[s].v /\ file'[s].v <= upstream[s].v
               /\ meta[s] <= file'[s].v /\ (meta[s] = file'[s].v => file'[s].is # "cut")
               /\ (file'[s].is = "none" => file'[s].v = 0)
    <3>1. SourceInv(s) /\ file[s].v \in Nat
      BY DEF ListsInv, ListsTyped, Texted, Text
    <3>2. QED
      BY <2>1, <3>1 DEF SourceInv
  <2>3. file' \in Texted
    BY <2>1 DEF ListsInv, ListsTyped
  <2>4. QED
    BY <2>1, <2>2, <2>3, RestartsInv
<1>2. CASE WriteTorn
  <2>1. /\ restarts < MaxRestarts /\ restarts' = restarts + 1 /\ kind' = kind /\ upstream' = upstream
        /\ file' \in Torn /\ meta' = meta /\ usable' \in BOOLEAN /\ job' = Resting /\ broken' = FALSE
        /\ mem' = [s \in Sources |-> IF Loadable(file'[s]) THEN file'[s] ELSE NoText]
        /\ job.pc = "write"
    BY <1>2 DEF WriteTorn, NoteWithText
  <2>t. /\ file' \in Texted /\ file'[job.at].v = job.got.v /\ file'[job.at].is # "none"
        /\ \A s \in Sources : s # job.at => file'[s] = file[s]
    BY <2>1, TornIs
  <2>2. ASSUME NEW s \in Sources
        PROVE  /\ file[s].v <= file'[s].v /\ file'[s].v <= upstream[s].v
               /\ meta[s] <= file'[s].v /\ (meta[s] = file'[s].v => file'[s].is # "cut")
               /\ (file'[s].is = "none" => file'[s].v = 0)
    <3>1. SourceInv(s) /\ file[s].v \in Nat /\ meta[s] \in Nat /\ job.got.v \in Nat
      BY DEF ListsInv, ListsTyped, Texted, Text, Refresh
    <3>2. CASE s = job.at
      BY <2>1, <2>t, <3>1, <3>2 DEF ListsInv, RefreshInv
    <3>3. CASE s # job.at
      BY <2>t, <3>1, <3>3 DEF SourceInv
    <3>4. QED
      BY <3>2, <3>3
  <2>4. QED
    BY <2>1, <2>2, <2>t, RestartsInv
<1>3. QED
  BY <1>1, <1>2

LEMMA BeginInv ==
  ASSUME ListsInv, BeginRefresh
  PROVE  ListsInv' /\ Kept
<1>1. job' = [Resting EXCEPT !.pc = "fetch"]
      /\ UNCHANGED <<kind, upstream, file, meta, mem, usable, restarts, broken>>
  BY DEF BeginRefresh
<1>2. job' \in Refresh /\ job'.pc = "fetch" /\ job'.at = First
  BY <1>1, Rests DEF Refresh
<1>3. ListsTyped' /\ RefreshInv' /\ \A s \in Sources : SourceInv(s)'
  BY <1>1, <1>2, Rests, SameUsed DEF ListsInv, ListsTyped, RefreshInv, SourceInv
<1>4. QED
  BY <1>1, <1>3, SameKept DEF ListsInv

\* The source that a refresh is at.
LEMMA AtHand ==
  ASSUME ListsInv
  PROVE  /\ job \in Refresh /\ job.at \in Sources /\ file \in Texted /\ job.got \in Text
         /\ meta \in [Sources -> 0..MaxVersion] /\ meta[job.at] \in Nat
         /\ file[job.at].v \in Nat /\ upstream[job.at].v \in Nat /\ job.got.v \in Nat
         /\ job.got.v \in 0..MaxVersion /\ 0 \in 0..MaxVersion
         /\ SourceInv(job.at)
BY DatasetsAssumption DEF ListsInv, ListsTyped, Refresh, Texted, Text

\* A fetch that fails, or finds nothing new.
LEMMA FetchInv ==
  ASSUME ListsInv, FetchFails \/ NotModified
  PROVE  ListsInv' /\ Kept
<1>1. CASE FetchFails
  <2>1. UNCHANGED <<kind, upstream, file, meta, restarts>> /\ (Returns("error") \/ BreaksOff)
    BY <1>1 DEF FetchFails
  <2>2. Answers("error")
    BY <2>1, AtHand DEF Answers, SourceInv
  <2>3. QED
    BY <2>1, <2>2, TakesInv
<1>2. CASE NotModified
  <2>1. UNCHANGED <<kind, upstream, file, meta, restarts>> /\ Returns("notmodified")
        /\ meta[job.at] = upstream[job.at].v
    BY <1>2 DEF NotModified, UpToDate
  <2>2. meta[job.at] = file[job.at].v
    BY <2>1, AtHand DEF SourceInv
  <2>3. Answers("notmodified")
    BY <2>1, <2>2, AtHand DEF Answers, SourceInv
  <2>4. QED
    BY <2>1, <2>3, TakesInv
<1>3. QED
  BY <1>1, <1>2

LEMMA FetchedInv ==
  ASSUME ListsInv, Answered
  PROVE  ListsInv' /\ Kept
<1>1. /\ job.pc = "fetch" /\ job' = [job EXCEPT !.pc = "write", !.got = upstream[job.at]]
      /\ UNCHANGED <<kind, upstream, file, meta, mem, usable, restarts, broken>>
      /\ ~(meta[job.at] = upstream[job.at].v /\ (kind = "geo" => file[job.at].is # "none"))
  BY DEF Answered, UpToDate
<1>2. upstream[job.at] \in Text
  BY AtHand DEF ListsInv, ListsTyped, Texted
<1>3. job' \in Refresh /\ job'.pc = "write" /\ job'.at = job.at /\ job'.got = upstream[job.at]
      /\ job'.texts = job.texts
  BY <1>1, <1>2, AtHand DEF Refresh
<1>4. meta[job.at] < upstream[job.at].v
  BY <1>1, AtHand DEF SourceInv, ListsInv, RefreshInv
<1>5. ListsTyped'
  BY <1>1, <1>3 DEF ListsInv, ListsTyped
<1>6. RefreshInv'
  BY <1>1, <1>3, <1>4, AtHand, SameUsed DEF ListsInv, RefreshInv, SourceInv
<1>7. \A s \in Sources : SourceInv(s)'
  BY <1>1, SameUsed DEF ListsInv, SourceInv
<1>8. QED
  BY <1>1, <1>5, <1>6, <1>7, SameKept DEF ListsInv

LEMMA WriteTextInv ==
  ASSUME ListsInv, WriteText
  PROVE  ListsInv' /\ Kept
<1>1. /\ job.pc = "write" /\ job' = [job EXCEPT !.pc = "note"]
      /\ file' = [file EXCEPT ![job.at] = job.got] /\ meta' = meta
      /\ UNCHANGED <<kind, upstream, mem, usable, restarts, broken>>
  BY DEF WriteText, WithText, NoteWithText
<1>2. job' \in Refresh /\ job'.pc = "note" /\ job'.at = job.at /\ job'.got = job.got
      /\ job'.texts = job.texts
  BY <1>1, AtHand DEF Refresh
<1>3. file' \in Texted /\ file'[job.at] = job.got /\ \A s \in Sources : s # job.at => file'[s] = file[s]
  BY <1>1, AtHand DEF Texted
<1>4. /\ job.got.is \notin {"cut", "none"} /\ meta[job.at] < job.got.v
      /\ file[job.at].v <= job.got.v /\ job.got.v <= upstream[job.at].v
  BY <1>1 DEF ListsInv, RefreshInv
<1>5. ListsTyped'
  BY <1>1, <1>2, <1>3 DEF ListsInv, ListsTyped
<1>6. RefreshInv'
  BY <1>1, <1>2, <1>3, <1>4, Rests, SameUsed DEF ListsInv, RefreshInv
<1>7. ASSUME NEW s \in Sources PROVE SourceInv(s)'
  <2>1. SourceInv(s) /\ mem[s].v \in Nat
    BY DEF ListsInv, ListsTyped, Texted, Text
  <2>2. CASE s = job.at
    BY <1>1, <1>3, <1>4, <2>1, <2>2, AtHand, SameUsed DEF SourceInv
  <2>3. CASE s # job.at
    BY <1>1, <1>3, <2>1, <2>3, SameUsed DEF SourceInv
  <2>4. QED
    BY <2>2, <2>3
<1>8. QED
  BY <1>1, <1>5, <1>6, <1>7, SameKept DEF ListsInv

LEMMA WriteFailsInv ==
  ASSUME ListsInv, WriteFails
  PROVE  ListsInv' /\ Kept
<1>1. /\ job.pc = "write" /\ file' \in Torn \cup {file} /\ meta' = meta
      /\ UNCHANGED <<kind, upstream, restarts>>
      /\ IF kind = "geo" THEN BreaksOff ELSE Returns("error")
  BY DEF WriteFails, NoteWithText
<1>2. /\ meta[job.at] < job.got.v /\ file[job.at].v <= job.got.v /\ job.got.v <= upstream[job.at].v
  BY <1>1 DEF ListsInv, RefreshInv
<1>3. CASE file' = file
  <2>1. Answers("error")
    BY <1>1, <1>3, AtHand DEF Answers, SourceInv
  <2>2. QED
    BY <1>1, <2>1, TakesInv
<1>4. CASE file' \in Torn
  <2>1. file' \in Texted /\ file'[job.at].v = job.got.v /\ file'[job.at].is # "none"
        /\ \A s \in Sources : s # job.at => file'[s] = file[s]
    BY <1>1, <1>4, TornIs
  <2>2. Answers("error")
    BY <1>1, <1>2, <2>1, AtHand DEF Answers
  <2>3. QED
    BY <1>1, <2>2, TakesInv
<1>5. QED
  BY <1>1, <1>3, <1>4

LEMMA NoteInv ==
  ASSUME ListsInv, Note \/ NoteFails
  PROVE  ListsInv' /\ Kept
<1>1. job.got = file[job.at] /\ job.got.is \notin {"cut", "none"} /\ file' = file /\ UNCHANGED <<kind, upstream, restarts>>
  BY DEF ListsInv, RefreshInv, Note, NoteFails
<1>2. CASE Note
  <2>1. meta' = [meta EXCEPT ![job.at] = job.got.v] /\ Returns("ok")
    BY <1>2 DEF Note
  <2>2. Answers("ok")
    BY <1>1, <2>1, AtHand DEF Answers, SourceInv
  <2>3. QED
    BY <1>1, <2>1, <2>2, TakesInv
<1>3. CASE NoteFails
  <2>1. /\ meta' = meta \/ meta' = [meta EXCEPT ![job.at] = 0]
        /\ IF kind = "geo" THEN BreaksOff ELSE Returns("error")
    BY <1>3 DEF NoteFails
  <2>2. Answers("error")
    BY <1>1, <2>1, AtHand DEF Answers, SourceInv
  <2>3. QED
    BY <2>1, <2>2, TakesInv
<1>4. QED
  BY <1>2, <1>3

\* The proof has one lemma per kind of step.
LEMMA ListsStep ==
  ASSUME ListsInv, [ListsNext]_listsVars
  PROVE  ListsInv' /\ Kept
<1>1. CASE UNCHANGED listsVars
  <2>1. UNCHANGED <<kind, upstream, file, meta, mem, usable, job, restarts, broken>>
    BY <1>1 DEF listsVars
  <2>2. ListsInv'
    BY <2>1, SameUsed DEF ListsInv, ListsTyped, RefreshInv, SourceInv
  <2>3. QED
    BY <2>1, <2>2, SameKept
<1>2. CASE \E s \in Used : Publish(s)
  BY <1>2, PublishInv
<1>3. CASE BeginRefresh
  BY <1>3, BeginInv
<1>4. CASE Succeeds
  BY <1>4, FetchInv, FetchedInv, WriteTextInv, NoteInv DEF Succeeds
<1>5. CASE Breaks
  BY <1>5, FetchInv, WriteFailsInv, NoteInv, StoppedInv DEF Breaks
<1>6. QED
  BY <1>1, <1>2, <1>3, <1>4, <1>5 DEF ListsNext

LEMMA ListsInvariance == ListsSpec => []ListsInv
<1>1. ListsInit => ListsInv
  BY InitLists
<1>2. ListsInv /\ [ListsNext]_listsVars => ListsInv'
  BY ListsStep
<1>3. QED
  BY <1>1, <1>2, PTL DEF ListsSpec

\* The files, the memory and the refresh of a dataset are well typed, and nothing is noted as
\* fetched that has not been stored (util/fetch-cache.js:26).
THEOREM ListsTypeCorrect == ListsSpec => []ListsTypeOK
<1>1. QED
  BY ListsInvariance, ListsShow, PTL

\* A failed, partial or repeated refresh does not make a server forget what a list that it
\* has usable names, nor go back to an older list (netlists.js:71, netlists.js:97,
\* email-domains.js:64).
THEOREM ListedAreRefused == ListsSpec => ListedStaysRefused
<1>1. ListsInv /\ [ListsNext]_listsVars =>
        [restarts' = restarts =>
           \A s \in Used : Refuses(s) =>
             /\ mem'[s].v >= mem[s].v
             /\ Whole(mem'[s]) \/ (kind # "domains" /\ mem'[s] = file'[s])]_listsVars
  BY ListsStep DEF Kept
<1>2. QED
  BY <1>1, ListsInvariance, PTL DEF ListsSpec, ListedStaysRefused

-------------------------------------------------------------------------------
(***************************************************************************)
(* RequestLimits.                                                          *)
(***************************************************************************)
\* A counter in Redis has an expiry that is to come, or none; one that is not there has none.
Counter == {b \in [count : 0..Over, ttl : -1..Window] : b.ttl # 0 /\ (b.count = 0 => b.ttl = -1)}
\* A counter in memory lasts for a window.
Entry == {b \in [count : 0..Over, left : 0..Window] : b.left = 0 => b.count = 0}
ConnStates == {"connecting", "ready", "lost", "failed"}
OneHit == [pc : {"none", "done"} \cup Asking, over : BOOLEAN, reset : 0..Window]
Request(r) == [pc : {"idle", "hits", "refused"}, at : Processes, hit : [KeysOf[r] -> OneHit],
               wait : 0..Window, told : {"nothing", "wait", "waited", "again"}]

Counters == [Keys -> Counter]
Entries == [Processes -> [Keys -> Entry]]
LimitsTyped ==
  /\ redis \in Counters /\ bucket \in Entries /\ conn \in [Processes -> ConnStates]
  /\ \A r \in Callers : caller[r] \in Request(r)

\* Within n ticks the counter of k that q was counted on is gone.
Ends(q, k, n, R, B, C) ==
  IF C[q.at] = "ready" THEN R[k].count = 0 \/ (1 <= R[k].ttl /\ R[k].ttl <= n)
  ELSE B[q.at][k].left <= n

\* What a caller q has been told holds for as long as its counters are its own: R, B and C
\* are the counters in Redis and in memory and the connections.
CallerInv(r, q, R, B, C) ==
  /\ q.told # "again" /\ (q.pc = "idle" => q.told = "nothing")
  /\ q.pc = "refused" => q.told = "wait" /\ \A k \in KeysOf[r] : Ends(q, k, q.wait, R, B, C)
  /\ q.pc = "hits" /\ q.told # "nothing" =>
       /\ C[q.at] = "ready"
       /\ \A k \in KeysOf[r] :
            /\ q.hit[k].pc = "done" => Ends(q, k, q.hit[k].reset, R, B, C)
            /\ q.told = "waited" => /\ ~q.hit[k].over
                                    /\ q.hit[k].pc = "incr" => R[k].count = 0

LimitsInv == LimitsTyped /\ \A r \in Callers : CallerInv(r, caller[r], redis, bucket, conn)

LEMMA LimitsShow == LimitsInv => RetryAfterSuffices
<1> SUFFICES ASSUME LimitsInv PROVE LimitsTypeOK /\ \A r \in Callers : caller[r].told # "again"
  BY DEF RetryAfterSuffices
<1>1. ASSUME NEW r \in Callers
      PROVE  /\ caller[r].pc \in {"idle", "hits", "refused"} /\ caller[r].at \in Processes
             /\ caller[r].hit \in [KeysOf[r] -> OneHit]
             /\ caller[r].wait \in 0..Window
             /\ caller[r].told \in {"nothing", "wait", "waited", "again"}
             /\ caller[r].told # "again"
  BY DEF LimitsInv, LimitsTyped, Request, CallerInv
<1>2. redis \in [Keys -> [count : 0..Over, ttl : -1..Window]]
      /\ bucket \in [Processes -> [Keys -> [count : 0..Over, left : 0..Window]]]
      /\ conn \in [Processes -> ConnStates]
  BY DEF LimitsInv, LimitsTyped, Counters, Counter, Entries, Entry
<1>3. QED
  BY <1>1, <1>2 DEF LimitsTypeOK, OneHit, ConnStates

LEMMA LimitsConstants ==
  /\ Limit \in Nat /\ Limit >= 1 /\ Window \in Nat /\ Window >= 1
  /\ Over \in Nat /\ Over = Limit + 1
  /\ Absent \in Counter /\ Absent.count = 0 /\ Absent.ttl = -1
  /\ Empty \in Entry /\ Empty.count = 0 /\ Empty.left = 0
  /\ \A r \in Callers : KeysOf[r] \subseteq Keys /\ KeysOf[r] # {}
  /\ \A r \in Callers : \A p \in Processes :
       /\ Idle(r, p) \in Request(r) /\ Idle(r, p).pc = "idle" /\ Idle(r, p).at = p
       /\ Idle(r, p).told = "nothing"
<1>1. /\ Limit \in Nat /\ Limit >= 1 /\ Window \in Nat /\ Window >= 1
      /\ Over \in Nat /\ Over = Limit + 1
  BY LimitsAssumption DEF Over
<1>2. Absent \in Counter /\ Absent.count = 0 /\ Absent.ttl = -1
  BY <1>1 DEF Absent, Counter
<1>3. Empty \in Entry /\ Empty.count = 0 /\ Empty.left = 0
  BY <1>1 DEF Empty, Entry
<1>4. \A r \in Callers : KeysOf[r] \subseteq Keys /\ KeysOf[r] # {}
  BY LimitsAssumption
<1>5. Hit("none", FALSE, 0) \in OneHit
  BY <1>1 DEF Hit, OneHit
<1>6. \A r \in Callers : \A p \in Processes :
        /\ Idle(r, p) \in Request(r) /\ Idle(r, p).pc = "idle" /\ Idle(r, p).at = p
        /\ Idle(r, p).told = "nothing"
  <2>1. ASSUME NEW r \in Callers PROVE AllHits(r, Hit("none", FALSE, 0)) \in [KeysOf[r] -> OneHit]
    BY <1>5 DEF AllHits
  <2>2. ASSUME NEW r \in Callers, NEW p \in Processes
        PROVE  /\ Idle(r, p) \in Request(r) /\ Idle(r, p).pc = "idle" /\ Idle(r, p).at = p
               /\ Idle(r, p).told = "nothing"
    <3>1. 0 \in 0..Window
      BY <1>1
    <3>2. QED
      BY <2>1, <3>1 DEF Idle, Request
  <2>3. QED
    BY <2>2
<1>7. QED
  BY <1>1, <1>2, <1>3, <1>4, <1>6

LEMMA InitLimits == LimitsInit => LimitsInv
<1> SUFFICES ASSUME LimitsInit PROVE LimitsInv
  OBVIOUS
<1>1. (CHOOSE p \in Processes : TRUE) \in Processes
  BY LimitsAssumption
<1>2. redis \in Counters /\ bucket \in Entries /\ conn \in [Processes -> ConnStates]
  BY LimitsConstants DEF LimitsInit, Counters, Entries, ConnStates
<1>3. ASSUME NEW r \in Callers
      PROVE  /\ caller[r] \in Request(r) /\ caller[r].pc = "idle" /\ caller[r].told = "nothing"
  BY <1>1, LimitsConstants DEF LimitsInit
<1>4. QED
  BY <1>2, <1>3 DEF LimitsInv, LimitsTyped, CallerInv

\* Every set of numbers has a least.
LEMMA LeastNat ==
  ASSUME NEW T, T \subseteq Nat, T # {}
  PROVE  \E n \in T : \A m \in T : n <= m
<1> DEFINE R == OpToRel(<, Nat)
<1>1. IsWellFoundedOn(R, Nat)
  BY NatLessThanWellFounded
<1>2. \A m, n \in Nat : m < n => <<m, n>> \in R
  BY DEF OpToRel
<1> HIDE DEF R
<1>3. PICK n \in T : \A m \in T : ~(<<m, n>> \in R)
  BY <1>1, WFMin
<1>4. ASSUME NEW m \in T, ~(n <= m) PROVE FALSE
  <2>1. m \in Nat /\ n \in Nat /\ m < n
    BY <1>4
  <2>2. <<m, n>> \in R
    BY <1>2, <2>1
  <2>3. QED
    BY <1>3, <2>2
<1>5. QED
  BY <1>4

\* Of numbers up to a bound one is the greatest.
LEMMA GreatestIs ==
  ASSUME NEW n \in Nat, NEW S \in SUBSET (0..n), S # {}
  PROVE  Max(S) \in S /\ \A x \in S : x <= Max(S)
<1>1. {n - x : x \in S} \subseteq Nat /\ {n - x : x \in S} # {}
  OBVIOUS
<1>2. PICK d \in {n - x : x \in S} : \A e \in {n - x : x \in S} : d <= e
  BY <1>1, LeastNat
<1>3. PICK m \in S : d = n - m
  OBVIOUS
<1>4. \A x \in S : m >= x
  <2>1. ASSUME NEW x \in S PROVE m >= x
    <3>1. n - m <= n - x /\ m \in Nat /\ x \in Nat
      BY <1>2, <1>3
    <3>2. QED
      BY <3>1
  <2>2. QED
    BY <2>1
<1>5. Max(S) \in S /\ \A y \in S : Max(S) >= y
  BY <1>3, <1>4 DEF Max
<1>6. QED
  BY <1>5

LEMMA EndsLater ==
  ASSUME NEW R \in Counters, NEW B \in Entries, NEW C, NEW q, NEW o, NEW k \in Keys,
         q.at \in Processes, o.at = q.at, NEW n \in Nat, NEW m \in Nat, n <= m,
         Ends(q, k, n, R, B, C)
  PROVE  Ends(o, k, m, R, B, C)
<1>1. R[k].ttl \in Int /\ B[q.at][k].left \in Int
  BY LimitsConstants DEF Counters, Counter, Entries, Entry
<1>2. QED
  BY <1>1 DEF Ends

\* What a request may say of itself before it is answered.
Hopes(r, now, R, B, C) ==
  now.told # "nothing" =>
    /\ \A k \in KeysOf[r] :
         /\ now.hit[k].pc = "done" => Ends(now, k, now.hit[k].reset, R, B, C)
         /\ now.told = "waited" => /\ ~now.hit[k].over
                                   /\ now.hit[k].pc = "incr" => R[k].count = 0
    /\ (\E k \in KeysOf[r] : now.hit[k].pc # "done") => C[now.at] = "ready"

LEMMA Answering ==
  ASSUME NEW R \in Counters, NEW B \in Entries, NEW C,
         NEW r \in Callers, NEW now \in Request(r), now.pc = "hits", now.told # "again",
         Hopes(r, now, R, B, C)
  PROVE  Answer(r, now) \in Request(r) /\ CallerInv(r, Answer(r, now), R, B, C)
<1> DEFINE hits == Range(now.hit)
           S == {h.reset : h \in hits}
           ms == Max(S)
           idle == Idle(r, now.at)
           refused(told) == [idle EXCEPT !.pc = "refused", !.told = told,
                                         !.wait = IF ms = 0 THEN 1 ELSE ms]
<1>1. hits = {now.hit[k] : k \in KeysOf[r]} /\ now.at \in Processes /\ now.hit \in [KeysOf[r] -> OneHit]
  BY DEF Range, Request
<1>2. KeysOf[r] \subseteq Keys /\ KeysOf[r] # {} /\ Window \in Nat /\ Window >= 1
  BY LimitsConstants
<1>3. ms \in 0..Window /\ \A k \in KeysOf[r] : now.hit[k].reset <= ms /\ now.hit[k].reset \in Nat
  <2>1. S = {now.hit[k].reset : k \in KeysOf[r]}
    BY <1>1
  <2>2. S \in SUBSET (0..Window) /\ S # {}
    BY <1>1, <1>2, <2>1 DEF OneHit
  <2>3. ms \in S /\ \A x \in S : x <= ms
    <3> HIDE DEF S
    <3>1. QED
      BY <1>2, <2>2, GreatestIs
  <2>4. ASSUME NEW k \in KeysOf[r] PROVE now.hit[k].reset <= ms /\ now.hit[k].reset \in Nat
    <3>1. now.hit[k].reset \in S /\ now.hit[k].reset \in 0..Window
      BY <2>1, <2>2
    <3> HIDE DEF ms, S
    <3>2. QED
      BY <2>3, <3>1
  <2>5. ms \in 0..Window
    <3> HIDE DEF ms, S
    <3>1. QED
      BY <2>2, <2>3
  <2>6. QED
    BY <2>4, <2>5
<1>4. idle \in Request(r) /\ idle.pc = "idle" /\ idle.at = now.at /\ idle.told = "nothing"
  BY <1>1, LimitsConstants
<1>5. CallerInv(r, idle, R, B, C)
  BY <1>4 DEF CallerInv
<1> HIDE DEF idle, ms
<1>6. CASE \E k \in KeysOf[r] : now.hit[k].pc # "done"
  <2>1. Answer(r, now) = now
    BY <1>1, <1>6 DEF Answer
  <2>2. CallerInv(r, now, R, B, C)
    BY <1>6 DEF CallerInv, Hopes
  <2>3. QED
    BY <2>1, <2>2
<1>7. CASE \A k \in KeysOf[r] : now.hit[k].pc = "done" /\ ~now.hit[k].over
  <2>1. Answer(r, now) = idle
    BY <1>1, <1>2, <1>7 DEF Answer, idle
  <2>2. QED
    BY <2>1, <1>4, <1>5
<1>8. CASE /\ \A k \in KeysOf[r] : now.hit[k].pc = "done"
           /\ \E k \in KeysOf[r] : now.hit[k].over
  <2>1. Answer(r, now) = (CASE now.told = "nothing" -> idle
                              [] now.told = "wait" -> refused("wait")
                              [] now.told = "waited" -> refused("again"))
    BY <1>1, <1>8 DEF Answer, idle, ms, Latest
  <2>2. CASE now.told = "nothing"
    BY <2>1, <2>2, <1>4, <1>5
  <2>3. CASE now.told = "wait"
    <3>1. PICK w \in 0..Window : w = IF ms = 0 THEN 1 ELSE ms
      BY <1>2, <1>3
    <3>2. PICK o : o = [idle EXCEPT !.pc = "refused", !.told = "wait", !.wait = w]
      OBVIOUS
    <3>3. Answer(r, now) = o
      BY <2>1, <2>3, <3>1, <3>2
    <3> HIDE DEF refused
    <3>4. o \in Request(r) /\ o.pc = "refused" /\ o.told = "wait" /\ o.at = idle.at /\ o.wait = w
      <4>1. o \in Request(r)
        BY <1>4, <3>2 DEF Request
      <4>2. o.pc = "refused" /\ o.told = "wait" /\ o.at = idle.at /\ o.wait = w
        BY <1>4, <3>2 DEF Request
      <4>3. QED
        BY <4>1, <4>2
    <3>5. ASSUME NEW k \in KeysOf[r] PROVE Ends(o, k, o.wait, R, B, C)
      <4>1. Ends(now, k, now.hit[k].reset, R, B, C)
        BY <1>8, <2>3 DEF Hopes
      <4>2. now.hit[k].reset <= o.wait /\ o.wait \in Nat /\ now.hit[k].reset \in Nat
        BY <1>3, <3>1, <3>4
      <4>3. k \in Keys
        BY <1>2
      <4>4. QED
        BY <1>1, <1>4, <3>4, <4>1, <4>2, <4>3, EndsLater
    <3>6. CallerInv(r, o, R, B, C)
      BY <3>4, <3>5 DEF CallerInv
    <3>7. QED
      BY <3>3, <3>4, <3>6
  <2>4. CASE now.told = "waited"
    BY <1>8, <2>4 DEF Hopes
  <2>5. QED
    BY <2>2, <2>3, <2>4 DEF Request
<1>9. QED
  BY <1>6, <1>7, <1>8

LEMMA VoidIs ==
  ASSUME NEW r \in Callers, caller[r] \in Request(r), caller[r].told # "again"
  PROVE  /\ Void(r) \in Request(r) /\ Void(r).told = "nothing" /\ Void(r).pc # "refused"
<1>1. CASE caller[r].pc = "refused"
  <2>1. Void(r) = Idle(r, caller[r].at) /\ caller[r].at \in Processes
    BY <1>1 DEF Void, Request
  <2>2. QED
    BY <2>1, LimitsConstants
<1>2. CASE caller[r].pc # "refused"
  <2>1. Void(r) = [caller[r] EXCEPT !.told = "nothing"]
    BY <1>2 DEF Void
  <2>2. QED
    BY <1>2, <2>1 DEF Request
<1>3. QED
  BY <1>1, <1>2

\* What others do to the counters of K does not concern a caller that does not rely on them.
LEMMA OthersKeep ==
  ASSUME LimitsInv, NEW K, NEW r \in Callers, conn' = conn,
         \A k \in Keys \ K : redis'[k] = redis[k] /\ \A p \in Processes : bucket'[p][k] = bucket[p][k],
         NEW q, q = IF \E k \in K : Relies(r, k) THEN Void(r) ELSE caller[r]
  PROVE  q \in Request(r) /\ CallerInv(r, q, redis', bucket', conn')
<1>1. caller[r] \in Request(r) /\ CallerInv(r, caller[r], redis, bucket, conn) /\ caller[r].at \in Processes
  BY DEF LimitsInv, LimitsTyped, Request
<1>2. KeysOf[r] \subseteq Keys
  BY LimitsConstants
<1>3. CASE \E k \in K : Relies(r, k)
  <2>1. q \in Request(r) /\ q.told = "nothing" /\ q.pc # "refused"
    BY <1>1, <1>3, VoidIs DEF CallerInv
  <2>2. QED
    BY <2>1 DEF CallerInv
<1>4. CASE ~\E k \in K : Relies(r, k)
  <2>1. q = caller[r]
    BY <1>4
  <2>2. ASSUME NEW k \in KeysOf[r], NEW n, Relies(r, k), Ends(q, k, n, redis, bucket, conn)
        PROVE  Ends(q, k, n, redis', bucket', conn')
    <3>1. k \in Keys \ K
      BY <1>2, <1>4, <2>2
    <3>2. redis'[k] = redis[k] /\ bucket'[q.at][k] = bucket[q.at][k]
      BY <1>1, <2>1, <3>1
    <3>3. QED
      BY <2>2, <3>2 DEF Ends
  <2>3. q.pc = "refused" => q.told = "wait" /\ \A k \in KeysOf[r] : Ends(q, k, q.wait, redis', bucket', conn')
    <3> SUFFICES ASSUME q.pc = "refused", NEW k \in KeysOf[r]
                 PROVE  q.told = "wait" /\ Ends(q, k, q.wait, redis', bucket', conn')
      BY <1>1, <2>1, LimitsConstants DEF CallerInv
    <3>1. Relies(r, k)
      BY <2>1 DEF Relies
    <3>2. QED
      BY <1>1, <2>1, <2>2, <3>1 DEF CallerInv
  <2>4. ASSUME q.pc = "hits", q.told # "nothing", NEW k \in KeysOf[r]
        PROVE  /\ conn'[q.at] = "ready"
               /\ q.hit[k].pc = "done" => Ends(q, k, q.hit[k].reset, redis', bucket', conn')
               /\ q.told = "waited" => /\ ~q.hit[k].over
                                       /\ q.hit[k].pc = "incr" => redis'[k].count = 0
    <3>1. q.told = "waited" => redis'[k] = redis[k]
      <4>1. q.told = "waited" => Relies(r, k)
        BY <2>1 DEF Relies
      <4>2. QED
        BY <1>2, <1>4, <4>1
    <3>2. q.hit[k].pc = "done" => Ends(q, k, q.hit[k].reset, redis', bucket', conn')
      <4>1. q.hit[k].pc = "done" => Relies(r, k)
        BY <2>1 DEF Relies
      <4>2. QED
        BY <1>1, <2>1, <2>2, <2>4, <4>1 DEF CallerInv
    <3>3. QED
      BY <1>1, <2>1, <2>4, <3>1, <3>2 DEF CallerInv
  <2>5. KeysOf[r] # {}
    BY LimitsConstants
  <2>6. QED
    BY <1>1, <2>1, <2>3, <2>4, <2>5 DEF CallerInv
<1>5. QED
  BY <1>3, <1>4

\* One request goes on, and the counters of K are others than before.
LEMMA TouchInv ==
  ASSUME LimitsInv, NEW s \in Callers, NEW K, NEW now \in Request(s),
         redis' \in Counters, bucket' \in Entries, conn' = conn,
         \A k \in Keys \ K : redis'[k] = redis[k] /\ \A p \in Processes : bucket'[p][k] = bucket[p][k],
         now.pc = "hits", now.told # "again", Hopes(s, now, redis', bucket', conn'),
         Touch(s, K, now)
  PROVE  LimitsInv'
<1>1. Answer(s, now) \in Request(s) /\ CallerInv(s, Answer(s, now), redis', bucket', conn')
  BY Answering
<1>2. ASSUME NEW r \in Callers
      PROVE  caller'[r] \in Request(r) /\ CallerInv(r, caller'[r], redis', bucket', conn')
  <2>1. caller'[r] = IF r = s THEN Answer(s, now)
                     ELSE IF \E k \in K : Relies(r, k) THEN Void(r) ELSE caller[r]
    BY DEF Touch
  <2>2. CASE r = s
    BY <1>1, <2>1, <2>2
  <2>3. CASE r # s
    BY <2>1, <2>3, OthersKeep
  <2>4. QED
    BY <2>2, <2>3
<1>3. QED
  BY <1>2 DEF LimitsInv, LimitsTyped

LEMMA CountedIs ==
  ASSUME NEW b \in Entry
  PROVE  /\ Counted(b) \in Entry /\ Counted(b).left \in 0..Window
         /\ b.left <= 0 => ~(Counted(b).count > Limit)
<1>1. b.count \in 0..(Limit + 1) /\ b.left \in 0..Window /\ (b.left = 0 => b.count = 0)
  BY LimitsConstants DEF Entry
<1>2. Saturated(b.count + 1) \in 0..(Limit + 1) /\ (b.count = 0 => Saturated(b.count + 1) = 1)
  BY <1>1, LimitsConstants DEF Saturated
<1>3. (IF b.left = 0 THEN Window ELSE b.left) \in 1..Window
  BY <1>1, LimitsConstants
<1>4. QED
  BY <1>1, <1>2, <1>3, LimitsConstants DEF Counted, Entry

LEMMA MemoryHitIs ==
  ASSUME LimitsInv, NEW p \in Processes, NEW K, MemoryHit(p, K)
  PROVE  /\ bucket' \in Entries
         /\ \A k \in Keys \ K : \A o \in Processes : bucket'[o][k] = bucket[o][k]
         /\ \A k \in Keys \cap K : bucket'[p][k] = Counted(bucket[p][k])
<1>1. bucket \in Entries
  BY DEF LimitsInv, LimitsTyped
<1>2. bucket' = [bucket EXCEPT ![p] = [k \in Keys |-> IF k \in K THEN Counted(bucket[p][k]) ELSE bucket[p][k]]]
  BY DEF MemoryHit
<1>3. [k \in Keys |-> IF k \in K THEN Counted(bucket[p][k]) ELSE bucket[p][k]] \in [Keys -> Entry]
  BY <1>1, CountedIs DEF Entries
<1>4. QED
  BY <1>1, <1>2, <1>3 DEF Entries

LEMMA InMemoryIs ==
  ASSUME LimitsInv, NEW p \in Processes, NEW k \in Keys
  PROVE  /\ InMemory(p, k) \in OneHit /\ InMemory(p, k).pc = "done"
         /\ InMemory(p, k).reset = Counted(bucket[p][k]).left
         /\ bucket[p][k].left <= 0 => ~InMemory(p, k).over
<1>1. bucket[p][k] \in Entry
  BY DEF LimitsInv, LimitsTyped, Entries
<1>2. InMemory(p, k) = [pc |-> "done", over |-> Counted(bucket[p][k]).count > Limit,
                          reset |-> Counted(bucket[p][k]).left]
  BY DEF InMemory, Hit
<1>3. Counted(bucket[p][k]).left \in 0..Window
      /\ (bucket[p][k].left <= 0 => ~(Counted(bucket[p][k]).count > Limit))
  BY <1>1, CountedIs
<1>4. CASE Counted(bucket[p][k]).count > Limit
  <2>1. InMemory(p, k) = [pc |-> "done", over |-> TRUE, reset |-> Counted(bucket[p][k]).left]
    BY <1>2, <1>4
  <2>2. QED
    BY <1>3, <1>4, <2>1 DEF OneHit
<1>5. CASE ~(Counted(bucket[p][k]).count > Limit)
  <2>0. (Counted(bucket[p][k]).count > Limit) = FALSE
    BY <1>5
  <2>1. InMemory(p, k) = [pc |-> "done", over |-> FALSE, reset |-> Counted(bucket[p][k]).left]
    BY <1>2, <2>0
  <2>2. QED
    BY <1>3, <2>1 DEF OneHit
<1>6. QED
  BY <1>4, <1>5

LEMMA ArriveLimits ==
  ASSUME LimitsInv, NEW r \in Callers, NEW p \in Processes, RequestArrives(r, p)
  PROVE  LimitsInv'
<1> DEFINE heeds == caller[r].told = "wait" /\ caller[r].wait = 0 /\ caller[r].at = p
           t == IF heeds THEN "waited" ELSE IF r \in Patient THEN "wait" ELSE "nothing"
           now == [Idle(r, p) EXCEPT !.pc = "hits", !.told = t]
<1>1. caller[r].pc \in {"idle", "refused"} /\ redis' = redis /\ conn' = conn
  BY DEF RequestArrives
<1>2. caller[r] \in Request(r) /\ CallerInv(r, caller[r], redis, bucket, conn)
      /\ redis \in Counters /\ bucket \in Entries /\ KeysOf[r] \subseteq Keys /\ KeysOf[r] # {}
  BY LimitsConstants DEF LimitsInv, LimitsTyped
<1>3. t \in {"nothing", "wait", "waited"}
  OBVIOUS
<1>4. ASSUME t = "waited", NEW k \in KeysOf[r]
      PROVE  Ends(caller[r], k, 0, redis, bucket, conn) /\ caller[r].at = p
  <2>1. caller[r].pc = "refused" /\ caller[r].wait = 0 /\ caller[r].at = p
    BY <1>1, <1>2, <1>4 DEF CallerInv
  <2>2. QED
    BY <1>2, <2>1 DEF CallerInv
<1>5. CASE conn[p] = "ready"
  <2>1. PICK h : h = AllHits(r, Hit("incr", FALSE, 0))
    OBVIOUS
  <2>2. PICK q : q = [now EXCEPT !.hit = h]
    OBVIOUS
  <2>3. Touch(r, {}, q) /\ bucket' = bucket
    BY <1>5, <2>1, <2>2 DEF RequestArrives
  <2>4. h \in [KeysOf[r] -> OneHit] /\ \A k \in KeysOf[r] : h[k].pc = "incr" /\ ~h[k].over
    BY <2>1, LimitsConstants DEF AllHits, Hit, OneHit, Asking
  <2>5. q \in Request(r) /\ q.pc = "hits" /\ q.told = t /\ q.hit = h /\ q.at = p
    <3> HIDE DEF t
    <3>1. Idle(r, p) \in Request(r) /\ Idle(r, p).at = p
      BY LimitsConstants
    <3>2. QED
      BY <1>3, <2>2, <2>4, <3>1 DEF Request
  <2> HIDE DEF t, now
  <2>6. Hopes(r, q, redis', bucket', conn')
    <3>1. ASSUME t = "waited", NEW k \in KeysOf[r] PROVE redis'[k].count = 0
      <4>1. redis[k].count = 0 \/ (1 <= redis[k].ttl /\ redis[k].ttl <= 0)
        BY <1>4, <1>5, <3>1 DEF Ends
      <4>2. redis[k].ttl \in Int
        BY <1>2 DEF Counters, Counter
      <4>3. QED
        BY <1>1, <4>1, <4>2
    <3>2. QED
      BY <1>1, <1>5, <2>4, <2>5, <3>1 DEF Hopes
  <2>7. q.told # "again"
    BY <1>3, <2>5
  <2>8. QED
    BY <1>1, <1>2, <2>3, <2>5, <2>6, <2>7, TouchInv
<1>6. CASE conn[p] # "ready"
  <2>1. PICK h : h = [k \in KeysOf[r] |-> InMemory(p, k)]
    OBVIOUS
  <2>2. PICK q : q = [now EXCEPT !.hit = h]
    OBVIOUS
  <2>3. Touch(r, KeysOf[r], q) /\ MemoryHit(p, KeysOf[r])
    BY <1>6, <2>1, <2>2 DEF RequestArrives
  <2>4. h \in [KeysOf[r] -> OneHit] /\ \A k \in KeysOf[r] : h[k].pc = "done"
    BY <1>2, <2>1, InMemoryIs
  <2>5. q \in Request(r) /\ q.pc = "hits" /\ q.told = t /\ q.hit = h /\ q.at = p
    <3> HIDE DEF t
    <3>1. Idle(r, p) \in Request(r) /\ Idle(r, p).at = p
      BY LimitsConstants
    <3>2. QED
      BY <1>3, <2>2, <2>4, <3>1 DEF Request
  <2>6. /\ bucket' \in Entries
        /\ \A k \in Keys \ KeysOf[r] : \A o \in Processes : bucket'[o][k] = bucket[o][k]
        /\ \A k \in KeysOf[r] : bucket'[p][k] = Counted(bucket[p][k])
    BY <1>2, <2>3, MemoryHitIs
  <2> HIDE DEF t, now
  <2>7. Hopes(r, q, redis', bucket', conn')
    <3>1. ASSUME NEW k \in KeysOf[r] PROVE Ends(q, k, h[k].reset, redis', bucket', conn')
      <4>1. h[k].reset = Counted(bucket[p][k]).left
        BY <1>2, <2>1, InMemoryIs
      <4>2. bucket'[p][k].left = h[k].reset /\ h[k].reset \in Int
        BY <2>4, <2>6, <4>1 DEF OneHit
      <4>3. QED
        BY <1>1, <1>6, <2>5, <4>2 DEF Ends
    <3>2. ASSUME t = "waited", NEW k \in KeysOf[r] PROVE ~h[k].over
      <4>1. bucket[p][k].left <= 0
        BY <1>4, <1>6, <3>2 DEF Ends
      <4>2. QED
        BY <1>2, <2>1, <4>1, InMemoryIs
    <3>3. QED
      BY <2>4, <2>5, <3>1, <3>2 DEF Hopes
  <2>8. q.told # "again"
    BY <1>3, <2>5
  <2>9. QED
    BY <1>1, <1>2, <2>3, <2>5, <2>6, <2>7, <2>8, TouchInv
<1>7. QED
  BY <1>5, <1>6

\* A command and its key.
LEMMA AtIs ==
  ASSUME LimitsInv, NEW r \in Callers, NEW k, NEW pc, At(r, k, pc)
  PROVE  /\ k \in KeysOf[r] /\ k \in Keys /\ caller[r] \in Request(r) /\ caller[r].pc = "hits"
         /\ caller[r].hit[k].pc = pc /\ caller[r].hit[k] \in OneHit /\ redis[k] \in Counter
         /\ caller[r].told # "again" /\ CallerInv(r, caller[r], redis, bucket, conn)
         /\ caller[r].told # "nothing" => conn[caller[r].at] = "ready"
BY LimitsConstants DEF At, LimitsInv, LimitsTyped, CallerInv, Request, Counters

LEMMA HitIsIs ==
  ASSUME NEW r \in Callers, caller[r] \in Request(r), NEW k \in KeysOf[r], NEW hit \in OneHit
  PROVE  /\ HitIs(r, k, hit) \in Request(r)
         /\ HitIs(r, k, hit).pc = caller[r].pc /\ HitIs(r, k, hit).told = caller[r].told
         /\ HitIs(r, k, hit).at = caller[r].at
         /\ HitIs(r, k, hit).hit[k] = hit
         /\ \A x \in KeysOf[r] : x # k => HitIs(r, k, hit).hit[x] = caller[r].hit[x]
BY DEF HitIs, Request

\* A hit on k goes on; for the other keys nothing changes.
LEMMA OneHitInv ==
  ASSUME LimitsInv, NEW r \in Callers, NEW k, NEW pc \in Asking, At(r, k, pc),
         NEW K, K \subseteq {k}, redis' \in Counters, bucket' = bucket, conn' = conn,
         \A x \in Keys : x \notin K => redis'[x] = redis[x],
         NEW hit \in OneHit, hit.pc # "incr",
         caller[r].told # "nothing" =>
           /\ hit.pc = "done" => redis'[k].count = 0 \/ (1 <= redis'[k].ttl /\ redis'[k].ttl <= hit.reset)
           /\ caller[r].told = "waited" => ~hit.over,
         Touch(r, K, HitIs(r, k, hit))
  PROVE  LimitsInv'
<1>1. /\ k \in KeysOf[r] /\ k \in Keys /\ caller[r] \in Request(r) /\ caller[r].pc = "hits"
      /\ caller[r].told # "again" /\ CallerInv(r, caller[r], redis, bucket, conn)
      /\ caller[r].told # "nothing" => conn[caller[r].at] = "ready"
  BY AtIs
<1>2. /\ HitIs(r, k, hit) \in Request(r)
      /\ HitIs(r, k, hit).pc = "hits" /\ HitIs(r, k, hit).told = caller[r].told
      /\ HitIs(r, k, hit).at = caller[r].at
      /\ HitIs(r, k, hit).hit[k] = hit
      /\ \A x \in KeysOf[r] : x # k => HitIs(r, k, hit).hit[x] = caller[r].hit[x]
  BY <1>1, HitIsIs
<1>3. PICK now : now = HitIs(r, k, hit)
  OBVIOUS
<1>4. ASSUME now.told # "nothing", NEW x \in KeysOf[r]
      PROVE  /\ now.hit[x].pc = "done" => Ends(now, x, now.hit[x].reset, redis', bucket', conn')
             /\ now.told = "waited" => /\ ~now.hit[x].over
                                       /\ now.hit[x].pc = "incr" => redis'[x].count = 0
  <2>1. conn'[now.at] = "ready"
    BY <1>1, <1>2, <1>3, <1>4
  <2>2. CASE x = k
    BY <1>2, <1>3, <1>4, <2>1, <2>2 DEF Ends
  <2>3. CASE x # k
    <3>1. redis'[x] = redis[x] /\ now.hit[x] = caller[r].hit[x] /\ now.told = caller[r].told /\ now.at = caller[r].at
      BY <1>2, <1>3, <2>3, LimitsConstants
    <3>2. /\ caller[r].hit[x].pc = "done" => Ends(caller[r], x, caller[r].hit[x].reset, redis, bucket, conn)
          /\ caller[r].told = "waited" => /\ ~caller[r].hit[x].over
                                          /\ caller[r].hit[x].pc = "incr" => redis[x].count = 0
      BY <1>1, <1>4, <3>1 DEF CallerInv
    <3>3. QED
      BY <2>1, <3>1, <3>2 DEF Ends
  <2>4. QED
    BY <2>2, <2>3
<1>5. Hopes(r, now, redis', bucket', conn')
  BY <1>1, <1>2, <1>3, <1>4 DEF Hopes
<1>6. now \in Request(r) /\ now.pc = "hits" /\ now.told # "again" /\ Touch(r, K, now)
  BY <1>1, <1>2, <1>3
<1>7. bucket' \in Entries
  BY DEF LimitsInv, LimitsTyped
<1>8. QED
  BY <1>5, <1>6, <1>7, TouchInv

\* What a command does to its counter.
LEMMA IncrementedIs ==
  ASSUME LimitsInv, NEW k \in Keys
  PROVE  /\ Incremented(k) \in Counters
         /\ \A x \in Keys : x # k => Incremented(k)[x] = redis[x]
         /\ redis[k].count = 0 => Incremented(k)[k].count = 1
<1>1. redis \in Counters /\ redis[k] \in Counter
  BY DEF LimitsInv, LimitsTyped, Counters
<1>2. redis[k].count \in 0..(Limit + 1)
  BY <1>1, LimitsConstants DEF Counter
<1>3. Saturated(redis[k].count + 1) \in 1..(Limit + 1) /\ (redis[k].count = 0 => Saturated(redis[k].count + 1) = 1)
  BY <1>2, LimitsConstants DEF Saturated
<1>4. PICK b : b = [redis[k] EXCEPT !.count = Saturated(redis[k].count + 1)]
  OBVIOUS
<1>5. b \in Counter /\ (redis[k].count = 0 => b.count = 1)
  BY <1>1, <1>3, <1>4, LimitsConstants DEF Counter
<1>6. Incremented(k) = [redis EXCEPT ![k] = b]
  BY <1>1, <1>4 DEF Incremented, Counters
<1>7. QED
  BY <1>1, <1>5, <1>6 DEF Counters

LEMMA ExpiringIs ==
  ASSUME LimitsInv, NEW k \in Keys
  PROVE  /\ WithExpiry(k) \in Counters
         /\ \A x \in Keys : x # k => WithExpiry(k)[x] = redis[x]
         /\ WithExpiry(k)[k].count = 0 \/ WithExpiry(k)[k].ttl = Window
<1>1. redis \in Counters /\ redis[k] \in Counter
  BY DEF LimitsInv, LimitsTyped, Counters
<1>2. CASE redis[k].count = 0
  BY <1>1, <1>2 DEF WithExpiry
<1>3. CASE redis[k].count # 0
  <2>1. PICK b : b = [redis[k] EXCEPT !.ttl = Window]
    OBVIOUS
  <2>2. b \in Counter /\ b.ttl = Window
    BY <1>1, <1>3, <2>1, LimitsConstants DEF Counter
  <2>3. WithExpiry(k) = [redis EXCEPT ![k] = b]
    BY <1>1, <1>3, <2>1 DEF WithExpiry, Counters
  <2>4. QED
    BY <1>1, <2>2, <2>3 DEF Counters
<1>4. QED
  BY <1>2, <1>3

LEMMA CommandsInv ==
  ASSUME LimitsInv, NEW r \in Callers, NEW k \in Keys,
         Incr(r, k) \/ SetExpiry(r, k) \/ Ttl(r, k) \/ TtlLost(r, k) \/ Restore(r, k)
  PROVE  LimitsInv'
<1>1. CASE Incr(r, k)
  <2>1. At(r, k, "incr") /\ redis' = Incremented(k) /\ bucket' = bucket /\ conn' = conn
    BY <1>1 DEF Incr
  <2>2. PICK hit : hit = Hit(IF FirstHit(redis'[k].count) THEN "expire" ELSE "ttl", redis'[k].count > Limit, 0)
    OBVIOUS
  <2>3. Touch(r, {k}, HitIs(r, k, hit))
    BY <1>1, <2>2 DEF Incr
  <2>4. /\ redis' \in Counters /\ \A x \in Keys : x \notin {k} => redis'[x] = redis[x]
        /\ redis[k].count = 0 => redis'[k].count = 1
    BY <2>1, IncrementedIs
  <2>5. caller[r].told = "waited" => redis[k].count = 0
    BY <2>1, AtIs DEF CallerInv
  <2>6. hit \in OneHit /\ hit.pc \in {"expire", "ttl"}
        /\ (caller[r].told = "waited" => ~hit.over)
    <3>1. CASE redis'[k].count > Limit
      <4>1. (redis'[k].count > Limit) = TRUE
        BY <3>1
      <4>2. hit = [pc |-> IF FirstHit(redis'[k].count) THEN "expire" ELSE "ttl", over |-> TRUE, reset |-> 0]
        BY <2>2, <4>1 DEF Hit
      <4>3. QED
        BY <2>4, <2>5, <3>1, <4>2, LimitsConstants DEF OneHit, Asking
    <3>2. CASE ~(redis'[k].count > Limit)
      <4>1. (redis'[k].count > Limit) = FALSE
        BY <3>2
      <4>2. hit = [pc |-> IF FirstHit(redis'[k].count) THEN "expire" ELSE "ttl", over |-> FALSE, reset |-> 0]
        BY <2>2, <4>1 DEF Hit
      <4>3. QED
        BY <4>2, LimitsConstants DEF OneHit, Asking
    <3>3. QED
      BY <3>1, <3>2
  <2>7. "incr" \in Asking
    BY DEF Asking
  <2>8. QED
    BY <2>1, <2>3, <2>4, <2>6, <2>7, OneHitInv
<1>2. CASE SetExpiry(r, k)
  <2>1. At(r, k, "expire") /\ redis' = WithExpiry(k) /\ bucket' = bucket /\ conn' = conn
    BY <1>2 DEF SetExpiry
  <2>2. PICK hit : hit = [caller[r].hit[k] EXCEPT !.pc = "ttl"]
    OBVIOUS
  <2>3. Touch(r, {k}, HitIs(r, k, hit))
    BY <1>2, <2>2 DEF SetExpiry
  <2>4. redis' \in Counters /\ \A x \in Keys : x \notin {k} => redis'[x] = redis[x]
    BY <2>1, ExpiringIs
  <2>5. caller[r].told = "waited" => ~caller[r].hit[k].over
    BY <2>1, AtIs DEF CallerInv
  <2>6. hit \in OneHit /\ hit.pc = "ttl" /\ hit.over = caller[r].hit[k].over
    BY <2>1, <2>2, AtIs DEF OneHit, Asking
  <2>7. "expire" \in Asking
    BY DEF Asking
  <2>8. QED
    BY <2>1, <2>3, <2>4, <2>5, <2>6, <2>7, OneHitInv
<1>3. CASE Ttl(r, k)
  <2>1. At(r, k, "ttl") /\ redis' = redis /\ bucket' = bucket /\ conn' = conn /\ redis[k].ttl >= 0
    BY <1>3 DEF Ttl
  <2>2. PICK hit : hit = Hit("done", caller[r].hit[k].over, redis[k].ttl)
    OBVIOUS
  <2>3. Touch(r, {}, HitIs(r, k, hit))
    BY <1>3, <2>2 DEF Ttl
  <2>4. redis' \in Counters /\ redis[k].ttl \in 1..Window
    BY <2>1, LimitsConstants DEF LimitsInv, LimitsTyped, Counters, Counter
  <2>5. caller[r].told = "waited" => ~caller[r].hit[k].over
    BY <2>1, AtIs DEF CallerInv
  <2>6. hit \in OneHit /\ hit.pc = "done" /\ hit.over = caller[r].hit[k].over /\ hit.reset = redis[k].ttl
    BY <2>1, <2>2, <2>4, AtIs, LimitsConstants DEF OneHit, Hit
  <2>7. "ttl" \in Asking
    BY DEF Asking
  <2>8. QED
    BY <2>1, <2>3, <2>4, <2>5, <2>6, <2>7, OneHitInv
<1>4. CASE TtlLost(r, k)
  <2>1. At(r, k, "ttl") /\ redis' = redis /\ bucket' = bucket /\ conn' = conn
    BY <1>4 DEF TtlLost
  <2>2. PICK hit : hit = [caller[r].hit[k] EXCEPT !.pc = "restore"]
    OBVIOUS
  <2>3. Touch(r, {}, HitIs(r, k, hit))
    BY <1>4, <2>2 DEF TtlLost
  <2>4. redis' \in Counters
    BY <2>1 DEF LimitsInv, LimitsTyped
  <2>5. caller[r].told = "waited" => ~caller[r].hit[k].over
    BY <2>1, AtIs DEF CallerInv
  <2>6. hit \in OneHit /\ hit.pc = "restore" /\ hit.over = caller[r].hit[k].over
    BY <2>1, <2>2, AtIs DEF OneHit, Asking
  <2>7. "ttl" \in Asking
    BY DEF Asking
  <2>8. QED
    BY <2>1, <2>3, <2>4, <2>5, <2>6, <2>7, OneHitInv
<1>5. CASE Restore(r, k)
  <2>1. At(r, k, "restore") /\ redis' = WithExpiry(k) /\ bucket' = bucket /\ conn' = conn
    BY <1>5 DEF Restore
  <2>2. PICK hit : hit = Hit("done", caller[r].hit[k].over, Window)
    OBVIOUS
  <2>3. Touch(r, {k}, HitIs(r, k, hit))
    BY <1>5, <2>2 DEF Restore
  <2>4. /\ redis' \in Counters /\ \A x \in Keys : x \notin {k} => redis'[x] = redis[x]
        /\ redis'[k].count = 0 \/ redis'[k].ttl = Window
    BY <2>1, ExpiringIs
  <2>5. caller[r].told = "waited" => ~caller[r].hit[k].over
    BY <2>1, AtIs DEF CallerInv
  <2>6. hit \in OneHit /\ hit.pc = "done" /\ hit.over = caller[r].hit[k].over /\ hit.reset = Window
    BY <2>1, <2>2, AtIs, LimitsConstants DEF OneHit, Hit
  <2>7. "restore" \in Asking
    BY DEF Asking
  <2>8. redis'[k].count = 0 \/ (1 <= redis'[k].ttl /\ redis'[k].ttl <= hit.reset)
    BY <2>4, <2>6, LimitsConstants
  <2>9. QED
    BY <2>1, <2>3, <2>4, <2>5, <2>6, <2>7, <2>8, OneHitInv
<1>6. QED
  BY <1>1, <1>2, <1>3, <1>4, <1>5

LEMMA CommandFailsInv ==
  ASSUME LimitsInv, NEW r \in Callers, NEW k \in Keys, CommandFails(r, k)
  PROVE  LimitsInv'
<1>1. PICK pc \in Asking : At(r, k, pc)
  BY DEF CommandFails
<1>2. PICK p : p = caller[r].at
  OBVIOUS
<1>3. p \in Processes /\ k \in KeysOf[r] /\ caller[r] \in Request(r) /\ caller[r].pc = "hits"
  BY <1>1, <1>2, AtIs DEF Request
<1>4. PICK q : q = HitIs(r, k, InMemory(p, k))
  OBVIOUS
<1>5. PICK now : now = [q EXCEPT !.told = "nothing"]
  OBVIOUS
<1>6. /\ redis' = redis \/ redis' = Incremented(k) \/ redis' = WithExpiry(k)
      /\ MemoryHit(p, {k}) /\ Touch(r, {k}, now) /\ conn' = conn
  BY <1>2, <1>4, <1>5 DEF CommandFails
<1>7. q \in Request(r) /\ q.pc = "hits"
  BY <1>3, <1>4, HitIsIs, InMemoryIs
<1>8. now \in Request(r) /\ now.pc = "hits" /\ now.told = "nothing"
  BY <1>5, <1>7 DEF Request
<1>9. redis' \in Counters /\ \A x \in Keys \ {k} : redis'[x] = redis[x]
  BY <1>6, IncrementedIs, ExpiringIs DEF LimitsInv, LimitsTyped
<1>10. bucket' \in Entries /\ \A x \in Keys \ {k} : \A o \in Processes : bucket'[o][x] = bucket[o][x]
  BY <1>3, <1>6, MemoryHitIs
<1>11. Hopes(r, now, redis', bucket', conn')
  BY <1>8 DEF Hopes
<1>12. QED
  BY <1>6, <1>8, <1>9, <1>10, <1>11, TouchInv

LEMMA ConnectsInv ==
  ASSUME LimitsInv, NEW p \in Processes, Connects(p)
  PROVE  LimitsInv'
<1>1. PICK to \in ConnStates : conn' = [conn EXCEPT ![p] = to]
  BY DEF Connects, Connection, ConnStates
<1>2. /\ caller' = [r \in Callers |-> IF caller[r].at = p THEN Void(r) ELSE caller[r]]
      /\ redis' = redis /\ bucket' = bucket
  BY DEF Connects, Connection
<1>3. conn' \in [Processes -> ConnStates]
  BY <1>1 DEF LimitsInv, LimitsTyped
<1>4. ASSUME NEW r \in Callers
      PROVE  caller'[r] \in Request(r) /\ CallerInv(r, caller'[r], redis', bucket', conn')
  <2>1. caller[r] \in Request(r) /\ caller[r].at \in Processes /\ CallerInv(r, caller[r], redis, bucket, conn)
    BY DEF LimitsInv, LimitsTyped, Request
  <2>2. CASE caller[r].at = p
    <3>1. caller'[r] = Void(r)
      BY <1>2, <2>2
    <3>2. Void(r) \in Request(r) /\ Void(r).told = "nothing" /\ Void(r).pc # "refused"
      BY <2>1, VoidIs DEF CallerInv
    <3>3. QED
      BY <3>1, <3>2 DEF CallerInv
  <2>3. CASE caller[r].at # p
    <3>1. caller'[r] = caller[r] /\ conn'[caller[r].at] = conn[caller[r].at]
      BY <1>1, <1>2, <2>1, <2>3 DEF LimitsInv, LimitsTyped
    <3>2. QED
      BY <1>2, <2>1, <3>1 DEF CallerInv, Ends
  <2>4. QED
    BY <2>2, <2>3
<1>5. QED
  BY <1>2, <1>3, <1>4 DEF LimitsInv, LimitsTyped

LEMMA RestartLimits ==
  ASSUME LimitsInv, NEW p \in Processes, RestartProcess(p)
  PROVE  LimitsInv'
<1>1. /\ bucket' = [bucket EXCEPT ![p] = [k \in Keys |-> Empty]]
      /\ conn' = [conn EXCEPT ![p] = "connecting"]
      /\ caller' = [r \in Callers |-> IF caller[r].at = p THEN Idle(r, p) ELSE caller[r]]
      /\ redis' = redis
  BY DEF RestartProcess
<1>2. redis' \in Counters /\ bucket' \in Entries /\ conn' \in [Processes -> ConnStates]
  BY <1>1, LimitsConstants DEF LimitsInv, LimitsTyped, Entries, ConnStates
<1>3. ASSUME NEW r \in Callers
      PROVE  caller'[r] \in Request(r) /\ CallerInv(r, caller'[r], redis', bucket', conn')
  <2>1. caller[r] \in Request(r) /\ caller[r].at \in Processes /\ CallerInv(r, caller[r], redis, bucket, conn)
    BY DEF LimitsInv, LimitsTyped, Request
  <2>2. CASE caller[r].at = p
    BY <1>1, <2>2, LimitsConstants DEF CallerInv
  <2>3. CASE caller[r].at # p
    <3>1. /\ caller'[r] = caller[r] /\ conn'[caller[r].at] = conn[caller[r].at]
          /\ bucket'[caller[r].at] = bucket[caller[r].at]
      BY <1>1, <2>1, <2>3 DEF LimitsInv, LimitsTyped, Entries
    <3>2. QED
      BY <1>1, <2>1, <3>1 DEF CallerInv, Ends
  <2>4. QED
    BY <2>2, <2>3
<1>4. QED
  BY <1>2, <1>3 DEF LimitsInv, LimitsTyped

\* A tick brings the end of every window nearer.
LEMMA TickedCounter ==
  ASSUME NEW b \in Counter, NEW o,
         o = IF b.ttl = -1 THEN b ELSE IF b.ttl = 1 THEN Absent ELSE [b EXCEPT !.ttl = @ - 1]
  PROVE  /\ o \in Counter /\ (b.count = 0 => o.count = 0)
         /\ \A n \in Nat : 1 <= b.ttl /\ b.ttl <= n =>
              o.count = 0 \/ (1 <= o.ttl /\ o.ttl <= Less(n))
<1>1. CASE b.ttl = -1
  BY <1>1
<1>2. CASE b.ttl = 1
  BY <1>2, LimitsConstants
<1>3. CASE b.ttl \notin {-1, 1}
  <2>1. b.ttl \in 2..Window /\ b.count # 0
    BY <1>3, LimitsConstants DEF Counter
  <2>2. o = [b EXCEPT !.ttl = b.ttl - 1]
    BY <1>3
  <2>3. o \in Counter /\ o.ttl = b.ttl - 1 /\ o.count = b.count
    BY <2>1, <2>2, LimitsConstants DEF Counter
  <2>4. QED
    BY <2>1, <2>3 DEF Less
<1>4. QED
  BY <1>1, <1>2, <1>3

LEMMA TickedEntry ==
  ASSUME NEW b \in Entry, NEW o,
         o = IF b.left <= 1 THEN Empty ELSE [b EXCEPT !.left = @ - 1]
  PROVE  o \in Entry /\ \A n \in Nat : b.left <= n => o.left <= Less(n)
<1>1. CASE b.left <= 1
  BY <1>1, LimitsConstants DEF Less
<1>2. CASE ~(b.left <= 1)
  <2>1. b.left \in 2..Window
    BY <1>2, LimitsConstants DEF Entry
  <2>2. o = [b EXCEPT !.left = b.left - 1]
    BY <1>2
  <2>3. o \in Entry /\ o.left = b.left - 1
    BY <2>1, <2>2, LimitsConstants DEF Entry
  <2>4. QED
    BY <2>1, <2>3 DEF Less
<1>3. QED
  BY <1>1, <1>2

LEMMA TickInv ==
  ASSUME LimitsInv, Tick
  PROVE  LimitsInv'
<1>1. redis \in Counters /\ bucket \in Entries /\ conn' = conn
  BY DEF LimitsInv, LimitsTyped, Tick
<1>2. ASSUME NEW k \in Keys
      PROVE  /\ redis'[k] \in Counter /\ (redis[k].count = 0 => redis'[k].count = 0)
             /\ \A n \in Nat : 1 <= redis[k].ttl /\ redis[k].ttl <= n =>
                  redis'[k].count = 0 \/ (1 <= redis'[k].ttl /\ redis'[k].ttl <= Less(n))
  <2>1. PICK b \in Counter : b = redis[k]
    BY <1>1 DEF Counters
  <2>2. PICK o : o = IF b.ttl = -1 THEN b ELSE IF b.ttl = 1 THEN Absent ELSE [b EXCEPT !.ttl = @ - 1]
    OBVIOUS
  <2>3. redis'[k] = o
    BY <2>1, <2>2 DEF Tick
  <2>4. QED
    BY <2>1, <2>2, <2>3, TickedCounter
<1>3. ASSUME NEW p \in Processes, NEW k \in Keys
      PROVE  bucket'[p][k] \in Entry /\ \A n \in Nat : bucket[p][k].left <= n => bucket'[p][k].left <= Less(n)
  <2>1. PICK b \in Entry : b = bucket[p][k]
    BY <1>1 DEF Entries
  <2>2. PICK o : o = IF b.left <= 1 THEN Empty ELSE [b EXCEPT !.left = @ - 1]
    OBVIOUS
  <2>3. bucket'[p][k] = o
    BY <2>1, <2>2 DEF Tick
  <2>4. QED
    BY <2>1, <2>2, <2>3, TickedEntry
<1>4. redis' \in Counters
  <2>1. redis' = [k \in Keys |-> redis'[k]]
    BY DEF Tick
  <2>2. QED
    BY <1>2, <2>1 DEF Counters
<1>5. bucket' \in Entries
  <2>1. bucket' = [p \in Processes |-> [k \in Keys |-> bucket'[p][k]]]
    BY DEF Tick
  <2>2. QED
    BY <1>3, <2>1 DEF Entries
<1>6. ASSUME NEW r \in Callers
      PROVE  caller'[r] \in Request(r) /\ CallerInv(r, caller'[r], redis', bucket', conn')
  <2>1. /\ caller[r] \in Request(r) /\ CallerInv(r, caller[r], redis, bucket, conn)
        /\ caller[r].at \in Processes /\ caller[r].wait \in 0..Window
        /\ \A k \in KeysOf[r] : k \in Keys /\ caller[r].hit[k].reset \in Nat
    BY LimitsConstants DEF LimitsInv, LimitsTyped, Request, OneHit
  <2>2. caller'[r] = [caller[r] EXCEPT !.wait = Less(caller[r].wait)]
    BY DEF Tick
  <2>3. Less(caller[r].wait) \in 0..Window
    BY <2>1, LimitsConstants DEF Less
  <2>4. /\ caller'[r] \in Request(r) /\ caller'[r].wait = Less(caller[r].wait)
        /\ caller'[r].pc = caller[r].pc /\ caller'[r].told = caller[r].told
        /\ caller'[r].at = caller[r].at /\ caller'[r].hit = caller[r].hit
    BY <2>1, <2>2, <2>3 DEF Request
  <2>5. ASSUME NEW k \in KeysOf[r], NEW n \in Nat, Ends(caller[r], k, n, redis, bucket, conn)
        PROVE  Ends(caller'[r], k, Less(n), redis', bucket', conn')
    <3>1. k \in Keys
      BY <2>1
    <3>2. CASE conn[caller[r].at] = "ready"
      BY <1>1, <1>2, <2>4, <2>5, <3>1, <3>2 DEF Ends
    <3>3. CASE conn[caller[r].at] # "ready"
      BY <1>1, <1>3, <2>1, <2>4, <2>5, <3>1, <3>3 DEF Ends
    <3>4. QED
      BY <3>2, <3>3
  <2>6. \A n \in Nat : Less(n) \in Nat /\ Less(n) <= n
    BY DEF Less
  <2>7. ASSUME NEW k \in KeysOf[r], NEW n \in Nat, Ends(caller[r], k, n, redis, bucket, conn)
        PROVE  Ends(caller'[r], k, n, redis', bucket', conn')
    <3>1. Ends(caller'[r], k, Less(n), redis', bucket', conn')
      BY <2>5, <2>7
    <3>2. Less(n) \in Nat /\ Less(n) <= n /\ k \in Keys /\ caller'[r].at \in Processes
      BY <2>1, <2>4, <2>6
    <3>3. PICK R \in Counters : R = redis'
      BY <1>4
    <3>4. PICK B \in Entries : B = bucket'
      BY <1>5
    <3>5. PICK C : C = conn'
      OBVIOUS
    <3>6. PICK q : q = caller'[r]
      OBVIOUS
    <3>7. Ends(q, k, n, R, B, C)
      BY <3>1, <3>2, <3>3, <3>4, <3>5, <3>6, EndsLater
    <3>8. QED
      BY <3>3, <3>4, <3>5, <3>6, <3>7
  <2>8. CASE caller[r].pc = "refused"
    BY <2>1, <2>4, <2>5, <2>8 DEF CallerInv
  <2>9. CASE caller[r].pc = "hits"
    <3>1. ASSUME caller'[r].told = "waited", NEW k \in KeysOf[r], caller'[r].hit[k].pc = "incr"
          PROVE  redis'[k].count = 0
      BY <1>2, <2>1, <2>4, <2>9, <3>1 DEF CallerInv
    <3>2. ASSUME caller'[r].told # "nothing"
          PROVE  /\ conn'[caller'[r].at] = "ready"
                 /\ \A k \in KeysOf[r] :
                      /\ caller'[r].hit[k].pc = "done" => Ends(caller'[r], k, caller'[r].hit[k].reset, redis', bucket', conn')
                      /\ caller'[r].told = "waited" => ~caller'[r].hit[k].over
      BY <1>1, <2>1, <2>4, <2>7, <2>9, <3>2 DEF CallerInv
    <3>3. QED
      BY <2>1, <2>4, <2>9, <3>1, <3>2 DEF CallerInv
  <2>10. CASE caller[r].pc = "idle"
    BY <2>1, <2>4, <2>10 DEF CallerInv
  <2>11. QED
    BY <2>1, <2>4, <2>8, <2>9, <2>10 DEF Request
<1>7. QED
  BY <1>1, <1>4, <1>5, <1>6 DEF LimitsInv, LimitsTyped

LEMMA LimitsStep ==
  ASSUME LimitsInv, [LimitsNext]_limitsVars
  PROVE  LimitsInv'
<1>1. CASE UNCHANGED limitsVars
  <2>1. redis' = redis /\ bucket' = bucket /\ conn' = conn /\ caller' = caller
    BY <1>1 DEF limitsVars
  <2>2. QED
    BY <2>1 DEF LimitsInv, LimitsTyped
<1>2. ASSUME NEW r \in Callers, NEW p \in Processes, RequestArrives(r, p) PROVE LimitsInv'
  BY <1>2, ArriveLimits
<1>3. ASSUME NEW r \in Callers, NEW k \in Keys,
             Incr(r, k) \/ SetExpiry(r, k) \/ TtlLost(r, k) \/ OnRedis(r, k)
      PROVE  LimitsInv'
  BY <1>3, CommandsInv DEF OnRedis
<1>4. ASSUME NEW r \in Callers, NEW k \in Keys, CommandFails(r, k) PROVE LimitsInv'
  BY <1>4, CommandFailsInv
<1>5. ASSUME NEW p \in Processes, Connects(p) \/ RestartProcess(p) PROVE LimitsInv'
  BY <1>5, ConnectsInv, RestartLimits
<1>6. CASE Tick
  BY <1>6, TickInv
<1>7. QED
  BY <1>1, <1>2, <1>3, <1>4, <1>5, <1>6 DEF LimitsNext

\* A caller who is refused and comes back when the Retry-After is over is admitted on all the
\* keys it is counted on, in Redis or in memory, unless somebody else was counted on one of
\* them or the hits went to another store (ratelimit.js:122).
THEOREM RetryAfterIsEnough == LimitsSpec => []RetryAfterSuffices
<1>1. LimitsInit => LimitsInv
  BY InitLimits
<1>2. LimitsInv /\ [LimitsNext]_limitsVars => LimitsInv'
  BY LimitsStep
<1>3. QED
  BY <1>1, <1>2, LimitsShow, PTL DEF LimitsSpec
===============================================================================
