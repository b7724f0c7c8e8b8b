---------------------------- MODULE ViewAccounting ----------------------------
(***************************************************************************)
(* The render pipeline of src/routes/view.js for one image: every request  *)
(* for the watermarked bytes reads the image and its recipient link,       *)
(* decides whether it replays a view that was already logged, logs the     *)
(* render, renders, takes one use of the link, counts the view, and only   *)
(* then answers.  Each of those steps is an await in the handler, so the   *)
(* steps of concurrent requests interleave with each other and with the    *)
(* owner, the moderators and the ten-minute maintenance sweep.             *)
(*                                                                         *)
(* Abstracted: the media, the identity drawn into it and the log's columns *)
(* (a log row is "none", "client" = written by the telemetry beacon only,  *)
(* or "render" = it has an ip and no blocked_reason).  A render may fail   *)
(* for any reason (encoder saturated, file gone, ffmpeg error).            *)
(***************************************************************************)
EXTENDS Naturals, FiniteSets

CONSTANTS
  Requests,   \* render requests; each is made at most once (a bound)
  Views,      \* view ids; a page makes up its own, a client may send any
  Unnamed,    \* those that stand for a request without a usable view id
  Links,      \* recipient links of the image
  NoLink,     \* the link of a request through the image's own token
  MaxUses,    \* MaxUses[l]: max_uses of link l, 0 for NULL
  MaxViews,   \* max_views of the image, 0 for NULL
  Ttl,        \* ttl_seconds of the image, 0 for NULL ("never")
  Horizon,    \* bound on the clock
  Faults      \* TRUE: database errors, send errors and restarts may happen

ASSUME ConstantsAssumption ==
  /\ Unnamed \subseteq Views
  /\ NoLink \notin Links
  /\ MaxUses \in [Links -> Nat]
  /\ MaxViews \in Nat /\ Ttl \in Nat /\ Horizon \in Nat
  /\ Faults \in BOOLEAN

VARIABLES
  image,      \* the images row: the columns the pipeline reads or writes
  useCount,   \* useCount[l]: view_links.use_count
  revoked,    \* revoked[l]: view_links.revoked_at is set
  rows,       \* rows[v]: what access_logs holds for (image, v)
  now,        \* the clock; 0 stands for NULL in the columns that hold a time
  req,        \* req[r]: where the handler of r is, and its local variables
  paid,       \* history: the requests that took a use of their link
  counted,    \* history: the requests that incremented view_count
  served,     \* history: the requests that were sent the bytes
  cut         \* history: the requests whose view accounting was cut short

vars == <<image, useCount, revoked, rows, now, req, paid, counted, served, cut>>

RowKinds == {"none", "client", "render"}
Locations == {"idle", "reading", "log", "render", "consume",
              "timer", "count", "limit", "send", "done"}

ImageRow == [deleted : BOOLEAN,
             timerStart : {"first_view", "upload"},
             firstViewed : Nat, expires : Nat, views : Nat]

RequestState ==
  [pc : Locations, view : Views,
   via : Links \cup {NoLink},             \* the link the request comes through
   link : {"unread", "usable", "spent"},  \* resolveLink's answer
   loaded : BOOLEAN,                      \* loadImage has returned the row
   untimed : BOOLEAN,                     \* ... with first_viewed_at NULL
   replay : BOOLEAN,                      \* isReplay
   seen : Nat,                            \* view_count RETURNINGed to it
   logged : BOOLEAN,                      \* history: it wrote the row of its view id
   late : BOOLEAN]                        \* history: it began after the end

TypeOK ==
  /\ image \in ImageRow
  /\ useCount \in [Links -> Nat]
  /\ revoked \in [Links -> BOOLEAN]
  /\ rows \in [Views -> RowKinds]
  /\ now \in Nat
  /\ req \in [Requests -> RequestState]
  /\ paid \subseteq Requests /\ counted \subseteq Requests
  /\ served \subseteq Requests /\ cut \subseteq Requests

\* A request before it is made; its link and the view id it will carry are arbitrary.
Fresh(v, l) ==
  [pc |-> "idle", view |-> v, via |-> l, link |-> "unread", loaded |-> FALSE,
   untimed |-> FALSE, replay |-> FALSE, seen |-> 0, logged |-> FALSE, late |-> FALSE]

Init ==
  /\ \E start \in {"first_view", "upload"} :
       image = [deleted |-> FALSE, timerStart |-> start,
                firstViewed |-> 0, views |-> 0,
                expires |-> IF start = "upload" /\ Ttl # 0 THEN 1 + Ttl ELSE 0]
  /\ useCount = [l \in Links |-> 0]
  /\ revoked = [l \in Links |-> FALSE]
  /\ rows = [v \in Views |-> "none"]
  /\ now = 1
  /\ \E view \in [Requests -> Views], via \in [Requests -> Links \cup {NoLink}] :
       req = [r \in Requests |-> Fresh(view[r], via[r])]
  /\ paid = {} /\ counted = {} /\ served = {} /\ cut = {}

-------------------------------------------------------------------------------
(***************************************************************************)
(* Reading.  A /r/ URL has its link row read first, by the middleware, and *)
(* a ?r= URL after the image: a request makes the two reads in any order.  *)
(***************************************************************************)
linkOf(r) == req[r].via

Expired == image.expires # 0 /\ image.expires < now

Goto(r, pc) == req' = [req EXCEPT ![r].pc = pc]

Start(r) ==
  /\ req[r].pc = "idle"
  /\ req' = [req EXCEPT
       ![r].pc = "reading",
       ![r].link = IF linkOf(r) = NoLink THEN "usable" ELSE "unread",
       ![r].late = \/ image.deleted \/ Expired
                   \/ linkOf(r) # NoLink /\ revoked[linkOf(r)]]
  /\ UNCHANGED <<image, useCount, revoked, rows, now, paid, counted, served, cut>>

\* Mutant: the SELECT lost its "deleted_at IS NULL".
LiveAnyRow == TRUE

Live == ~image.deleted

LoadImage(r) ==
  /\ req[r].pc = "reading" /\ ~req[r].loaded
  /\ req' = IF Live /\ ~Expired
            THEN [req EXCEPT ![r].loaded = TRUE,
                             ![r].untimed = image.firstViewed = 0]
            ELSE [req EXCEPT ![r].pc = "done"]
  /\ UNCHANGED <<image, useCount, revoked, rows, now, paid, counted, served, cut>>

Spent(l) == MaxUses[l] # 0 /\ useCount[l] >= MaxUses[l]

ResolveLink(r) ==
  /\ req[r].pc = "reading" /\ req[r].link = "unread"
  /\ req' = IF revoked[linkOf(r)]
            THEN [req EXCEPT ![r].pc = "done"]
            ELSE [req EXCEPT ![r].link = IF Spent(linkOf(r)) THEN "spent" ELSE "usable"]
  /\ UNCHANGED <<image, useCount, revoked, rows, now, paid, counted, served, cut>>

\* The image is held by the moderators, there is no gate cookie, or ipintel
\* refuses the viewer: the attempt is logged with a NULL view_id, so no row a
\* replay could find is touched.
Refuse(r) ==
  /\ req[r].pc = "reading"
  /\ Goto(r, "done")
  /\ UNCHANGED <<image, useCount, revoked, rows, now, paid, counted, served, cut>>

\* Mutant: any row of the view id counts as a render, the beacon's included.
ExistingViewAnyRow(v) == v \notin Unnamed /\ rows[v] # "none"

\* getExistingView: the row has an ip, so it was written by a render.
ExistingView(v) == v \notin Unnamed /\ rows[v] = "render"

CheckReplay(r) ==
  /\ req[r].pc = "reading" /\ req[r].loaded /\ req[r].link # "unread"
  /\ LET known == ExistingView(req[r].view) IN
     req' = IF req[r].link = "spent" /\ ~known
            THEN [req EXCEPT ![r].pc = "done"]
            ELSE [req EXCEPT ![r].pc = "log", ![r].replay = known]
  /\ UNCHANGED <<image, useCount, revoked, rows, now, paid, counted, served, cut>>

-------------------------------------------------------------------------------
(***************************************************************************)
(* Logging and rendering.                                                  *)
(***************************************************************************)
LogRender(r) ==
  /\ req[r].pc = "log"
  /\ \/ /\ req[r].view \notin Unnamed
        /\ rows' = [rows EXCEPT ![req[r].view] = "render"]
        /\ req' = [req EXCEPT ![r].pc = "render", ![r].logged = TRUE]
     \/ /\ req[r].view \in Unnamed \/ Faults  \* no key to upsert, or it threw
        /\ UNCHANGED rows /\ Goto(r, "render")
  /\ UNCHANGED <<image, useCount, revoked, now, paid, counted, served, cut>>

RenderFails(r) ==
  /\ req[r].pc = "render"
  /\ Goto(r, "done")
  /\ UNCHANGED <<image, useCount, revoked, rows, now, paid, counted, served, cut>>

Render(r) ==
  /\ req[r].pc = "render"
  /\ Goto(r, IF req[r].replay THEN "send"
             ELSE IF linkOf(r) = NoLink THEN "timer" ELSE "consume")
  /\ UNCHANGED <<image, useCount, revoked, rows, now, paid, counted, served, cut>>

-------------------------------------------------------------------------------
(***************************************************************************)
(* Accounting.  consumeLink is one conditional UPDATE; accountView is up   *)
(* to three statements, and an error in any of them is swallowed.          *)
(***************************************************************************)
\* Mutants: the UPDATE relies on resolveLink's earlier look at use_count, or
\* at revoked_at.
CanConsumeUnlimited(l) == ~revoked[l]
CanConsumeRevoked(l) == MaxUses[l] = 0 \/ useCount[l] < MaxUses[l]

CanConsume(l) == ~revoked[l] /\ (MaxUses[l] = 0 \/ useCount[l] < MaxUses[l])

ConsumeLink(r) ==
  /\ req[r].pc = "consume" /\ CanConsume(linkOf(r))
  /\ useCount' = [useCount EXCEPT ![linkOf(r)] = @ + 1]
  /\ paid' = paid \cup {r}
  /\ Goto(r, "timer")
  /\ UNCHANGED <<image, revoked, rows, now, counted, served, cut>>

ConsumeNothing(r) ==
  /\ req[r].pc = "consume" /\ ~CanConsume(linkOf(r))
  /\ Goto(r, "done")
  /\ UNCHANGED <<image, useCount, revoked, rows, now, paid, counted, served, cut>>

\* The row r read decides whether the statement is sent, the row's present
\* first_viewed_at whether it changes anything.
Timed(r) == image.timerStart = "first_view" /\ Ttl # 0 /\ req[r].untimed

\* Mutant: the UPDATE lost its "first_viewed_at IS NULL".
StartTimerAgain(r) ==
  /\ req[r].pc = "timer"
  /\ Goto(r, "count")
  /\ image' = IF Timed(r)
              THEN [image EXCEPT !.firstViewed = now, !.expires = now + Ttl]
              ELSE image
  /\ UNCHANGED <<useCount, revoked, rows, now, paid, counted, served, cut>>

StartTimer(r) ==
  /\ req[r].pc = "timer"
  /\ Goto(r, "count")
  /\ image' = IF Timed(r) /\ image.firstViewed = 0
              THEN [image EXCEPT !.firstViewed = now, !.expires = now + Ttl]
              ELSE image
  /\ UNCHANGED <<useCount, revoked, rows, now, paid, counted, served, cut>>

\* Mutant: the limit is met only when passed.
ReachesLimitLate(count) == MaxViews # 0 /\ count > MaxViews

ReachesLimit(count) == MaxViews # 0 /\ count >= MaxViews

\* Mutant: the count is computed from what this request knew, not in the UPDATE.
BumpViewsStale(r) ==
  /\ req[r].pc = "count"
  /\ image' = [image EXCEPT !.views = req[r].seen + 1]
  /\ counted' = counted \cup {r}
  /\ req' = [req EXCEPT ![r].seen = @ + 1, ![r].pc = "send"]
  /\ UNCHANGED <<useCount, revoked, rows, now, paid, served, cut>>

BumpViews(r) ==
  /\ req[r].pc = "count"
  /\ image' = [image EXCEPT !.views = @ + 1]
  /\ counted' = counted \cup {r}
  /\ req' = [req EXCEPT ![r].seen = image.views + 1,
                        ![r].pc = IF ReachesLimit(image.views + 1)
                                  THEN "limit" ELSE "send"]
  /\ UNCHANGED <<useCount, revoked, rows, now, paid, served, cut>>

SoftDelete(r) ==
  /\ req[r].pc = "limit"
  /\ image' = [image EXCEPT !.deleted = TRUE]
  /\ Goto(r, "send")
  /\ UNCHANGED <<useCount, revoked, rows, now, paid, counted, served, cut>>

Accounting == {"timer", "count", "limit"}

AccountFails(r) ==
  /\ Faults
  /\ req[r].pc \in Accounting
  /\ Goto(r, "send")
  /\ cut' = cut \cup {r}
  /\ UNCHANGED <<image, useCount, revoked, rows, now, paid, counted, served>>

Send(r) ==
  /\ req[r].pc = "send"
  /\ served' = served \cup {r}
  /\ Goto(r, "done")
  /\ UNCHANGED <<image, useCount, revoked, rows, now, paid, counted, cut>>

\* The cached copy was swept before it could be opened, or the viewer left.
SendFails(r) ==
  /\ Faults
  /\ req[r].pc = "send"
  /\ Goto(r, "done")
  /\ UNCHANGED <<image, useCount, revoked, rows, now, paid, counted, served, cut>>

-------------------------------------------------------------------------------
(***************************************************************************)
(* Everybody else.                                                         *)
(***************************************************************************)
\* The telemetry beacon of a viewer who passed the gate: logClient upserts.
\* It looked the image up before, so the row may be written after a deletion.
Beacon(v) ==
  /\ v \notin Unnamed
  /\ rows' = [rows EXCEPT ![v] = IF @ = "none" THEN "client" ELSE @]
  /\ UNCHANGED <<image, useCount, revoked, now, req, paid, counted, served, cut>>

\* The owner revokes a link; here too the image is looked up before the UPDATE.
RevokeLink(l) ==
  /\ revoked' = [revoked EXCEPT ![l] = TRUE]
  /\ UNCHANGED <<image, useCount, rows, now, req, paid, counted, served, cut>>

\* The owner, an administrator or a moderator's Deny deletes the image; an
\* UPDATE that comes second only moves deleted_at.
DeleteImage ==
  /\ Live
  /\ image' = [image EXCEPT !.deleted = TRUE]
  /\ UNCHANGED <<useCount, revoked, rows, now, req, paid, counted, served, cut>>

\* The maintenance sweep marks an expired image purged.  It selected the image
\* before, but an image that has expired stays so.
Maintenance ==
  /\ Live /\ Expired
  /\ image' = [image EXCEPT !.deleted = TRUE]
  /\ UNCHANGED <<useCount, revoked, rows, now, req, paid, counted, served, cut>>

\* The process dies with every request it was working on; the rows stay.
Restart ==
  /\ Faults
  /\ req' = [r \in Requests |->
               IF req[r].pc = "idle" THEN req[r] ELSE [req[r] EXCEPT !.pc = "done"]]
  /\ cut' = cut \cup {r \in Requests : req[r].pc \in Accounting}
  /\ UNCHANGED <<image, useCount, revoked, rows, now, paid, counted, served>>

Tick ==
  /\ now < Horizon
  /\ now' = now + 1
  /\ UNCHANGED <<image, useCount, revoked, rows, req, paid, counted, served, cut>>

-------------------------------------------------------------------------------
\* The handler's own steps: an awaited call always comes back.
Step(r) ==
  \/ LoadImage(r) \/ ResolveLink(r) \/ Refuse(r) \/ CheckReplay(r)
  \/ LogRender(r) \/ RenderFails(r) \/ Render(r)
  \/ ConsumeLink(r) \/ ConsumeNothing(r)
  \/ StartTimer(r) \/ BumpViews(r) \/ SoftDelete(r) \/ AccountFails(r)
  \/ Send(r) \/ SendFails(r)

Next ==
  \/ \E r \in Requests : Start(r) \/ Step(r)
  \/ \E v \in Views : Beacon(v)
  \/ \E l \in Links : RevokeLink(l)
  \/ DeleteImage \/ Maintenance \/ Restart \/ Tick

Spec == Init /\ [][Next]_vars

\* Node runs every continuation that is ready; nobody has to make a request,
\* press a button or let time pass.
FairSpec == Spec /\ \A r \in Requests : WF_vars(Step(r))
-------------------------------------------------------------------------------
(***************************************************************************)
(* Properties.                                                             *)
(***************************************************************************)
Users(l) == {r \in paid : linkOf(r) = l}
FirstDeliveries(l) == {r \in served : ~req[r].replay /\ linkOf(r) = l}

\* However many requests race, view_links.use_count is exactly the number of
\* requests that took a use, and never passes max_uses (consumeLink's WHERE).
UsesBounded ==
  \A l \in Links :
    /\ useCount[l] = Cardinality(Users(l))
    /\ MaxUses[l] # 0 => useCount[l] <= MaxUses[l]

\* The render handler sends the bytes of a first delivery only to a request
\* that itself took a use: a limited link serves at most max_uses of them.
DeliveriesWithinUses ==
  \A l \in Links :
    /\ FirstDeliveries(l) \subseteq Users(l)
    /\ MaxUses[l] # 0 => Cardinality(FirstDeliveries(l)) <= MaxUses[l]

\* A recipient link is charged exactly once for every first delivery it makes, and not
\* beyond max_uses, in whatever order requests read it, log, render, fail and take
\* their use (view.js:104, view.js:325).
LinkUsesHeld == TypeOK /\ UsesBounded /\ DeliveriesWithinUses

\* What is excused as a replay goes back to a request for the same view id that was
\* not excused itself: its own link was not exhausted when it was read, and it wrote
\* the row.  The telemetry beacon excuses nobody, nor do replays through exhausted
\* links excuse each other.  Nothing is said of that request's link, which may be
\* another one, nor of its render, which may fail (view.js:29, view.js:250).
ReplayWasRendered ==
  \A r \in Requests : req[r].replay =>
    \E q \in Requests :
      /\ req[q].view = req[r].view
      /\ req[q].logged /\ ~req[q].replay /\ req[q].link = "usable"

\* A request made after the image was deleted or expired, or after its link
\* was revoked, is never sent the bytes, replay or not: whatever deletes the
\* image (owner, limit, moderator, maintenance) closes it for newcomers.
LateStarterRefused == \A r \in served : ~req[r].late

\* first_viewed_at and the expires_at computed from it are written once: a
\* request that read the row before another one started the timer must not
\* restart it (startTimer's WHERE first_viewed_at IS NULL).
TimerStartsOnce ==
  [][image.firstViewed # 0 =>
       image'.firstViewed = image.firstViewed /\ image'.expires = image.expires]_vars

\* Every first delivery of an image that has its timer on first view finds
\* the timer running, unless its accounting failed: nothing is served from an
\* image that would then be kept for ever.
ServedImageIsTimed ==
  image.timerStart = "first_view" /\ Ttl # 0 =>
    \A r \in served : req[r].replay \/ r \in cut \/ image.firstViewed # 0

\* The image is deleted by whichever request sees the count at or past the
\* limit, so a limit missed because accounting failed or the process died is
\* enforced by the next view that is counted.
LimitHeals ==
  \A r \in counted : MaxViews # 0 /\ req[r].seen >= MaxViews =>
    image.deleted \/ req[r].pc = "limit" \/ r \in cut

\* view_count loses no view to concurrent requests: the views counted and the
\* accountings that failed cover every first delivery.
DeliveriesCounted ==
  Cardinality({r \in served : ~req[r].replay}) <= image.views + Cardinality(cut)

\* No view escapes its accounting, in any interleaving of views, database errors and
\* restarts: the image is timed, counted and, at its limit, deleted (view.js:40).
ViewsAccounted == ServedImageIsTimed /\ LimitHeals /\ DeliveriesCounted

\* The ledger this pipeline implements: a use is granted when consumeLink
\* changes the row, and a first delivery needs a grant.
Ledger == INSTANCE LinkLedger WITH
  granted <- [l \in Links |-> Users(l)],
  delivered <- [l \in Links |-> FirstDeliveries(l)]

\* Every behaviour of the pipeline is one of the abstract link ledger's.
ImplementsLedger == Ledger!Spec

\* Once view_count has reached max_views the image is eventually deleted, if
\* no accounting is ever cut short by a database error or a restart.
LimitDeletes ==
  MaxViews # 0 /\ image.views >= MaxViews ~> image.deleted \/ cut # {}
===============================================================================
