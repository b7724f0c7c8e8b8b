------------------------- MODULE ViewAccountingProofs -------------------------
(***************************************************************************)
(* Machine-checked proofs about ViewAccounting, for any set of requests,   *)
(* page loads and links, any limits and any clock bound.                   *)
(***************************************************************************)
EXTENDS ViewAccounting, FiniteSetTheorems, TLAPS

(***************************************************************************)
(* Type correctness.                                                       *)
(***************************************************************************)
\* Moving a handler to another location keeps the handlers' type.
LEMMA GotoType ==
  ASSUME req \in [Requests -> RequestState], NEW r \in Requests,
         NEW pc \in Locations, Goto(r, pc)
  PROVE  req' \in [Requests -> RequestState]
BY DEF Goto, RequestState

\* What Start and LogRender make of a handler's record is of its type.
LEMMA RecordTypes ==
  ASSUME NEW s \in RequestState, NEW link \in {"unread", "usable", "spent"},
         NEW late \in BOOLEAN
  PROVE  /\ [s EXCEPT !.pc = "reading", !.link = link, !.late = late] \in RequestState
         /\ [s EXCEPT !.pc = "render", !.logged = TRUE] \in RequestState
<1>1. "reading" \in Locations /\ "render" \in Locations
  BY DEF Locations
<1>2. [s EXCEPT !.pc = "reading", !.link = link, !.late = late] \in RequestState
  BY <1>1 DEF RequestState
<1>3. [s EXCEPT !.pc = "render", !.logged = TRUE] \in RequestState
  BY <1>1 DEF RequestState
<1>4. QED
  BY <1>2, <1>3

\* The dynamic parts of a handler's state that are computed from conditions
\* are truth values.
LEMMA ConditionTypes ==
  ASSUME TypeOK, NEW r \in Requests
  PROVE  /\ (\/ image.deleted \/ Expired
             \/ linkOf(r) # NoLink /\ revoked[linkOf(r)]) \in BOOLEAN
         /\ (image.firstViewed = 0) \in BOOLEAN
         /\ ExistingView(req[r].view) \in BOOLEAN
BY DEF ExistingView

\* Every variable keeps its type through every step of the render pipeline.
THEOREM TypeCorrect == Spec => []TypeOK
<1>1. Init => TypeOK
  <2> SUFFICES ASSUME Init PROVE TypeOK
    OBVIOUS
  <2>1. req \in [Requests -> RequestState]
    BY DEF Init, Fresh, RequestState, Locations
  <2>2. image \in ImageRow
    BY ConstantsAssumption DEF Init, ImageRow
  <2>3. QED
    BY <2>1, <2>2 DEF Init, TypeOK, RowKinds
<1>2. TypeOK /\ [Next]_vars => TypeOK'
  <2> SUFFICES ASSUME TypeOK, [Next]_vars PROVE TypeOK'
    OBVIOUS
  <2> USE DEF TypeOK
  <2>1. ASSUME NEW r \in Requests, Start(r) PROVE TypeOK'
    <3> DEFINE ended == \/ image.deleted \/ Expired
                        \/ linkOf(r) # NoLink /\ revoked[linkOf(r)]
               link == IF linkOf(r) = NoLink THEN "usable" ELSE "unread"
    <3>1. ended \in BOOLEAN /\ link \in {"unread", "usable", "spent"}
      BY ConditionTypes
    <3>2. req' = [req EXCEPT ![r].pc = "reading", ![r].link = link, ![r].late = ended]
      BY <2>1 DEF Start
    <3> HIDE DEF ended, link
    <3>3. [req[r] EXCEPT !.pc = "reading", !.link = link, !.late = ended] \in RequestState
      BY <3>1, RecordTypes
    <3>4. req' = [req EXCEPT ![r] = [req[r] EXCEPT !.pc = "reading", !.link = link, !.late = ended]]
      BY <3>2
    <3>5. req' \in [Requests -> RequestState]
      BY <3>3, <3>4
    <3>6. QED
      BY <2>1, <3>5 DEF Start
  <2>2. ASSUME NEW r \in Requests, LoadImage(r) PROVE TypeOK'
    <3> DEFINE null == image.firstViewed = 0
    <3>1. null \in BOOLEAN
      BY ConditionTypes
    <3>2. \/ req' = [req EXCEPT ![r] = [req[r] EXCEPT !.loaded = TRUE, !.untimed = null]]
          \/ req' = [req EXCEPT ![r] = [req[r] EXCEPT !.pc = "done"]]
      BY <2>2 DEF LoadImage
    <3> HIDE DEF null
    <3>3. /\ [req[r] EXCEPT !.loaded = TRUE, !.untimed = null] \in RequestState
          /\ [req[r] EXCEPT !.pc = "done"] \in RequestState
      BY <3>1 DEF RequestState, Locations
    <3>4. req' \in [Requests -> RequestState]
      BY <3>2, <3>3
    <3>5. QED
      BY <2>2, <3>4 DEF LoadImage
  <2>3. ASSUME NEW r \in Requests, ResolveLink(r) PROVE TypeOK'
    BY <2>3 DEF ResolveLink, RequestState, Locations
  <2>4. ASSUME NEW r \in Requests, Refuse(r) PROVE TypeOK'
    BY <2>4, GotoType DEF Refuse, Locations
  <2>5. ASSUME NEW r \in Requests, CheckReplay(r) PROVE TypeOK'
    <3> DEFINE known == ExistingView(req[r].view)
    <3>1. known \in BOOLEAN
      BY ConditionTypes
    <3>2. \/ req' = [req EXCEPT ![r].pc = "log", ![r].replay = known]
          \/ req' = [req EXCEPT ![r].pc = "done"]
      BY <2>5 DEF CheckReplay
    <3> HIDE DEF known
    <3>3. req' \in [Requests -> RequestState]
      BY <3>1, <3>2 DEF RequestState, Locations
    <3>4. QED
      BY <2>5, <3>3 DEF CheckReplay
  <2>6. ASSUME NEW r \in Requests, LogRender(r) PROVE TypeOK'
    <3>1. req' \in [Requests -> RequestState]
      <4>1. CASE req' = [req EXCEPT ![r].pc = "render", ![r].logged = TRUE]
        <5>1. [req[r] EXCEPT !.pc = "render", !.logged = TRUE] \in RequestState
          BY RecordTypes
        <5>2. req' = [req EXCEPT ![r] = [req[r] EXCEPT !.pc = "render", !.logged = TRUE]]
          BY <4>1
        <5>3. QED
          BY <5>1, <5>2
      <4>2. CASE Goto(r, "render")
        BY <4>2, GotoType DEF Locations
      <4>3. QED
        BY <2>6, <4>1, <4>2 DEF LogRender
    <3>2. QED
      BY <2>6, <3>1 DEF LogRender, RowKinds
  <2>7. ASSUME NEW r \in Requests, RenderFails(r) PROVE TypeOK'
    BY <2>7, GotoType DEF RenderFails, Locations
  <2>8. ASSUME NEW r \in Requests, Render(r) PROVE TypeOK'
    BY <2>8, GotoType DEF Render, Locations
  <2>9. ASSUME NEW r \in Requests, ConsumeLink(r) PROVE TypeOK'
    <3>1. useCount' \in [Links -> Nat]
      <4>1. useCount' = [useCount EXCEPT ![linkOf(r)] = useCount[linkOf(r)] + 1]
        BY <2>9 DEF ConsumeLink
      <4>2. CASE linkOf(r) \in Links
        BY <4>1, <4>2
      <4>3. CASE linkOf(r) \notin Links
        BY <4>1, <4>3
      <4>4. QED
        BY <4>2, <4>3
    <3>2. req' \in [Requests -> RequestState]
      BY <2>9, GotoType DEF ConsumeLink, Locations
    <3>3. QED
      BY <2>9, <3>1, <3>2 DEF ConsumeLink
  <2>10. ASSUME NEW r \in Requests, ConsumeNothing(r) PROVE TypeOK'
    BY <2>10, GotoType DEF ConsumeNothing, Locations
  <2>11. ASSUME NEW r \in Requests, StartTimer(r) PROVE TypeOK'
    <3>1. image' \in ImageRow
      <4>1. CASE image' = [image EXCEPT !.firstViewed = now, !.expires = now + Ttl]
        <5>1. now + Ttl \in Nat
          BY ConstantsAssumption
        <5>2. QED
          BY <4>1, <5>1 DEF ImageRow
      <4>2. CASE image' = image
        BY <4>2
      <4>3. QED
        BY <2>11, <4>1, <4>2 DEF StartTimer
    <3>2. req' \in [Requests -> RequestState]
      BY <2>11, GotoType DEF StartTimer, Locations
    <3>3. QED
      BY <2>11, <3>1, <3>2 DEF StartTimer
  <2>12. ASSUME NEW r \in Requests, BumpViews(r) PROVE TypeOK'
    BY <2>12 DEF BumpViews, ImageRow, RequestState, Locations
  <2>13. ASSUME NEW r \in Requests, SoftDelete(r) PROVE TypeOK'
    BY <2>13, GotoType DEF SoftDelete, ImageRow, Locations
  <2>14. ASSUME NEW r \in Requests, AccountFails(r) PROVE TypeOK'
    BY <2>14, GotoType DEF AccountFails, Locations
  <2>15. ASSUME NEW r \in Requests, Send(r) \/ SendFails(r) PROVE TypeOK'
    BY <2>15, GotoType DEF Send, SendFails, Locations
  <2>16. ASSUME NEW v \in Views, Beacon(v) PROVE TypeOK'
    BY <2>16 DEF Beacon, RowKinds
  <2>17. ASSUME NEW l \in Links, RevokeLink(l) PROVE TypeOK'
    BY <2>17 DEF RevokeLink
  <2>18. CASE DeleteImage \/ Maintenance
    BY <2>18 DEF DeleteImage, Maintenance, ImageRow
  <2>19. CASE Restart
    BY <2>19 DEF Restart, RequestState, Locations
  <2>20. CASE Tick
    BY <2>20 DEF Tick
  <2>21. CASE UNCHANGED vars
    BY <2>21 DEF vars
  <2>22. QED
    BY <2>1, <2>2, <2>3, <2>4, <2>5, <2>6, <2>7, <2>8, <2>9, <2>10, <2>11, <2>12,
       <2>13, <2>14, <2>15, <2>16, <2>17, <2>18, <2>19, <2>20, <2>21 DEF Next, Step
<1>3. QED
  BY <1>1, <1>2, PTL DEF Spec
-------------------------------------------------------------------------------
(***************************************************************************)
(* The uses of the links.  The counter of a link equals the number of      *)
(* requests that hold a use of it only because no request can take two,    *)
(* and that is a matter of where each handler is: the inductive invariant  *)
(* ties the histories paid and served to the handlers' locations.          *)
(***************************************************************************)
Unpaid == {"idle", "reading", "log", "render", "consume"}
FirstUse(r) == ~req[r].replay /\ linkOf(r) # NoLink

PlaceInv(r) ==
  /\ req[r].pc \in Unpaid => r \notin paid /\ r \notin served
  /\ req[r].pc = "consume" => linkOf(r) # NoLink
  /\ req[r].pc \in Accounting \cup {"send"} =>
       r \notin served /\ (FirstUse(r) => r \in paid)
  /\ r \in served => req[r].pc = "done" /\ (FirstUse(r) => r \in paid)

ControlInv == \A r \in Requests : PlaceInv(r)

UsesInv == (\A l \in Links : IsFiniteSet(Users(l))) /\ UsesBounded

\* What a step of handler r leaves alone: the view id and the link of every request,
\* and every other handler altogether.
Frame(r) ==
  /\ \A q \in Requests : req'[q].view = req[q].view /\ req'[q].via = req[q].via
  /\ \A q \in Requests \ {r} : req'[q] = req[q]

LEMMA GotoFrame ==
  ASSUME TypeOK, NEW r \in Requests, NEW pc, Goto(r, pc)
  PROVE  Frame(r) /\ req'[r].pc = pc /\ req'[r].replay = req[r].replay
BY DEF Goto, Frame, TypeOK, RequestState

LEMMA StepFrame ==
  ASSUME TypeOK, NEW r \in Requests, Start(r) \/ Step(r)
  PROVE  Frame(r)
<1> USE DEF TypeOK, RequestState, Frame
<1>1. CASE Start(r)
  BY <1>1 DEF Start
<1>2. CASE LoadImage(r)
  BY <1>2 DEF LoadImage
<1>3. CASE ResolveLink(r)
  BY <1>3 DEF ResolveLink
<1>4. CASE CheckReplay(r)
  BY <1>4 DEF CheckReplay
<1>5. CASE BumpViews(r)
  BY <1>5 DEF BumpViews
<1>6. CASE LogRender(r)
  BY <1>6 DEF LogRender, Goto
<1>7. CASE \E pc : Goto(r, pc)
  BY <1>7 DEF Goto
<1>8. QED
  BY <1>1, <1>2, <1>3, <1>4, <1>5, <1>6, <1>7
     DEF Step, Refuse, RenderFails, Render, ConsumeLink, ConsumeNothing,
         StartTimer, SoftDelete, AccountFails, Send, SendFails

\* No step changes the link a request came through.
LEMMA LinksFixed ==
  ASSUME TypeOK, [Next]_vars
  PROVE  \A q \in Requests : linkOf(q)' = linkOf(q)
<1>1. ASSUME NEW r \in Requests, Start(r) \/ Step(r)
      PROVE  \A q \in Requests : req'[q].via = req[q].via
  BY <1>1, StepFrame DEF Frame
<1>2. CASE Restart
  BY <1>2 DEF Restart, TypeOK, RequestState, linkOf
<1>3. CASE UNCHANGED req
  BY <1>3 DEF linkOf
<1>4. QED
  BY <1>1, <1>2, <1>3
     DEF Next, vars, linkOf, Beacon, RevokeLink, DeleteImage, Maintenance, Tick

LEMMA ControlInit == Init => ControlInv
BY DEF Init, Fresh, ControlInv, PlaceInv, Accounting, linkOf

\* A step of r concerns nobody else's place.
LEMMA OthersKeepPlace ==
  ASSUME NEW r \in Requests, NEW q \in Requests \ {r}, PlaceInv(q),
         req'[q] = req[q], paid' \ {r} = paid \ {r}, served' \ {r} = served \ {r}
  PROVE  PlaceInv(q)'
<1>1. (q \in paid' <=> q \in paid) /\ (q \in served' <=> q \in served)
  OBVIOUS
<1>2. QED
  BY <1>1 DEF PlaceInv, FirstUse, linkOf, Unpaid, Accounting

LEMMA ControlStep ==
  ASSUME TypeOK, ControlInv, [Next]_vars
  PROVE  ControlInv'
<1> USE DEF Unpaid, Accounting, Locations
<1>1. ASSUME NEW r \in Requests, Start(r) \/ Step(r)
      PROVE  ControlInv'
  <2>1. \A q \in Requests \ {r} : req'[q] = req[q]
    BY <1>1, StepFrame DEF Frame
  <2>2. linkOf(r)' = linkOf(r)
    BY <1>1, StepFrame DEF Frame, linkOf
  <2>3. PlaceInv(r)
    BY DEF ControlInv
  <2>4. req[r] \in RequestState
    BY DEF TypeOK
  <2>5. paid' \ {r} = paid \ {r} /\ served' \ {r} = served \ {r}
    BY <1>1 DEF Start, Step, LoadImage, ResolveLink, Refuse, CheckReplay, LogRender,
         RenderFails, Render, ConsumeLink, ConsumeNothing, StartTimer, BumpViews,
         SoftDelete, AccountFails, Send, SendFails
  <2>6. PlaceInv(r)'
    <3> USE <2>2, <2>3, <2>4
    <3>1. CASE Start(r) \/ LoadImage(r) \/ ResolveLink(r) \/ CheckReplay(r)
      <4>1. /\ req[r].pc \in Unpaid
            /\ req'[r].pc \in {"reading", "log", "done"}
            /\ paid' = paid /\ served' = served
        BY <3>1 DEF Start, LoadImage, ResolveLink, CheckReplay, TypeOK, RequestState
      <4>2. QED
        BY <4>1 DEF PlaceInv
    <3>2. CASE Refuse(r) \/ LogRender(r) \/ RenderFails(r) \/ ConsumeNothing(r)
      <4>1. CASE LogRender(r)
        BY <4>1 DEF LogRender, Goto, TypeOK, RequestState, PlaceInv
      <4>2. CASE Refuse(r) \/ RenderFails(r) \/ ConsumeNothing(r)
        BY <4>2, GotoFrame DEF Refuse, RenderFails, ConsumeNothing, PlaceInv
      <4>3. QED
        BY <3>2, <4>1, <4>2
    <3>3. CASE Render(r)
      <4>1. /\ req[r].pc = "render" /\ paid' = paid /\ served' = served
            /\ req'[r].replay = req[r].replay
            /\ req'[r].pc = IF req[r].replay THEN "send"
                            ELSE IF linkOf(r) = NoLink THEN "timer" ELSE "consume"
        BY <3>3, GotoFrame DEF Render
      <4>2. QED
        BY <4>1 DEF PlaceInv, FirstUse, RequestState
    <3>4. CASE ConsumeLink(r)
      <4>1. /\ req[r].pc = "consume" /\ req'[r].pc = "timer"
            /\ paid' = paid \cup {r} /\ served' = served
        BY <3>4, GotoFrame DEF ConsumeLink
      <4>2. QED
        BY <4>1 DEF PlaceInv
    <3>5. CASE StartTimer(r) \/ SoftDelete(r) \/ AccountFails(r)
      <4>1. /\ req[r].pc \in Accounting /\ req'[r].pc \in Accounting \cup {"send"}
            /\ req'[r].replay = req[r].replay
            /\ paid' = paid /\ served' = served
        BY <3>5, GotoFrame DEF StartTimer, SoftDelete, AccountFails
      <4>2. QED
        BY <4>1 DEF PlaceInv, FirstUse
    <3>6. CASE BumpViews(r)
      <4>1. /\ req[r].pc \in Accounting /\ req'[r].pc \in {"limit", "send"}
            /\ req'[r].replay = req[r].replay
            /\ paid' = paid /\ served' = served
        BY <3>6 DEF BumpViews, TypeOK, RequestState
      <4>2. QED
        BY <4>1 DEF PlaceInv, FirstUse
    <3>7. CASE Send(r) \/ SendFails(r)
      <4>1. /\ req[r].pc = "send" /\ req'[r].pc = "done"
            /\ req'[r].replay = req[r].replay
            /\ paid' = paid /\ served' \subseteq served \cup {r}
        BY <3>7, GotoFrame DEF Send, SendFails
      <4>2. QED
        BY <4>1 DEF PlaceInv, FirstUse
    <3>8. QED
      BY <1>1, <3>1, <3>2, <3>3, <3>4, <3>5, <3>6, <3>7 DEF Step
  <2>7. QED
    BY <2>1, <2>5, <2>6, OthersKeepPlace DEF ControlInv
<1>2. CASE Restart
  <2> SUFFICES ASSUME NEW q \in Requests PROVE PlaceInv(q)'
    BY DEF ControlInv
  <2>1. PlaceInv(q)
    BY DEF ControlInv
  <2>2. /\ req'[q].via = req[q].via /\ req'[q].replay = req[q].replay
        /\ req'[q].pc \in {req[q].pc, "done"}
        /\ paid' = paid /\ served' = served
    BY <1>2 DEF Restart, TypeOK, RequestState
  <2>3. req'[q].pc = req[q].pc \/ req'[q].pc = "done"
    BY <2>2
  <2>4. QED
    BY <2>1, <2>2, <2>3 DEF PlaceInv, FirstUse, linkOf
<1>3. CASE UNCHANGED <<req, paid, served>>
  BY <1>3 DEF ControlInv, PlaceInv, FirstUse, linkOf
<1>4. QED
  BY <1>1, <1>2, <1>3
     DEF Next, vars, Beacon, RevokeLink, DeleteImage, Maintenance, Tick

\* Where a handler is tells whether it holds a use and whether it has answered.
THEOREM ControlHolds == Spec => []ControlInv
<1>1. Spec => [](TypeOK /\ ControlInv)
  BY TypeCorrect, ControlInit, ControlStep, PTL DEF Spec
<1>2. QED
  BY <1>1, PTL

LEMMA UsesInit == Init => UsesInv
<1> SUFFICES ASSUME Init, NEW l \in Links
             PROVE  /\ IsFiniteSet(Users(l))
                    /\ useCount[l] = Cardinality(Users(l))
                    /\ MaxUses[l] # 0 => useCount[l] <= MaxUses[l]
  BY DEF UsesInv, UsesBounded
<1>1. Users(l) = {} /\ useCount[l] = 0
  BY DEF Init, Users
<1>2. MaxUses[l] \in Nat
  BY ConstantsAssumption
<1>3. QED
  BY <1>1, <1>2, FS_EmptySet

\* Only consumeLink touches the counter or the set of requests that hold a use.
LEMMA UsesUntouched ==
  ASSUME TypeOK, [Next]_vars, ~(\E r \in Requests : ConsumeLink(r))
  PROVE  useCount' = useCount /\ paid' = paid
BY DEF Next, vars, Step, Start, LoadImage, ResolveLink, Refuse, CheckReplay, LogRender,
       RenderFails, Render, ConsumeNothing, StartTimer, BumpViews, SoftDelete,
       AccountFails, Send, SendFails, Beacon, RevokeLink, DeleteImage, Maintenance,
       Restart, Tick

\* The requests that hold a use of a link change as the set paid does.
LEMMA UsersChange ==
  ASSUME TypeOK, [Next]_vars, NEW l \in Links
  PROVE  Users(l)' = {r \in paid' : linkOf(r) = l}
<1>1. paid' \subseteq Requests
  <2>1. CASE \E r \in Requests : ConsumeLink(r)
    BY <2>1 DEF ConsumeLink, TypeOK
  <2>2. CASE ~(\E r \in Requests : ConsumeLink(r))
    BY <2>2, UsesUntouched DEF TypeOK
  <2>3. QED
    BY <2>1, <2>2
<1>2. QED
  BY <1>1, LinksFixed DEF Users

\* ConsumeLink(r) adds r, which held nothing, to the users of its own link.
LEMMA ConsumeUsers ==
  ASSUME TypeOK, ControlInv, NEW r \in Requests, ConsumeLink(r)
  PROVE  /\ linkOf(r) \in Links
         /\ \A l \in Links :
              /\ r \notin Users(l)
              /\ Users(l)' = IF l = linkOf(r) THEN Users(l) \cup {r} ELSE Users(l)
<1>1. [Next]_vars
  BY DEF Next, Step
<1>2. linkOf(r) \in Links
  <2>1. linkOf(r) # NoLink
    BY DEF ControlInv, PlaceInv, ConsumeLink
  <2>2. QED
    BY <2>1 DEF TypeOK, RequestState, linkOf
<1>3. r \notin paid
  BY DEF ControlInv, PlaceInv, ConsumeLink, Unpaid
<1>4. paid' = paid \cup {r}
  BY DEF ConsumeLink
<1>5. ASSUME NEW l \in Links PROVE Users(l)' = {q \in paid \cup {r} : linkOf(q) = l}
  BY <1>1, <1>4, UsersChange
<1>6. QED
  BY <1>2, <1>3, <1>5 DEF Users

LEMMA UsesStep ==
  ASSUME TypeOK, ControlInv, UsesInv, [Next]_vars
  PROVE  UsesInv'
<1> SUFFICES ASSUME NEW l \in Links
             PROVE  /\ IsFiniteSet(Users(l)')
                    /\ useCount'[l] = Cardinality(Users(l)')
                    /\ MaxUses[l] # 0 => useCount'[l] <= MaxUses[l]
  BY DEF UsesInv, UsesBounded
<1>1. /\ IsFiniteSet(Users(l))
      /\ useCount[l] = Cardinality(Users(l))
      /\ MaxUses[l] # 0 => useCount[l] <= MaxUses[l]
  BY DEF UsesInv, UsesBounded
<1>2. ASSUME NEW r \in Requests, ConsumeLink(r), linkOf(r) = l
      PROVE  /\ IsFiniteSet(Users(l)')
             /\ useCount'[l] = Cardinality(Users(l)')
             /\ MaxUses[l] # 0 => useCount'[l] <= MaxUses[l]
  <2>1. r \notin Users(l) /\ Users(l)' = Users(l) \cup {r}
    BY <1>2, ConsumeUsers
  <2>2. IsFiniteSet(Users(l)') /\ Cardinality(Users(l)') = Cardinality(Users(l)) + 1
    BY <1>1, <2>1, FS_AddElement
  <2>3. useCount'[l] = useCount[l] + 1
    BY <1>2 DEF ConsumeLink, TypeOK
  <2>4. MaxUses[l] = 0 \/ useCount[l] < MaxUses[l]
    BY <1>2 DEF ConsumeLink, CanConsume
  <2>5. MaxUses[l] \in Nat /\ useCount[l] \in Nat
    BY ConstantsAssumption DEF TypeOK
  <2>6. QED
    BY <1>1, <2>2, <2>3, <2>4, <2>5
<1>3. ASSUME NEW r \in Requests, ConsumeLink(r), linkOf(r) # l
      PROVE  Users(l)' = Users(l) /\ useCount'[l] = useCount[l]
  BY <1>3, ConsumeUsers DEF ConsumeLink, TypeOK
<1>4. CASE ~(\E r \in Requests : ConsumeLink(r))
  <2>1. useCount' = useCount /\ paid' = paid
    BY <1>4, UsesUntouched
  <2>2. Users(l)' = Users(l)
    BY <2>1, UsersChange DEF Users
  <2>3. QED
    BY <1>1, <2>1, <2>2
<1>5. QED
  BY <1>1, <1>2, <1>3, <1>4

LEMMA UsesHold == Spec => []UsesInv
<1>1. Spec => [](TypeOK /\ ControlInv /\ UsesInv)
  BY TypeCorrect, ControlHolds, UsesInit, UsesStep, PTL DEF Spec
<1>2. QED
  BY <1>1, PTL

\* use_count is the number of requests that took a use, and never passes
\* max_uses, however many requests race for the link.
THEOREM LinkUsesBounded == Spec => []UsesBounded
BY UsesHold, PTL DEF UsesInv

\* A limited link makes at most max_uses first deliveries, each to a request
\* that took a use itself.
THEOREM LinkDeliveriesBounded == Spec => []DeliveriesWithinUses
<1>1. TypeOK /\ ControlInv /\ UsesInv => DeliveriesWithinUses
  <2> SUFFICES ASSUME TypeOK, ControlInv, UsesInv, NEW l \in Links
               PROVE  /\ FirstDeliveries(l) \subseteq Users(l)
                      /\ MaxUses[l] # 0 => Cardinality(FirstDeliveries(l)) <= MaxUses[l]
    BY DEF DeliveriesWithinUses
  <2>1. FirstDeliveries(l) \subseteq Users(l)
    BY ConstantsAssumption
       DEF FirstDeliveries, Users, ControlInv, PlaceInv, FirstUse, TypeOK
  <2>2. /\ IsFiniteSet(Users(l))
        /\ useCount[l] = Cardinality(Users(l))
        /\ MaxUses[l] # 0 => useCount[l] <= MaxUses[l]
    BY DEF UsesInv, UsesBounded
  <2>3. Cardinality(FirstDeliveries(l)) <= Cardinality(Users(l))
    BY <2>1, <2>2, FS_Subset
  <2>4. /\ Cardinality(FirstDeliveries(l)) \in Nat
        /\ Cardinality(Users(l)) \in Nat /\ MaxUses[l] \in Nat
    BY <2>1, <2>2, FS_Subset, FS_CardinalityType, ConstantsAssumption
  <2>5. QED
    BY <2>1, <2>2, <2>3, <2>4
<1>2. QED
  BY <1>1, TypeCorrect, ControlHolds, UsesHold, PTL

\* Each first delivery of a link is charged exactly once, and max_uses holds.
THEOREM LinkUsesAlwaysHeld == Spec => []LinkUsesHeld
<1>1. TypeOK /\ UsesBounded /\ DeliveriesWithinUses => LinkUsesHeld
  BY DEF LinkUsesHeld
<1>2. QED
  BY <1>1, TypeCorrect, LinkUsesBounded, LinkDeliveriesBounded, PTL
-------------------------------------------------------------------------------
(***************************************************************************)
(* The pipeline implements the link ledger: consumeLink is a Grant, the    *)
(* answer to a first delivery is a Deliver, a revocation is a Revoke, and  *)
(* every other step of every actor is a stutter.                           *)
(***************************************************************************)
LEMMA FirstDeliveriesChange ==
  ASSUME TypeOK, ControlInv, [Next]_vars, NEW l \in Links,
         \A q \in served : req'[q].replay = req[q].replay
  PROVE  {q \in served : ~req'[q].replay /\ linkOf(q)' = l} = FirstDeliveries(l)
BY LinksFixed DEF FirstDeliveries, TypeOK

\* Nothing is decided about a request once it has been answered.
LEMMA AnsweredFixed ==
  ASSUME TypeOK, ControlInv, [Next]_vars
  PROVE  \A q \in served : req'[q].replay = req[q].replay
<1> SUFFICES ASSUME NEW q \in served PROVE req'[q].replay = req[q].replay
  OBVIOUS
<1>1. q \in Requests /\ req[q].pc = "done"
  BY DEF TypeOK, ControlInv, PlaceInv
<1>2. ASSUME NEW r \in Requests, Start(r) \/ Step(r)
      PROVE  req'[q] = req[q]
  <2>1. req[r].pc # "done"
    BY <1>2 DEF Start, Step, LoadImage, ResolveLink, Refuse, CheckReplay, LogRender,
         RenderFails, Render, ConsumeLink, ConsumeNothing, StartTimer, BumpViews,
         SoftDelete, AccountFails, Accounting, Send, SendFails
  <2>2. QED
    BY <1>1, <1>2, <2>1, StepFrame DEF Frame
<1>3. CASE Restart
  BY <1>1, <1>3 DEF Restart, TypeOK, RequestState
<1>4. CASE UNCHANGED req
  BY <1>4
<1>5. QED
  BY <1>2, <1>3, <1>4
     DEF Next, vars, Beacon, RevokeLink, DeleteImage, Maintenance, Tick

\* The ledger's copy of Cardinality is the library's.
LEMMA LedgerCardinality == \A S : Ledger!Cardinality(S) = Cardinality(S)
BY Zenon DEF Ledger!Cardinality, Cardinality

LEMMA LedgerInit == Init => Ledger!Init
BY DEF Init, Ledger!Init, Users, FirstDeliveries

LEMMA LedgerStep ==
  ASSUME TypeOK, ControlInv, UsesInv, [Next]_vars
  PROVE  [Ledger!Next]_(Ledger!vars)
<1> DEFINE Granted == [l \in Links |-> Users(l)]
           Delivered == [l \in Links |-> FirstDeliveries(l)]
<1>a. /\ Granted' = [l \in Links |-> {q \in paid' : linkOf(q) = l}]
      /\ Delivered' = [l \in Links |-> {q \in served' : ~req'[q].replay /\ linkOf(q)' = l}]
  BY UsersChange DEF FirstDeliveries
<1>b. /\ paid' = paid => Granted' = Granted
      /\ served' = served => Delivered' = Delivered
  BY <1>a, AnsweredFixed, FirstDeliveriesChange DEF Users
<1>1. ASSUME NEW r \in Requests, ConsumeLink(r)
      PROVE  Ledger!Grant(linkOf(r), r) /\ linkOf(r) \in Links
  <2>1. linkOf(r) \in Links /\ r \notin Users(linkOf(r))
    BY <1>1, ConsumeUsers
  <2>2. ~revoked[linkOf(r)] /\ revoked' = revoked /\ served' = served
    BY <1>1 DEF ConsumeLink, CanConsume
  <2>3. MaxUses[linkOf(r)] # 0 => Cardinality(Users(linkOf(r))) < MaxUses[linkOf(r)]
    BY <1>1, <2>1 DEF ConsumeLink, CanConsume, UsesInv, UsesBounded
  <2>4. Granted' = [Granted EXCEPT ![linkOf(r)] = @ \cup {r}]
    <3>1. \A l \in Links : Users(l)' =
            IF l = linkOf(r) THEN Users(l) \cup {r} ELSE Users(l)
      BY <1>1, ConsumeUsers
    <3>2. QED
      BY <2>1, <3>1
  <2>5. QED
    BY <1>b, <2>1, <2>2, <2>3, <2>4, LedgerCardinality DEF Ledger!Grant
<1>2. ASSUME NEW r \in Requests, Send(r), FirstUse(r)
      PROVE  Ledger!Deliver(linkOf(r), r) /\ linkOf(r) \in Links
  <2>1. linkOf(r) \in Links
    BY <1>2 DEF FirstUse, linkOf, TypeOK, RequestState
  <2>2. r \in Users(linkOf(r)) \ FirstDeliveries(linkOf(r))
    BY <1>2 DEF Send, ControlInv, PlaceInv, Users, FirstDeliveries
  <2>3. paid' = paid /\ revoked' = revoked /\ served' = served \cup {r}
    BY <1>2 DEF Send
  <2>4. \A q \in served \cup {r} :
          req'[q].replay = req[q].replay /\ linkOf(q)' = linkOf(q)
    BY <1>2, AnsweredFixed, LinksFixed, GotoFrame DEF Send, TypeOK
  <2>5. Delivered' = [Delivered EXCEPT ![linkOf(r)] = @ \cup {r}]
    <3>1. \A l \in Links :
            {q \in served \cup {r} : ~req'[q].replay /\ linkOf(q)' = l} =
              IF l = linkOf(r) THEN FirstDeliveries(l) \cup {r} ELSE FirstDeliveries(l)
      BY <1>2, <2>4 DEF FirstDeliveries, FirstUse
    <3>2. QED
      BY <1>a, <2>1, <2>3, <3>1
  <2>6. QED
    BY <1>b, <2>1, <2>2, <2>3, <2>5 DEF Ledger!Deliver
<1>3. ASSUME NEW r \in Requests, Send(r), ~FirstUse(r)
      PROVE  UNCHANGED Ledger!vars
  <2>1. paid' = paid /\ revoked' = revoked /\ served' = served \cup {r}
    BY <1>3 DEF Send
  <2>2. \A q \in served \cup {r} :
          req'[q].replay = req[q].replay /\ linkOf(q)' = linkOf(q)
    BY <1>3, AnsweredFixed, LinksFixed, GotoFrame DEF Send, TypeOK
  <2>3. \A l \in Links :
          {q \in served \cup {r} : ~req'[q].replay /\ linkOf(q)' = l} = FirstDeliveries(l)
    BY <1>3, <2>2, ConstantsAssumption DEF FirstDeliveries, FirstUse
  <2>4. Delivered' = Delivered
    BY <1>a, <2>1, <2>3
  <2>5. QED
    BY <1>b, <2>1, <2>4 DEF Ledger!vars
<1>4. ASSUME NEW l \in Links, RevokeLink(l)
      PROVE  Ledger!Revoke(l)
  BY <1>4, <1>b DEF RevokeLink, Ledger!Revoke
<1>5. CASE UNCHANGED <<paid, served, revoked>>
  BY <1>5, <1>b DEF Ledger!vars
<1>6. \/ \E r \in Requests : ConsumeLink(r) \/ Send(r)
      \/ \E l \in Links : RevokeLink(l)
      \/ UNCHANGED <<paid, served, revoked>>
  BY DEF Next, vars, Step, Start, LoadImage, ResolveLink, Refuse, CheckReplay, LogRender,
       RenderFails, Render, ConsumeNothing, StartTimer, BumpViews, SoftDelete,
       AccountFails, SendFails, Beacon, DeleteImage, Maintenance, Restart, Tick
<1>7. QED
  BY <1>1, <1>2, <1>3, <1>4, <1>5, <1>6 DEF Ledger!Next

\* Every behaviour of the render pipeline is a behaviour of the link ledger.
THEOREM PipelineImplementsLedger == Spec => ImplementsLedger
<1>1. Init => Ledger!Init
  BY LedgerInit
<1>2. QED
  BY <1>1, LedgerStep, TypeCorrect, ControlHolds, UsesHold, PTL
     DEF Spec, ImplementsLedger, Ledger!Spec
-------------------------------------------------------------------------------
(***************************************************************************)
(* Closing.  A deleted or expired image stays closed, because the only     *)
(* step that moves expires_at runs while no expiry is set; and a request   *)
(* made after the closing meets it at its first look.                      *)
(***************************************************************************)
Closed == image.deleted \/ Expired

\* A first-view timer that has not started has set no expiry.
TimerInv ==
  image.timerStart = "first_view" /\ image.firstViewed = 0 => image.expires = 0

\* 0 stands for NULL, so the clock never shows it.
ClockInv == now # 0

LateOf(r) ==
  /\ req[r].pc = "idle" => r \notin served /\ ~req[r].loaded
  /\ req[r].late =>
       /\ r \notin served
       /\ req[r].pc \in {"reading", "done"}
       /\ req[r].pc = "reading" =>
            \/ Closed /\ ~req[r].loaded
            \/ linkOf(r) # NoLink /\ revoked[linkOf(r)] /\ req[r].link = "unread"

LateInv == \A r \in Requests : LateOf(r)

\* What any step may do to the images row.
LEMMA ImageSteps ==
  ASSUME TypeOK, [Next]_vars
  PROVE  \/ image' = image
         \/ image' = [image EXCEPT !.deleted = TRUE]
         \/ image' = [image EXCEPT !.views = @ + 1]
         \/ /\ image.timerStart = "first_view" /\ image.firstViewed = 0
            /\ image' = [image EXCEPT !.firstViewed = now, !.expires = now + Ttl]
            /\ now' = now
BY DEF Next, vars, Step, Start, LoadImage, ResolveLink, Refuse, CheckReplay, LogRender,
       RenderFails, Render, ConsumeLink, ConsumeNothing, StartTimer, Timed, BumpViews,
       SoftDelete, AccountFails, Send, SendFails, Beacon, RevokeLink, DeleteImage,
       Maintenance, Restart, Tick

\* first_viewed_at and expires_at are written at most once after the upload.
THEOREM TimerStartsOnceHolds == Spec => TimerStartsOnce
<1>1. TypeOK /\ [Next]_vars =>
        [image.firstViewed # 0 =>
           image'.firstViewed = image.firstViewed /\ image'.expires = image.expires]_vars
  <2> SUFFICES ASSUME TypeOK, [Next]_vars, image.firstViewed # 0
               PROVE  image'.firstViewed = image.firstViewed /\ image'.expires = image.expires
    OBVIOUS
  <2>1. image \in ImageRow
    BY DEF TypeOK
  <2>2. QED
    BY <2>1, ImageSteps DEF ImageRow
<1>2. QED
  BY <1>1, TypeCorrect, PTL DEF Spec, TimerStartsOnce

LEMMA ClosedStays ==
  ASSUME TypeOK, TimerInv, ClockInv, [Next]_vars
  PROVE  /\ TimerInv' /\ ClockInv'
         /\ Closed => Closed'
         /\ \A l \in Links : revoked[l] => revoked'[l]
<1>1. image \in ImageRow /\ now \in Nat /\ Ttl \in Nat
  BY ConstantsAssumption DEF TypeOK
<1>2. now' = now \/ (now' = now + 1 /\ image' = image)
  BY DEF Next, vars, Step, Start, LoadImage, ResolveLink, Refuse, CheckReplay, LogRender,
       RenderFails, Render, ConsumeLink, ConsumeNothing, StartTimer, BumpViews, SoftDelete,
       AccountFails, Send, SendFails, Beacon, RevokeLink, DeleteImage, Maintenance,
       Restart, Tick
<1>c. ClockInv'
  BY <1>1, <1>2 DEF ClockInv
<1>3. \A l \in Links : revoked[l] => revoked'[l]
  BY DEF TypeOK, Next, vars, Step, Start, LoadImage, ResolveLink, Refuse, CheckReplay,
       LogRender, RenderFails, Render, ConsumeLink, ConsumeNothing, StartTimer, BumpViews,
       SoftDelete, AccountFails, Send, SendFails, Beacon, RevokeLink, DeleteImage,
       Maintenance, Restart, Tick
<1>4. CASE image' = image
  BY <1>1, <1>2, <1>3, <1>c, <1>4 DEF TimerInv, Closed, Expired, ImageRow
<1>5. CASE image' = [image EXCEPT !.deleted = TRUE]
  <2>1. /\ image'.deleted /\ image'.expires = image.expires
        /\ image'.timerStart = image.timerStart /\ image'.firstViewed = image.firstViewed
    BY <1>1, <1>5 DEF ImageRow
  <2>2. QED
    BY <1>3, <1>c, <2>1 DEF TimerInv, Closed
<1>6. CASE image' = [image EXCEPT !.views = @ + 1]
  <2>1. /\ image'.deleted = image.deleted /\ image'.expires = image.expires
        /\ image'.timerStart = image.timerStart /\ image'.firstViewed = image.firstViewed
    BY <1>1, <1>6 DEF ImageRow
  <2>2. image.expires \in Nat
    BY <1>1 DEF ImageRow
  <2>3. QED
    BY <1>1, <1>2, <1>3, <1>c, <2>1, <2>2 DEF TimerInv, Closed, Expired
<1>7. CASE /\ image.timerStart = "first_view" /\ image.firstViewed = 0
           /\ image' = [image EXCEPT !.firstViewed = now, !.expires = now + Ttl]
           /\ now' = now
  <2>1. image.expires = 0
    BY <1>7 DEF TimerInv
  <2>2. /\ image'.deleted = image.deleted /\ image'.firstViewed = now
        /\ image'.timerStart = image.timerStart /\ image'.expires = now + Ttl
    BY <1>1, <1>7 DEF ImageRow
  <2>3. now # 0
    BY DEF ClockInv
  <2>4. QED
    BY <1>1, <1>3, <1>c, <2>1, <2>2, <2>3 DEF TimerInv, Closed, Expired
<1>8. QED
  BY <1>4, <1>5, <1>6, <1>7, ImageSteps

LEMMA LateInit == Init => TimerInv /\ ClockInv /\ LateInv
BY ConstantsAssumption DEF Init, TimerInv, ClockInv, LateInv, LateOf, Fresh

LEMMA LateStep ==
  ASSUME TypeOK, TimerInv, ClockInv, LateInv, [Next]_vars
  PROVE  LateInv'
<1> SUFFICES ASSUME NEW q \in Requests PROVE LateOf(q)'
  BY DEF LateInv
<1>1. LateOf(q) /\ req[q] \in RequestState
  BY DEF LateInv, TypeOK
<1>2. linkOf(q)' = linkOf(q)
  BY LinksFixed
<1>3. linkOf(q) # NoLink => linkOf(q) \in Links
  BY <1>1 DEF linkOf, RequestState
<1>4. /\ Closed => Closed'
      /\ linkOf(q) # NoLink /\ revoked[linkOf(q)] => revoked'[linkOf(q)]
  BY <1>3, ClosedStays
\* Steps that leave q where it is.
<1>5. ASSUME req'[q] = req[q], q \in served' => q \in served
      PROVE  LateOf(q)'
  BY <1>1, <1>2, <1>4, <1>5 DEF LateOf
<1>6. ASSUME NEW r \in Requests, r # q, Start(r) \/ Step(r)
      PROVE  LateOf(q)'
  <2>1. req'[q] = req[q]
    BY <1>6, StepFrame DEF Frame
  <2>2. served' = served \/ served' = served \cup {r}
    BY <1>6 DEF Start, Step, LoadImage, ResolveLink, Refuse, CheckReplay, LogRender,
         RenderFails, Render, ConsumeLink, ConsumeNothing, StartTimer, BumpViews,
         SoftDelete, AccountFails, Send, SendFails
  <2>3. QED
    BY <1>5, <1>6, <2>1, <2>2
\* The steps of q itself: a request that begins late has not read anything.
<1>7. CASE Start(q)
  <2>1. /\ req[q].pc = "idle" /\ served' = served
        /\ req'[q].pc = "reading" /\ req'[q].loaded = req[q].loaded
        /\ req'[q].link = IF linkOf(q) = NoLink THEN "usable" ELSE "unread"
        /\ req'[q].late = \/ image.deleted \/ Expired
                          \/ linkOf(q) # NoLink /\ revoked[linkOf(q)]
    BY <1>1, <1>7 DEF Start, TypeOK, RequestState
  <2>2. q \notin served /\ ~req[q].loaded
    BY <1>1, <2>1 DEF LateOf
  <2>3. req'[q].late => Closed \/ (linkOf(q) # NoLink /\ revoked[linkOf(q)])
    BY <2>1 DEF Closed
  <2>4. QED
    BY <1>2, <1>4, <2>1, <2>2, <2>3 DEF LateOf
<1>8. CASE LoadImage(q)
  <2>1. /\ req[q].pc = "reading" /\ served' = served
        /\ req'[q].late = req[q].late /\ req'[q].link = req[q].link
        /\ req'[q].pc = IF Closed THEN "done" ELSE "reading"
    BY <1>1, <1>8 DEF LoadImage, Live, Closed, TypeOK, RequestState
  <2>2. QED
    BY <1>1, <1>2, <1>4, <2>1 DEF LateOf
<1>9. CASE ResolveLink(q)
  <2>1. /\ req[q].pc = "reading" /\ served' = served
        /\ req'[q].late = req[q].late /\ req'[q].loaded = req[q].loaded
        /\ req'[q].pc = IF revoked[linkOf(q)] THEN "done" ELSE "reading"
    BY <1>1, <1>9 DEF ResolveLink, TypeOK, RequestState
  <2>2. QED
    BY <1>1, <1>2, <1>4, <2>1 DEF LateOf
<1>10. CASE CheckReplay(q)
  <2>1. /\ req[q].pc = "reading" /\ req[q].loaded /\ req[q].link # "unread"
        /\ served' = served
        /\ req'[q].late = req[q].late /\ req'[q].pc \in {"done", "log"}
    BY <1>1, <1>10 DEF CheckReplay, TypeOK, RequestState
  <2>2. ~req[q].late
    BY <1>1, <2>1 DEF LateOf
  <2>3. QED
    BY <2>1, <2>2 DEF LateOf
<1>11. CASE Refuse(q)
  <2>1. /\ req[q].pc = "reading" /\ served' = served
        /\ req'[q].pc = "done" /\ req'[q].late = req[q].late
    BY <1>1, <1>11 DEF Refuse, Goto, TypeOK, RequestState
  <2>2. QED
    BY <1>1, <2>1 DEF LateOf
<1>12. CASE req[q].pc \notin {"idle", "reading", "done"} /\ Step(q)
  <2>1. req'[q].late = req[q].late /\ req'[q].pc # "idle"
    BY <1>1, <1>12
       DEF Step, LoadImage, ResolveLink, Refuse, CheckReplay, LogRender, RenderFails, Render,
           ConsumeLink, ConsumeNothing, StartTimer, BumpViews, SoftDelete, AccountFails,
           Send, SendFails, Goto, TypeOK, RequestState
  <2>2. ~req[q].late
    BY <1>1, <1>12 DEF LateOf
  <2>3. QED
    BY <2>1, <2>2 DEF LateOf
<1>13. CASE Restart
  <2>1. /\ served' = served /\ req'[q].late = req[q].late
        /\ req'[q] = req[q] \/ req'[q].pc = "done"
    BY <1>1, <1>13 DEF Restart, TypeOK, RequestState
  <2>2. CASE req'[q] = req[q]
    BY <1>5, <2>1, <2>2
  <2>3. CASE req'[q].pc = "done"
    BY <1>1, <2>1, <2>3 DEF LateOf
  <2>4. QED
    BY <2>1, <2>2, <2>3
<1>14. CASE UNCHANGED <<req, served>>
  BY <1>5, <1>14
<1>15. Step(q) => \/ LoadImage(q) \/ ResolveLink(q) \/ CheckReplay(q) \/ Refuse(q)
                 \/ req[q].pc \notin {"idle", "reading", "done"}
  BY DEF Step, LogRender, RenderFails, Render, ConsumeLink, ConsumeNothing, StartTimer,
         BumpViews, SoftDelete, AccountFails, Accounting, Send, SendFails
<1>16. CASE Start(q) \/ Step(q)
  BY <1>7, <1>8, <1>9, <1>10, <1>11, <1>12, <1>15, <1>16
<1>17. QED
  BY <1>6, <1>13, <1>14, <1>16 DEF Next, vars, Beacon, RevokeLink, DeleteImage, Maintenance, Tick

\* Nobody who arrives after the image closed, or after the link was revoked,
\* is sent the bytes.
THEOREM LateStartersRefused == Spec => []LateStarterRefused
<1>1. TypeOK /\ TimerInv /\ ClockInv /\ LateInv => LateStarterRefused
  BY DEF TypeOK, LateInv, LateOf, LateStarterRefused
<1>2. TypeOK /\ TimerInv /\ ClockInv /\ LateInv /\ [Next]_vars
        => TimerInv' /\ ClockInv' /\ LateInv'
  BY ClosedStays, LateStep
<1>3. QED
  BY <1>1, <1>2, LateInit, TypeCorrect, PTL DEF Spec
-------------------------------------------------------------------------------
(***************************************************************************)
(* Replays.  What excuses a replay is a row that a render has written; who *)
(* wrote it first was not excused itself, and had read a usable link.      *)
(***************************************************************************)
\* A handler that wrote a row in its own right.
Original(q) == req[q].logged /\ ~req[q].replay /\ req[q].link = "usable"

\* What a handler's place says of its own right: nothing is decided before the check,
\* and past it whoever is no replay has a link that could be used.
ReadInv(r) ==
  /\ req[r].pc \in {"idle", "reading"} => ~req[r].logged /\ ~req[r].replay
  /\ req[r].pc = "log" /\ ~req[r].replay => req[r].link = "usable"

\* A row that excuses a replay goes back to a handler that wrote one in its own right.
RenderedInv ==
  /\ \A r \in Requests : ReadInv(r)
  /\ \A v \in Views : rows[v] = "render" => \E q \in Requests : req[q].view = v /\ Original(q)
  /\ ReplayWasRendered

\* What a step of r does to r, as far as the replays are concerned.
LEMMA ReadSteps ==
  ASSUME TypeOK, NEW r \in Requests, Start(r) \/ Step(r)
  PROVE  \/ /\ req[r].pc \in {"idle", "reading"}
            /\ req'[r].pc \in {"reading", "done"}
            /\ req'[r].replay = req[r].replay /\ req'[r].logged = req[r].logged
            /\ rows' = rows
         \/ /\ req[r].pc = "reading" /\ req'[r].pc = "log"
            /\ req'[r].replay = ExistingView(req[r].view)
            /\ ~req'[r].replay => req'[r].link = "usable"
            /\ req'[r].logged = req[r].logged
            /\ rows' = rows
         \/ /\ req[r].pc \notin {"idle", "reading"}
            /\ req'[r].pc \notin {"idle", "reading", "log"}
            /\ req'[r].link = req[r].link /\ req'[r].replay = req[r].replay
            /\ \/ rows' = rows /\ req'[r].logged = req[r].logged
               \/ /\ req[r].pc = "log" /\ req'[r].logged
                  /\ rows' = [rows EXCEPT ![req[r].view] = "render"]
<1> USE DEF TypeOK, RequestState
<1>1. CASE Start(r) \/ LoadImage(r) \/ ResolveLink(r)
  BY <1>1 DEF Start, LoadImage, ResolveLink
<1>2. CASE CheckReplay(r)
  BY <1>2 DEF CheckReplay
<1>3. CASE BumpViews(r)
  BY <1>3 DEF BumpViews
<1>4. CASE Refuse(r)
  BY <1>4 DEF Refuse, Goto
<1>5. CASE LogRender(r)
  BY <1>5 DEF LogRender, Goto
<1>6. CASE RenderFails(r) \/ Render(r) \/ ConsumeLink(r) \/ ConsumeNothing(r)
  BY <1>6 DEF RenderFails, Render, ConsumeLink, ConsumeNothing, Goto
<1>7. CASE StartTimer(r) \/ SoftDelete(r) \/ AccountFails(r) \/ Send(r) \/ SendFails(r)
  BY <1>7 DEF StartTimer, SoftDelete, AccountFails, Accounting, Send, SendFails, Goto
<1>8. QED
  BY <1>1, <1>2, <1>3, <1>4, <1>5, <1>6, <1>7 DEF Step

\* Whoever wrote a row in its own right stays so, with the view id it came with.
LEMMA OriginalStays ==
  ASSUME TypeOK, RenderedInv, [Next]_vars
  PROVE  \A q \in Requests : req'[q].view = req[q].view /\ (Original(q) => Original(q)')
<1>1. ASSUME NEW r \in Requests, Start(r) \/ Step(r), NEW q \in Requests
      PROVE  req'[q].view = req[q].view /\ (Original(q) => Original(q)')
  <2>1. Frame(r) /\ ReadInv(r)
    BY <1>1, StepFrame DEF RenderedInv
  <2>2. CASE q = r
    BY <1>1, <2>1, <2>2, ReadSteps DEF Original, ReadInv, Frame
  <2>3. CASE q # r
    BY <2>1, <2>3 DEF Original, Frame
  <2>4. QED
    BY <2>2, <2>3
<1>2. CASE Restart
  BY <1>2 DEF Restart, Original, TypeOK, RequestState
<1>3. CASE UNCHANGED req
  BY <1>3 DEF Original
<1>4. QED
  BY <1>1, <1>2, <1>3 DEF Next, vars, Beacon, RevokeLink, DeleteImage, Maintenance, Tick

LEMMA RenderedStep ==
  ASSUME TypeOK, RenderedInv, [Next]_vars
  PROVE  RenderedInv'
<1> DEFINE Authored(v) == \E q \in Requests : req[q].view = v /\ Original(q)
           AuthoredNext(v) == \E q \in Requests : req'[q].view = v /\ Original(q)'
<1>0. SUFFICES /\ \A r \in Requests : ReadInv(r)'
               /\ \A v \in Views : rows'[v] = "render" => AuthoredNext(v)
               /\ \A r \in Requests : req'[r].replay => AuthoredNext(req[r].view)
  <2>1. \A r \in Requests : req'[r].view = req[r].view
    BY OriginalStays
  <2>2. QED
    BY <2>1 DEF RenderedInv, ReplayWasRendered, Original
<1>a. \A v \in Views : Authored(v) => AuthoredNext(v)
  BY OriginalStays
<1>b. /\ \A r \in Requests : ReadInv(r) /\ req[r].view \in Views
      /\ \A v \in Views : rows[v] = "render" => Authored(v)
      /\ \A r \in Requests : req[r].replay => Authored(req[r].view)
  BY DEF RenderedInv, ReplayWasRendered, Original, TypeOK, RequestState
<1> HIDE DEF Authored, AuthoredNext
<1>1. ASSUME NEW r \in Requests, Start(r) \/ Step(r)
      PROVE  /\ \A q \in Requests : ReadInv(q)'
             /\ \A v \in Views : rows'[v] = "render" => AuthoredNext(v)
             /\ \A q \in Requests : req'[q].replay => AuthoredNext(req[q].view)
  <2>1. \A q \in Requests \ {r} : req'[q] = req[q]
    BY <1>1, StepFrame DEF Frame
  <2>2. ReadInv(r)'
    BY <1>1, <1>b, ReadSteps DEF ReadInv
  <2>3. \A v \in Views : rows'[v] = "render" => AuthoredNext(v)
    <3>1. CASE rows' = rows
      BY <1>a, <1>b, <3>1
    <3>2. CASE /\ req[r].pc = "log" /\ req'[r].logged
               /\ rows' = [rows EXCEPT ![req[r].view] = "render"]
               /\ req'[r].link = req[r].link /\ req'[r].replay = req[r].replay
      <4>1. CASE req[r].replay
        BY <1>a, <1>b, <3>2, <4>1 DEF TypeOK
      <4>2. CASE ~req[r].replay
        <5>1. Original(r)' /\ req'[r].view = req[r].view
          BY <1>b, <3>2, <4>2, OriginalStays DEF ReadInv, Original
        <5>2. AuthoredNext(req[r].view)
          BY <5>1 DEF AuthoredNext
        <5>3. QED
          BY <1>a, <1>b, <3>2, <5>2 DEF TypeOK
      <4>3. QED
        BY <4>1, <4>2
    <3>3. QED
      BY <1>1, <3>1, <3>2, ReadSteps
  <2>4. req'[r].replay => AuthoredNext(req[r].view)
    <3>1. CASE req'[r].replay = req[r].replay
      BY <1>a, <1>b, <3>1
    <3>2. CASE req'[r].replay = ExistingView(req[r].view)
      BY <1>a, <1>b, <3>2 DEF ExistingView
    <3>3. QED
      BY <1>1, <3>1, <3>2, ReadSteps
  <2>5. QED
    BY <1>a, <1>b, <2>1, <2>2, <2>3, <2>4 DEF ReadInv
<1>2. CASE Restart
  <2>1. rows' = rows /\ \A q \in Requests :
          /\ req'[q].replay = req[q].replay /\ req'[q].logged = req[q].logged
          /\ req'[q].link = req[q].link /\ req'[q].pc \in {req[q].pc, "done"}
    BY <1>2 DEF Restart, TypeOK, RequestState
  <2>2. QED
    BY <1>a, <1>b, <2>1 DEF ReadInv
<1>3. CASE UNCHANGED <<req, rows>>
  BY <1>a, <1>b, <1>3 DEF ReadInv
<1>4. ASSUME NEW v \in Views, Beacon(v)
      PROVE  req' = req /\ \A w \in Views : rows'[w] = "render" => rows[w] = "render"
  BY <1>4 DEF Beacon, TypeOK
<1>5. CASE \E v \in Views : Beacon(v)
  BY <1>a, <1>b, <1>4, <1>5 DEF ReadInv
<1>6. QED
  BY <1>1, <1>2, <1>3, <1>5 DEF Next, vars, RevokeLink, DeleteImage, Maintenance, Tick

\* A request is excused as a replay only if another with the same view id wrote the row
\* in its own right, through a link that was not exhausted when it was read: replays
\* do not excuse each other, and the beacon excuses nobody (view.js:29, view.js:250).
THEOREM ReplaysWereRendered == Spec => []ReplayWasRendered
<1>1. Init => RenderedInv
  BY DEF Init, Fresh, RenderedInv, ReadInv, ReplayWasRendered
<1>2. RenderedInv => ReplayWasRendered
  BY DEF RenderedInv
<1>3. QED
  BY <1>1, <1>2, RenderedStep, TypeCorrect, PTL DEF Spec
-------------------------------------------------------------------------------
(***************************************************************************)
(* Accounting.  What a handler has still to do about the timer, the count  *)
(* and the limit is told by where it is; what it cannot do any more has    *)
(* been recorded as cut short.                                             *)
(***************************************************************************)
\* The image has a timer that the first view starts.
Needs == image.timerStart = "first_view" /\ Ttl # 0
Began == {r \in Requests : req[r].pc # "idle"}

\* Where a handler is tells what it knows of the timer, ...
TimedOf(r) ==
  /\ req[r].pc \notin {"idle", "reading", "done"} => req[r].loaded
  /\ req[r].loaded /\ ~req[r].untimed => image.firstViewed # 0
  /\ Needs /\ req[r].pc \in {"count", "limit"} => image.firstViewed # 0
  /\ Needs /\ (req[r].pc = "send" \/ r \in served) =>
       req[r].replay \/ r \in cut \/ image.firstViewed # 0

\* ... and whether its view has been counted.
CountedOf(r) ==
  /\ req[r].pc \in Unpaid \cup {"timer", "count"} => r \notin counted
  /\ req[r].pc = "limit" => r \in counted
  /\ req[r].pc = "send" \/ r \in served => req[r].replay \/ r \in counted \cup cut
  /\ r \in counted /\ MaxViews # 0 /\ req[r].seen >= MaxViews =>
       image.deleted \/ req[r].pc = "limit" \/ r \in cut

\* The count is that of the requests that have counted.
CountInv ==
  /\ IsFiniteSet(Began) /\ IsFiniteSet(counted)
  /\ counted \cup cut \subseteq Began
  /\ image.views = Cardinality(counted)

AccountedInv == (\A r \in Requests : TimedOf(r) /\ CountedOf(r)) /\ CountInv

\* What a step of r does, as far as its accounting is concerned.
Before(r) ==
  /\ req[r].pc \in Unpaid /\ req'[r].pc # "idle"
  /\ req'[r].pc \in Unpaid \cup {"done", "timer"} \/ (req'[r].replay /\ req'[r].pc = "send")
  /\ req'[r].pc \notin {"reading", "done"} => req'[r].loaded
  /\ \/ req'[r].loaded = req[r].loaded /\ req'[r].untimed = req[r].untimed
     \/ req'[r].untimed = (image.firstViewed = 0)
  /\ req'[r].seen = req[r].seen
  /\ UNCHANGED <<image, counted, served, cut>>
Onwards(r) ==
  /\ req'[r].loaded = req[r].loaded /\ req'[r].untimed = req[r].untimed
  /\ req'[r].replay = req[r].replay /\ req'[r].seen = req[r].seen

LEMMA AccountSteps ==
  ASSUME TypeOK, NEW r \in Requests, TimedOf(r), Start(r) \/ Step(r)
  PROVE  \/ Before(r)
         \/ StartTimer(r) /\ Onwards(r) /\ req'[r].pc = "count"
         \/ BumpViews(r)
         \/ SoftDelete(r) /\ Onwards(r) /\ req'[r].pc = "send"
         \/ AccountFails(r) /\ Onwards(r) /\ req'[r].pc = "send"
         \/ Send(r) /\ Onwards(r) /\ req'[r].pc = "done"
         \/ SendFails(r) /\ Onwards(r) /\ req'[r].pc = "done"
<1> USE DEF TypeOK, RequestState
<1>1. CASE Start(r) \/ LoadImage(r) \/ ResolveLink(r) \/ Refuse(r)
  <2>1. /\ req[r].pc \in {"idle", "reading"} /\ req'[r].pc \in {"reading", "done"}
        /\ req'[r].seen = req[r].seen
        /\ UNCHANGED <<image, counted, served, cut>>
    BY <1>1 DEF Start, LoadImage, ResolveLink, Refuse, Goto
  <2>2. \/ req'[r].loaded = req[r].loaded /\ req'[r].untimed = req[r].untimed
        \/ req'[r].untimed = (image.firstViewed = 0)
    BY <1>1 DEF Start, LoadImage, ResolveLink, Refuse, Goto
  <2>3. QED
    BY <2>1, <2>2 DEF Before, Unpaid
<1>2. CASE CheckReplay(r)
  <2>1. /\ req[r].pc = "reading" /\ req[r].loaded /\ req'[r].pc \in {"log", "done"}
        /\ req'[r].seen = req[r].seen /\ req'[r].loaded = req[r].loaded
        /\ req'[r].untimed = req[r].untimed
        /\ UNCHANGED <<image, counted, served, cut>>
    BY <1>2 DEF CheckReplay
  <2>2. QED
    BY <2>1 DEF Before, Unpaid
<1>3. CASE LogRender(r) \/ RenderFails(r) \/ Render(r) \/ ConsumeLink(r) \/ ConsumeNothing(r)
  <2>1. /\ req[r].pc \in {"log", "render", "consume"}
        /\ \/ req'[r].pc \in {"render", "done", "timer", "consume"}
           \/ req[r].replay /\ req'[r].pc = "send"
        /\ Onwards(r)
        /\ UNCHANGED <<image, counted, served, cut>>
    BY <1>3 DEF LogRender, RenderFails, Render, ConsumeLink, ConsumeNothing, Goto, Onwards
  <2>2. req[r].loaded
    BY <2>1 DEF TimedOf
  <2>3. QED
    BY <2>1, <2>2 DEF Before, Unpaid, Onwards
<1>4. CASE StartTimer(r) \/ SoftDelete(r) \/ AccountFails(r) \/ Send(r) \/ SendFails(r)
  BY <1>4 DEF StartTimer, SoftDelete, AccountFails, Send, SendFails, Goto, Onwards
<1>5. QED
  BY <1>1, <1>2, <1>3, <1>4 DEF Step

\* The row of the image goes one way only.
LEMMA ImageGoesOn ==
  ASSUME TypeOK, ClockInv, [Next]_vars
  PROVE  /\ Needs' = Needs
         /\ image.firstViewed # 0 => image'.firstViewed # 0
         /\ image.deleted => image'.deleted
<1>1. image \in ImageRow
  BY DEF TypeOK
<1>2. QED
  BY <1>1, ImageSteps DEF ImageRow, Needs, ClockInv

\* Whoever stays where it is keeps its accounting.
LEMMA AccountingStays ==
  ASSUME TypeOK, ClockInv, [Next]_vars, NEW q \in Requests, TimedOf(q), CountedOf(q),
         req'[q] = req[q], q \in served' => q \in served, q \in cut => q \in cut',
         q \in counted' <=> q \in counted
  PROVE  TimedOf(q)' /\ CountedOf(q)'
<1>1. TimedOf(q)'
  BY ImageGoesOn DEF TimedOf
<1>2. CountedOf(q)'
  BY ImageGoesOn DEF CountedOf
<1>3. QED
  BY <1>1, <1>2

\* A step of a request keeps its accounting.
LEMMA OwnAccounting ==
  ASSUME TypeOK, ClockInv, [Next]_vars, NEW r \in Requests, PlaceInv(r),
         TimedOf(r), CountedOf(r), Start(r) \/ Step(r)
  PROVE  TimedOf(r)' /\ CountedOf(r)'
<1> USE ImageGoesOn DEF Unpaid, Accounting
<1>0. req[r] \in RequestState /\ image \in ImageRow /\ now \in Nat
  BY DEF TypeOK
<1>1. CASE Before(r)
  <2>1. r \notin served /\ r \notin counted /\ r \notin served' /\ r \notin counted'
    BY <1>1 DEF Before, PlaceInv, CountedOf
  <2>2. TimedOf(r)'
    BY <1>1, <2>1 DEF Before, TimedOf
  <2>3. CountedOf(r)'
    BY <1>1, <2>1 DEF Before, CountedOf
  <2>4. QED
    BY <2>2, <2>3
<1>2. CASE StartTimer(r) /\ Onwards(r) /\ req'[r].pc = "count"
  <2>1. /\ req[r].pc = "timer" /\ r \notin served /\ served' = served
        /\ counted' = counted /\ cut' = cut
    BY <1>2 DEF StartTimer, PlaceInv
  <2>2. Needs => image'.firstViewed # 0
    <3>1. CASE req[r].untimed /\ image.firstViewed = 0 /\ Needs
      <4>1. image'.firstViewed = now
        BY <1>0, <1>2, <3>1 DEF StartTimer, Timed, Needs, ImageRow
      <4>2. QED
        BY <4>1 DEF ClockInv
    <3>2. CASE ~req[r].untimed
      BY <2>1, <3>2 DEF TimedOf
    <3>3. QED
      BY <1>0, <3>1, <3>2 DEF RequestState
  <2>3. TimedOf(r)'
    BY <1>2, <2>1, <2>2 DEF TimedOf, Onwards
  <2>4. CountedOf(r)'
    BY <1>2, <2>1 DEF CountedOf, Onwards
  <2>5. QED
    BY <2>3, <2>4
<1>3. CASE BumpViews(r)
  <2>1. /\ req[r].pc = "count" /\ r \notin served /\ served' = served
        /\ r \in counted' /\ cut' = cut
        /\ req'[r].loaded = req[r].loaded /\ req'[r].untimed = req[r].untimed
        /\ req'[r].seen = image.views + 1
        /\ req'[r].pc = IF ReachesLimit(image.views + 1) THEN "limit" ELSE "send"
    BY <1>0, <1>3 DEF BumpViews, PlaceInv, RequestState, TypeOK
  <2>2. TimedOf(r)'
    BY <2>1 DEF TimedOf
  <2>3. CountedOf(r)'
    BY <2>1 DEF CountedOf, ReachesLimit
  <2>4. QED
    BY <2>2, <2>3
<1>4. CASE SoftDelete(r) /\ Onwards(r) /\ req'[r].pc = "send"
  <2>1. /\ req[r].pc = "limit" /\ r \notin served /\ served' = served
        /\ counted' = counted /\ cut' = cut /\ image'.deleted
    BY <1>0, <1>4 DEF SoftDelete, PlaceInv, ImageRow
  <2>2. TimedOf(r)'
    BY <1>4, <2>1 DEF TimedOf, Onwards
  <2>3. CountedOf(r)'
    BY <1>4, <2>1 DEF CountedOf, Onwards
  <2>4. QED
    BY <2>2, <2>3
<1>5. CASE AccountFails(r) /\ Onwards(r) /\ req'[r].pc = "send"
  <2>1. /\ req[r].pc \in Accounting /\ r \notin served /\ served' = served
        /\ counted' = counted /\ r \in cut'
    BY <1>5 DEF AccountFails, PlaceInv
  <2>2. TimedOf(r)'
    BY <1>5, <2>1 DEF TimedOf, Onwards
  <2>3. CountedOf(r)'
    BY <1>5, <2>1 DEF CountedOf, Onwards
  <2>4. QED
    BY <2>2, <2>3
<1>6. CASE (Send(r) \/ SendFails(r)) /\ Onwards(r) /\ req'[r].pc = "done"
  <2>1. req[r].pc = "send" /\ counted' = counted /\ cut' = cut /\ image' = image
    BY <1>6 DEF Send, SendFails
  <2>2. TimedOf(r)'
    BY <1>6, <2>1 DEF TimedOf, Onwards
  <2>3. CountedOf(r)'
    BY <1>6, <2>1 DEF CountedOf, Onwards
  <2>4. QED
    BY <2>2, <2>3
<1>7. QED
  BY <1>1, <1>2, <1>3, <1>4, <1>5, <1>6, AccountSteps

\* A restart cuts the accountings short that were under way.
LEMMA RestartAccounting ==
  ASSUME TypeOK, ClockInv, NEW q \in Requests, PlaceInv(q), TimedOf(q), CountedOf(q), Restart
  PROVE  TimedOf(q)' /\ CountedOf(q)'
<1>1. /\ image' = image /\ served' = served /\ counted' = counted
      /\ cut' = cut \cup {r \in Requests : req[r].pc \in Accounting}
      /\ req'[q] = IF req[q].pc = "idle" THEN req[q] ELSE [req[q] EXCEPT !.pc = "done"]
  BY DEF Restart
<1>2. CASE req[q].pc = "idle"
  BY <1>1, <1>2 DEF TimedOf, CountedOf, PlaceInv, Unpaid, Needs
<1>3. CASE req[q].pc # "idle"
  <2>1. /\ req'[q].pc = "done" /\ req'[q].loaded = req[q].loaded
        /\ req'[q].untimed = req[q].untimed /\ req'[q].replay = req[q].replay
        /\ req'[q].seen = req[q].seen
    BY <1>1, <1>3 DEF TypeOK, RequestState
  <2>2. TimedOf(q)'
    BY <1>1, <2>1 DEF TimedOf, Needs
  <2>3. CountedOf(q)'
    BY <1>1, <2>1 DEF CountedOf, Unpaid, Accounting
  <2>4. QED
    BY <2>2, <2>3
<1>4. QED
  BY <1>2, <1>3

\* The count follows the set: only BumpViews adds to either, and nobody counts twice.
LEMMA CountStep ==
  ASSUME TypeOK, ClockInv, AccountedInv, [Next]_vars
  PROVE  CountInv'
<1>0. CountInv /\ image \in ImageRow /\ counted \subseteq Requests
  BY DEF AccountedInv, TypeOK
<1>1. ASSUME NEW r \in Requests, Start(r) \/ Step(r)
      PROVE  CountInv'
  <2>1. Frame(r) /\ TimedOf(r) /\ CountedOf(r)
    BY <1>1, StepFrame DEF AccountedInv
  <2>2. req'[r].pc # "idle"
    <3>1. CASE BumpViews(r)
      <4>1. req \in [Requests -> RequestState] /\ req[r] \in RequestState
        BY DEF TypeOK
      <4>2. req'[r].pc \in {"limit", "send"}
        BY <3>1, <4>1 DEF BumpViews, RequestState
      <4>3. QED
        BY <4>2
    <3>2. CASE Before(r)
      BY <3>2 DEF Before
    <3>3. CASE req'[r].pc \in {"count", "send", "done"}
      BY <3>3
    <3>4. QED
      BY <1>1, <2>1, <3>1, <3>2, <3>3, AccountSteps
  <2>3. Began' = Began \cup {r}
    BY <2>1, <2>2 DEF Began, Frame
  <2>4. IsFiniteSet(Began')
    BY <1>0, <2>3, FS_AddElement DEF CountInv
  <2>5. CASE BumpViews(r)
    <3>1. counted' = counted \cup {r} /\ cut' = cut /\ image'.views = image.views + 1
      BY <1>0, <2>5 DEF BumpViews, ImageRow
    <3>2. r \notin counted
      BY <2>1, <2>5 DEF CountedOf, BumpViews
    <3>3. IsFiniteSet(counted') /\ Cardinality(counted') = Cardinality(counted) + 1
      BY <1>0, <3>1, <3>2, FS_AddElement DEF CountInv
    <3>4. QED
      BY <1>0, <2>3, <2>4, <3>1, <3>3 DEF CountInv
  <2>6. CASE ~BumpViews(r)
    <3>1. /\ counted' = counted /\ cut' \in {cut, cut \cup {r}}
          /\ image'.views = image.views
      <4>1. CASE Before(r)
        BY <4>1 DEF Before
      <4>2. CASE StartTimer(r) \/ SoftDelete(r) \/ AccountFails(r) \/ Send(r) \/ SendFails(r)
        BY <1>0, <4>2 DEF StartTimer, SoftDelete, AccountFails, Send, SendFails, ImageRow
      <4>3. QED
        BY <1>1, <2>1, <2>6, <4>1, <4>2, AccountSteps
    <3>2. QED
      BY <1>0, <2>3, <2>4, <3>1 DEF CountInv
  <2>7. QED
    BY <2>5, <2>6
<1>2. CASE Restart
  <2>1. /\ image' = image /\ counted' = counted
        /\ cut' = cut \cup {r \in Requests : req[r].pc \in Accounting}
    BY <1>2 DEF Restart
  <2>2. Began' = Began
    BY <1>2 DEF Restart, Began, TypeOK, RequestState
  <2>3. cut' \subseteq Began
    BY <1>0, <2>1 DEF CountInv, Began, Accounting
  <2>4. QED
    BY <1>0, <2>1, <2>2, <2>3 DEF CountInv
<1>3. CASE UNCHANGED <<req, counted, cut>> /\ image'.views = image.views
  BY <1>0, <1>3 DEF CountInv, Began
<1>4. QED
  BY <1>0, <1>1, <1>2, <1>3
     DEF Next, vars, Beacon, RevokeLink, DeleteImage, Maintenance, Tick, ImageRow

LEMMA AccountedStep ==
  ASSUME TypeOK, ControlInv, ClockInv, AccountedInv, [Next]_vars
  PROVE  AccountedInv'
<1>1. SUFFICES ASSUME NEW q \in Requests PROVE TimedOf(q)' /\ CountedOf(q)'
  BY CountStep DEF AccountedInv
<1>2. PlaceInv(q) /\ TimedOf(q) /\ CountedOf(q)
  BY DEF ControlInv, AccountedInv
<1>3. ASSUME NEW r \in Requests, Start(r) \/ Step(r)
      PROVE  TimedOf(q)' /\ CountedOf(q)'
  <2>1. CASE r = q
    BY <1>2, <1>3, <2>1, OwnAccounting
  <2>2. CASE r # q
    <3>1. req'[q] = req[q]
      BY <1>3, <2>2, StepFrame DEF Frame
    <3>2. /\ served' \in {served, served \cup {r}} /\ cut' \in {cut, cut \cup {r}}
          /\ counted' \in {counted, counted \cup {r}}
      BY <1>3 DEF Start, Step, LoadImage, ResolveLink, Refuse, CheckReplay, LogRender,
           RenderFails, Render, ConsumeLink, ConsumeNothing, StartTimer, BumpViews,
           SoftDelete, AccountFails, Send, SendFails
    <3>3. QED
      BY <1>2, <2>2, <3>1, <3>2, AccountingStays
  <2>3. QED
    BY <2>1, <2>2
<1>4. CASE Restart
  BY <1>2, <1>4, RestartAccounting
<1>5. CASE UNCHANGED <<req, served, counted, cut>>
  BY <1>2, <1>5, AccountingStays
<1>6. QED
  BY <1>3, <1>4, <1>5 DEF Next, vars, Beacon, RevokeLink, DeleteImage, Maintenance, Tick

LEMMA AccountedInit == Init => AccountedInv
<1> SUFFICES ASSUME Init PROVE AccountedInv
  OBVIOUS
<1>1. /\ \A r \in Requests : req[r].pc = "idle" /\ ~req[r].loaded
      /\ image.views = 0 /\ counted = {} /\ cut = {} /\ served = {}
  BY DEF Init, Fresh
<1>2. Began = {}
  BY <1>1 DEF Began
<1>3. CountInv
  BY <1>1, <1>2, FS_EmptySet DEF CountInv
<1>4. QED
  BY <1>1, <1>3 DEF AccountedInv, TimedOf, CountedOf

\* Every first delivery is counted, or its accounting was cut short.
LEMMA AccountedShows ==
  ASSUME TypeOK, AccountedInv
  PROVE  ViewsAccounted
<1>1. CountInv /\ \A r \in Requests : TimedOf(r) /\ CountedOf(r)
  BY DEF AccountedInv
<1>2. ServedImageIsTimed
  BY <1>1 DEF ServedImageIsTimed, TimedOf, Needs, TypeOK
<1>3. LimitHeals
  BY <1>1 DEF LimitHeals, CountedOf, TypeOK
<1>4. DeliveriesCounted
  <2> DEFINE First == {r \in served : ~req[r].replay}
  <2>1. First \subseteq counted \cup cut
    BY <1>1 DEF CountedOf, TypeOK
  <2>2. IsFiniteSet(cut)
    BY <1>1, FS_Subset DEF CountInv
  <2>3. /\ IsFiniteSet(counted \cup cut)
        /\ Cardinality(counted \cup cut) =
             Cardinality(counted) + Cardinality(cut) - Cardinality(counted \cap cut)
    BY <1>1, <2>2, FS_Union DEF CountInv
  <2>4. Cardinality(First) <= Cardinality(counted \cup cut)
    BY <2>1, <2>3, FS_Subset
  <2>5. /\ Cardinality(First) \in Nat /\ Cardinality(counted) \in Nat
        /\ Cardinality(cut) \in Nat /\ Cardinality(counted \cap cut) \in Nat
    BY <1>1, <2>1, <2>2, <2>3, FS_Subset, FS_CardinalityType DEF CountInv
  <2>6. Cardinality(First) <= image.views + Cardinality(cut)
    BY <1>1, <2>3, <2>4, <2>5 DEF CountInv
  <2>7. QED
    BY <2>6 DEF DeliveriesCounted
<1>5. QED
  BY <1>2, <1>3, <1>4 DEF ViewsAccounted

\* No view escapes its accounting, whatever fails and restarts (view.js:40).
THEOREM ViewsAreAccounted == Spec => []ViewsAccounted
<1>1. TypeOK /\ TimerInv /\ ClockInv /\ [Next]_vars => TimerInv' /\ ClockInv'
  BY ClosedStays
<1>2. Spec => [](TypeOK /\ ControlInv /\ TimerInv /\ ClockInv)
  BY <1>1, LateInit, TypeCorrect, ControlHolds, PTL DEF Spec
<1>3. Spec => []AccountedInv
  BY <1>2, AccountedInit, AccountedStep, PTL DEF Spec
<1>4. QED
  BY <1>2, <1>3, AccountedShows, PTL
===============================================================================
