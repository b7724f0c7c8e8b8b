------------------------- MODULE ImageEvidenceProofs --------------------------
(***************************************************************************)
(* Proofs about ImageEvidence, for any number of handlers, of rows of the  *)
(* log and of reports.                                                     *)
(***************************************************************************)
EXTENDS ImageEvidence, TLAPS

Row == [row : {"live", "kept", "over", "gone"},
        status : {"ok", "review", "quarantined", "rejected"},
        owned : BOOLEAN, denied : BOOLEAN]
Filed == [st : {"none", "open", "closed"}, by : {"owner", "viewer"}, cites : Logs \cup {None}]
Work == [pc : Places, log : Logs \cup {None}, report : Reports \cup {None}, raced : BOOLEAN]

\* The image: what is down stays down.
Down == image.denied \/ ~image.owned => ~Live
ImageInv == image \in Row /\ Down

\* The rows: what is cited is a view, and cited by a row.
RowsInv ==
  /\ log \in [Logs -> {"none", "view", "fresh", "stale"}]
  /\ report \in [Reports -> Filed]
  /\ \A r \in Reports : report[r].cites # None => log[report[r].cites] = "view"
  /\ \A r \in Reports : report[r].st = "none" => report[r].cites = None

\* The rows and the image.
OwnedInv ==
  /\ \A r \in Reports : report[r].st # "none" /\ ~image.owned => report[r].by = "viewer"
  /\ image.row = "gone" => log = [l \in Logs |-> "none"] /\ report = [r \in Reports |-> NoReport]

\* What a handler knows of the rows it has read.
Knows(x) ==
  /\ x.pc = "write" /\ x.log # None => log[x.log] # "view"
  /\ x.pc = "write" /\ x.log = None => x.raced \/ \A l \in Logs : log[l] # "fresh"
  /\ x.pc \in {"check", "file"} => x.log \in Logs /\ ~Refused(x.log)
  /\ x.pc = "file" => x.raced \/ ~Reported(x.log)
  /\ x.pc = "erase" => x.raced \/ \A r \in Reports : report[r].cites # None => report[r].st = "closed"
  /\ x.pc \in {"open", "closed"} => x.report \in Reports
HandlersInv ==
  /\ handler \in [Handlers -> Work]
  /\ \A h \in Handlers : Knows(handler[h])

SweepInv ==
  /\ sweep \in {"idle", "mark", "prune", "list", "purge", "orphans"}
  /\ sweep = "purge" => ~Live

Inv == ImageInv /\ RowsInv /\ OwnedInv /\ HandlersInv /\ SweepInv

\* What the invariant is for.
LEMMA InvShows == Inv => RetentionProceeds /\ StaysDown
<1> SUFFICES ASSUME Inv PROVE RetentionProceeds /\ StaysDown
  OBVIOUS
<1>1. /\ image \in Row /\ report \in [Reports -> Filed] /\ handler \in [Handlers -> Work]
      /\ log \in [Logs -> {"none", "view", "fresh", "stale"}]
  BY DEF Inv, ImageInv, RowsInv, HandlersInv
<1>2. sweep \in {"idle", "mark", "prune", "list", "purge", "orphans"}
  BY DEF Inv, SweepInv
<1>3. \A l \in Logs : Cited({l}) => log[l] = "view"
  BY EvidenceAssumption DEF Inv, RowsInv, Cited
<1>4. TypeOK
  BY <1>1, <1>2, <1>3 DEF TypeOK, Row, Filed, Work, Inv, OwnedInv
<1>5. StaysDown
  BY DEF Inv, ImageInv, Down, StaysDown, Viewable
<1>6. QED
  BY <1>2, <1>4, <1>5 DEF RetentionProceeds

\* An upload begins with no log, no report and nobody at work.
LEMMA InitInv == Init => Inv
<1> SUFFICES ASSUME Init PROVE Inv
  OBVIOUS
<1>1. image \in Row /\ image.row = "live" /\ image.owned /\ ~image.denied
  BY DEF Init, Row
<1>2. ImageInv /\ OwnedInv
  BY <1>1 DEF Init, ImageInv, OwnedInv, Down, NoReport
<1>3. RowsInv
  BY EvidenceAssumption DEF Init, RowsInv, NoReport, Filed
<1>4. HandlersInv
  BY DEF Init, HandlersInv, Knows, Idle, Work, Places
<1>5. SweepInv
  BY DEF Init, SweepInv
<1>6. QED
  BY <1>2, <1>3, <1>4, <1>5 DEF Inv

\* A handler goes on to x, or ends, and has written nothing.
LEMMA Moves ==
  ASSUME HandlersInv, UNCHANGED <<log, report>>, NEW h \in Handlers, NEW x \in Work,
         Knows(x), handler' = [handler EXCEPT ![h] = x]
  PROVE  HandlersInv'
BY DEF HandlersInv, Knows, Refused, Reported

\* A handler that has ended needs to know nothing.
LEMMA IdleKnows == Idle \in Work /\ Knows(Idle)
BY DEF Idle, Work, Knows, Places

\* A handler ends, and has written nothing to the log or the reports.
LEMMA Ending ==
  ASSUME HandlersInv, UNCHANGED <<log, report>>, NEW h \in Handlers, Ends(h)
  PROVE  HandlersInv'
BY Moves, IdleKnows DEF Ends

\* Nothing but handlers changes.
LEMMA OnlyHandlers ==
  ASSUME Inv, UNCHANGED <<image, log, report, sweep>>, HandlersInv'
  PROVE  Inv'
BY DEF Inv, ImageInv, RowsInv, OwnedInv, SweepInv, Down, Live, Refused

\* A handler begins work for which it needs to know nothing yet.
LEMMA Reading ==
  ASSUME Inv, NEW h \in Handlers, NEW pcs \in SUBSET (Places \ {"write", "check", "file", "erase", "open", "closed"}),
         Reads(h, pcs)
  PROVE  Inv'
<1>1. PICK pc \in pcs : handler' = [handler EXCEPT ![h].pc = pc]
  BY DEF Reads
<1>2. [handler[h] EXCEPT !.pc = pc] \in Work /\ Knows([handler[h] EXCEPT !.pc = pc])
  BY DEF Inv, HandlersInv, Work, Knows
<1>3. HandlersInv'
  BY <1>1, <1>2, Moves DEF Inv, Reads
<1>4. QED
  BY <1>3, OnlyHandlers DEF Reads

\* A handler fails.
LEMMA Failing ==
  ASSUME Inv, NEW h \in Handlers, Fails(h)
  PROVE  Inv'
BY Ending, OnlyHandlers DEF Inv, Fails

\* Only the image changes, and a handler ends, or the sweep goes on.
LEMMA ImageChanges ==
  ASSUME Inv, ImageInv', HandlersInv', SweepInv', UNCHANGED <<log, report>>,
         image'.owned = image.owned, Live' => Live, image'.row = "gone" => image.row = "gone"
  PROVE  Inv'
BY DEF Inv, RowsInv, OwnedInv, Refused, Live

\* A decision or a deletion, written by the id that was read.
LEMMA Marking ==
  ASSUME Inv, NEW h \in Handlers, Flag(h) \/ Allow(h) \/ Reject(h) \/ Remove(h) \/ AdminRemove(h)
  PROVE  Inv'
<1>1. image \in Row
  BY DEF Inv, ImageInv
<1>2. /\ image' \in Row /\ image'.owned = image.owned /\ image'.row \in {image.row, "kept"}
      /\ image'.row = "gone" => image.row = "gone"
      /\ Live' => image'.denied = image.denied /\ Live
  BY <1>1 DEF Row, Flag, Allow, Reject, Remove, AdminRemove, Marked, Stamped, Live
<1>3. ImageInv'
  BY <1>2 DEF Inv, ImageInv, Down
<1>4. HandlersInv' /\ UNCHANGED <<log, report, sweep>>
  BY Ending DEF Inv, Flag, Allow, Reject, Remove, AdminRemove
<1>5. SweepInv'
  BY <1>2, <1>4 DEF Inv, SweepInv
<1>6. QED
  BY <1>2, <1>3, <1>4, <1>5, ImageChanges

\* The owner's account goes, with the owner's reports.
LEMMA Leaving ==
  ASSUME Inv, NEW h \in Handlers, Leave(h)
  PROVE  Inv'
<1>1. /\ image \in Row /\ report \in [Reports -> Filed]
      /\ report' = [r \in Reports |-> IF report[r].by = "owner" THEN NoReport ELSE report[r]]
      /\ UNCHANGED <<log, sweep>> /\ Ends(h)
  BY DEF Inv, ImageInv, RowsInv, Leave
<1>2. /\ image' \in Row /\ ~Live' /\ (image'.row = "gone" => image.row = "gone")
  BY <1>1 DEF Row, Leave, Live
<1>3. /\ NoReport \in Filed /\ NoReport.st = "none" /\ NoReport.cites = None
  BY DEF NoReport, Filed
<1>4. RowsInv'
  BY <1>1, <1>3 DEF Inv, RowsInv
<1>5. OwnedInv'
  BY <1>1, <1>2, <1>3 DEF Inv, OwnedInv, Filed
<1>6. ASSUME NEW x \in Work, Knows(x) PROVE Knows(x)'
  BY <1>1, <1>3, <1>6, EvidenceAssumption DEF Knows, Refused, Reported
<1>7. HandlersInv'
  BY <1>1, <1>6, IdleKnows DEF Inv, HandlersInv, Ends
<1>8. QED
  BY <1>1, <1>2, <1>4, <1>5, <1>7 DEF Inv, ImageInv, Down, SweepInv

\* A view is logged in a row that nobody else has read.
LEMMA Rendering ==
  ASSUME Inv, NEW h \in Handlers, LogRender(h)
  PROVE  Inv'
<1>1. CASE UNCHANGED log
  BY <1>1, Ending, OnlyHandlers DEF Inv, LogRender
<1>2. CASE \E l \in FreeLogs : log' = [log EXCEPT ![l] = "view"]
  <2>1. PICK l \in FreeLogs : log' = [log EXCEPT ![l] = "view"]
    BY <1>2
  <2>2. /\ l \in Logs /\ log[l] = "none" /\ \A g \in Handlers : handler[g].log # l
        /\ UNCHANGED <<image, report, sweep>> /\ Ends(h) /\ image.row # "gone"
    BY DEF FreeLogs, LogRender, There
  <2>3. RowsInv'
    BY <2>1, <2>2 DEF Inv, RowsInv
  <2>4. ASSUME NEW x \in Work, Knows(x), x.log # l PROVE Knows(x)'
    BY <2>1, <2>2, <2>4 DEF Knows, Refused, Reported, Inv, RowsInv
  <2>5. Knows(Idle)'
    BY DEF Knows, Idle
  <2>6. HandlersInv'
    BY <2>2, <2>4, <2>5, IdleKnows DEF Inv, HandlersInv, Ends
  <2>7. QED
    BY <2>2, <2>3, <2>6 DEF Inv, ImageInv, OwnedInv, Down, Live, SweepInv
<1>3. QED
  BY <1>1, <1>2 DEF LogRender

\* A refused attempt knows of the recent row it found, or of none.
LEMMA Looking ==
  ASSUME Inv, NEW h \in Handlers, LookBlocked(h)
  PROVE  Inv'
<1>1. PICK l \in Logs \cup {None} :
        /\ handler' = [handler EXCEPT ![h].pc = "write", ![h].log = l]
        /\ l = None => \A k \in Logs : log[k] # "fresh"
        /\ l # None => log[l] = "fresh"
  BY EvidenceAssumption DEF LookBlocked
<1>2. PICK x \in Work : x = [handler[h] EXCEPT !.pc = "write", !.log = l]
  BY DEF Inv, HandlersInv, Work, Places
<1>3. Knows(x) /\ handler' = [handler EXCEPT ![h] = x]
  BY <1>1, <1>2 DEF Inv, HandlersInv, Work, Knows
<1>4. HandlersInv'
  BY <1>3, Moves DEF Inv, LookBlocked
<1>5. QED
  BY <1>4, OnlyHandlers DEF LookBlocked

\* A refused attempt is counted or inserted; who else is about to is overtaken.
LEMMA Blocking ==
  ASSUME Inv, NEW h \in Handlers, LogBlocked(h)
  PROVE  Inv'
<1>1. /\ UNCHANGED <<image, report, sweep>> /\ At(h, "write") /\ h \notin Writing(h)
      /\ Raced(h, Writing(h)) /\ Knows(handler[h]) /\ handler[h] \in Work
  BY DEF LogBlocked, Writing, Inv, HandlersInv
<1>2. PICK l \in Logs :
        /\ log[l] # "view"
        /\ log' = log \/ (log' = [log EXCEPT ![l] = "fresh"])
        /\ log' # log => image.row # "gone"
        /\ \A g \in Handlers \ {h} :
             handler[g].pc \in {"check", "file"} => handler[g].log # l \/ log' = log
  <2>1. CASE handler[h].log # None
    BY <1>1, <2>1 DEF LogBlocked, At, Knows, Work, Inv, HandlersInv, RowsInv, OwnedInv, Refused
  <2>2. CASE handler[h].log = None
    BY <1>1, <2>2 DEF LogBlocked, FreeLogs, There
  <2>3. QED
    BY <2>1, <2>2
<1>3. RowsInv'
  BY <1>1, <1>2, EvidenceAssumption DEF Inv, RowsInv, Filed
<1>4. OwnedInv'
  BY <1>1, <1>2 DEF Inv, OwnedInv
<1>5. ASSUME NEW x \in Work, Knows(x), x.pc \in {"check", "file"} => x.log # l \/ log' = log
      PROVE  /\ x.pc # "write" => Knows(x)'
             /\ x.pc = "write" => Knows([x EXCEPT !.raced = TRUE])'
  <2>1. log \in [Logs -> {"none", "view", "fresh", "stale"}] /\ log'[l] # "view" /\ UNCHANGED report
    BY <1>1, <1>2 DEF Inv, RowsInv
  <2>2. \A k \in Logs : log'[k] = log[k] \/ k = l
    BY <1>2, <2>1
  <2>3. CASE x.pc # "write"
    BY <1>5, <2>1, <2>2, <2>3 DEF Knows, Refused, Reported
  <2>4. CASE x.pc = "write"
    <3> DEFINE y == [x EXCEPT !.raced = TRUE]
    <3>1. y.pc = "write" /\ y.log = x.log /\ y.log \in Logs \cup {None} /\ y.raced
      BY <2>4 DEF Work
    <3>2. y.log # None => log'[y.log] # "view"
      BY <1>5, <2>1, <2>2, <2>4, <3>1 DEF Knows
    <3>3. Knows(y)'
      BY <3>1, <3>2 DEF Knows
    <3>4. QED
      BY <2>4, <3>3
  <2>5. QED
    BY <2>3, <2>4
<1>6. \A g \in Handlers : g # h =>
                               /\ handler[g] \in Work /\ Knows(handler[g])
                               /\ handler[g].pc # "write" => handler'[g] = handler[g]
                               /\ handler[g].pc = "write" => handler'[g] = [handler[g] EXCEPT !.raced = TRUE]
  BY <1>1 DEF Inv, HandlersInv, Raced, Writing, At
<1>7. handler' \in [Handlers -> Work]
  BY <1>1, IdleKnows DEF Inv, HandlersInv, Raced, Work
<1>8. Knows(handler[h])'
  <2>1. handler'[h] = Idle
    BY <1>1 DEF Raced
  <2>2. QED
    BY <2>1 DEF Knows, Idle
<1>9. ASSUME NEW g \in Handlers, g # h PROVE Knows(handler[g])'
  <2>1. /\ handler[g] \in Work /\ Knows(handler[g])
        /\ handler[g].pc # "write" => handler'[g] = handler[g]
        /\ handler[g].pc = "write" => handler'[g] = [handler[g] EXCEPT !.raced = TRUE]
    BY <1>6, <1>9
  <2>2. PICK x \in Work : x = handler[g]
    BY <2>1
  <2>3. /\ x.pc # "write" => Knows(x)'
        /\ x.pc = "write" => Knows([x EXCEPT !.raced = TRUE])'
    BY <1>2, <1>5, <1>9, <2>1, <2>2
  <2>4. CASE x.pc = "write"
    BY <2>1, <2>2, <2>3, <2>4
  <2>5. CASE x.pc # "write"
    BY <2>1, <2>2, <2>3, <2>5
  <2>6. QED
    BY <2>4, <2>5
<1>10. HandlersInv'
  BY <1>7, <1>8, <1>9 DEF HandlersInv
<1>11. QED
  BY <1>1, <1>3, <1>4, <1>10 DEF Inv, ImageInv, Down, Live, SweepInv

\* What was recent is not any more.
LEMMA Lapsing ==
  ASSUME Inv, Lapse
  PROVE  Inv'
<1>1. PICK l \in Logs : log[l] = "fresh" /\ log' = [log EXCEPT ![l] = "stale"]
  BY DEF Lapse
<1>2. UNCHANGED <<image, report, handler, sweep>>
  BY DEF Lapse
<1>3. RowsInv' /\ OwnedInv'
  BY <1>1, <1>2 DEF Inv, RowsInv, OwnedInv
<1>4. ASSUME NEW x \in Work, Knows(x) PROVE Knows(x)'
  BY <1>1, <1>2, <1>4 DEF Knows, Refused, Reported, Inv, RowsInv, Work
<1>5. HandlersInv'
  BY <1>2, <1>4 DEF Inv, HandlersInv
<1>6. QED
  BY <1>2, <1>3, <1>5 DEF Inv, ImageInv, Down, Live, SweepInv

\* What is known stays known, and at most one handler ends.
LEMMA Keeping ==
  ASSUME HandlersInv, UNCHANGED handler \/ \E h \in Handlers : Ends(h),
         \A x \in Work : Knows(x) => Knows(x)'
  PROVE  HandlersInv'
<1>1. Knows(Idle)'
  BY DEF Knows, Idle
<1>2. QED
  BY <1>1, IdleKnows DEF HandlersInv, Ends

\* Nothing that handlers know of changes.
LEMMA Standing ==
  ASSUME HandlersInv, UNCHANGED <<log, report, handler>>
  PROVE  HandlersInv'
BY DEF HandlersInv, Knows, Refused, Reported

\* A handler has read what it goes by.
LEMMA GoingOn ==
  ASSUME Inv, NEW h \in Handlers, Report(h) \/ Check(h) \/ Decide(h) \/ Count(h)
  PROVE  Inv'
<1>1. UNCHANGED <<image, log, report, sweep>>
  BY DEF Report, Check, Decide, Count
<1>2. handler[h] \in Work /\ Knows(handler[h])
  BY DEF Inv, HandlersInv
<1>3. CASE Report(h)
  <2>1. PICK l \in Entries : handler' = [handler EXCEPT ![h] = [handler[h] EXCEPT !.pc = "check", !.log = l]]
    BY <1>3, <1>2 DEF Report, Inv, HandlersInv, Work
  <2>2. l \in Logs /\ ~Refused(l)
    BY DEF Entries, Refused
  <2>3. [handler[h] EXCEPT !.pc = "check", !.log = l] \in Work
    BY <1>2, <2>2 DEF Work, Places
  <2>4. Knows([handler[h] EXCEPT !.pc = "check", !.log = l])
    BY <1>2, <2>2 DEF Work, Knows
  <2>5. QED
    BY <1>1, <2>1, <2>3, <2>4, Moves, OnlyHandlers DEF Inv
<1>4. CASE Check(h)
  <2>1. CASE Reported(handler[h].log)
    BY <1>1, <1>4, <2>1, Ending, OnlyHandlers DEF Check, Ends, Inv
  <2>2. CASE ~Reported(handler[h].log)
    <3>1. handler' = [handler EXCEPT ![h] = [handler[h] EXCEPT !.pc = "file"]]
      BY <1>4, <2>2 DEF Check, Inv, HandlersInv
    <3>2. [handler[h] EXCEPT !.pc = "file"] \in Work
      BY <1>2 DEF Work, Places
    <3>3. Knows([handler[h] EXCEPT !.pc = "file"])
      BY <1>2, <1>4, <2>2 DEF Work, Knows, Check, At
    <3>4. QED
      BY <1>1, <3>1, <3>2, <3>3, Moves, OnlyHandlers DEF Inv
  <2>3. QED
    BY <2>1, <2>2
<1>5. CASE Decide(h)
  <2>1. PICK r \in Reports, st \in {"open", "closed"} :
          handler' = [handler EXCEPT ![h] = [handler[h] EXCEPT !.pc = st, !.report = r]]
    BY <1>5, <1>2 DEF Decide, Inv, HandlersInv, Work
  <2>2. [handler[h] EXCEPT !.pc = st, !.report = r] \in Work
    BY <1>2 DEF Work, Places
  <2>3. Knows([handler[h] EXCEPT !.pc = st, !.report = r])
    BY <1>2 DEF Work, Knows
  <2>4. QED
    BY <1>1, <2>1, <2>2, <2>3, Moves, OnlyHandlers DEF Inv
<1>6. CASE Count(h)
  <2>1. CASE OpenReports # {}
    BY <1>1, <1>6, <2>1, Ending, OnlyHandlers DEF Count, Ends, Inv
  <2>2. CASE OpenReports = {}
    <3>1. handler' = [handler EXCEPT ![h] = [handler[h] EXCEPT !.pc = "erase"]]
      BY <1>6, <2>2 DEF Count, Inv, HandlersInv
    <3>2. [handler[h] EXCEPT !.pc = "erase"] \in Work
      BY <1>2 DEF Work, Places
    <3>3. \A r \in Reports : report[r].cites # None => report[r].st = "closed"
      BY <2>2 DEF OpenReports, Inv, RowsInv, Filed
    <3>4. Knows([handler[h] EXCEPT !.pc = "erase"])
      BY <1>2, <3>3 DEF Work, Knows
    <3>5. QED
      BY <1>1, <3>1, <3>2, <3>4, Moves, OnlyHandlers DEF Inv
  <2>3. QED
    BY <2>1, <2>2
<1>7. QED
  BY <1>3, <1>4, <1>5, <1>6

\* A handler ends, and those whose work is among the lost have been overtaken.
LEMMA Racing ==
  ASSUME HandlersInv, NEW h \in Handlers, NEW others \in SUBSET Handlers, Raced(h, others),
         NEW lost, \A g \in Handlers : g # h => (g \in others <=> handler[g] \in lost),
         \A x \in Work : Knows(x) => /\ x \notin lost => Knows(x)'
                                     /\ x \in lost => Knows([x EXCEPT !.raced = TRUE])'
  PROVE  HandlersInv'
<1>1. handler' \in [Handlers -> Work]
  BY IdleKnows DEF HandlersInv, Raced, Work
<1>2. Knows(handler[h])'
  <2>1. handler'[h] = Idle
    BY DEF Raced
  <2>2. QED
    BY <2>1 DEF Knows, Idle
<1>3. ASSUME NEW g \in Handlers, g # h PROVE Knows(handler[g])'
  <2>1. PICK x \in Work : x = handler[g] /\ Knows(x)
    BY <1>3 DEF HandlersInv
  <2>2. CASE x \in lost
    <3>1. handler'[g] = [x EXCEPT !.raced = TRUE]
      BY <1>3, <2>1, <2>2 DEF Raced
    <3>2. Knows([x EXCEPT !.raced = TRUE])'
      BY <2>1, <2>2
    <3>3. QED
      BY <3>1, <3>2
  <2>3. CASE x \notin lost
    <3>1. handler'[g] = x
      BY <1>3, <2>1, <2>3 DEF Raced
    <3>2. Knows(x)'
      BY <2>1, <2>3
    <3>3. QED
      BY <3>1, <3>2
  <2>4. QED
    BY <2>2, <2>3
<1>4. QED
  BY <1>1, <1>2, <1>3 DEF HandlersInv

\* A report is filed; who is about to file on the same entry, or to erase, is overtaken.
LEMMA FilingOne ==
  ASSUME Inv, NEW h \in Handlers, File(h)
  PROVE  Inv'
<1> DEFINE l == handler[h].log
           new == [st |-> "open", by |-> "owner", cites |-> l]
<1>1. /\ l \in Logs /\ log[l] = "view" /\ image.owned /\ image.row # "gone"
      /\ UNCHANGED <<image, log, sweep>> /\ Raced(h, Erasing(h) \cup Filing(h, l))
  BY DEF File, At, Inv, HandlersInv, Knows, Refused, RowsInv, OwnedInv
<1>2. PICK r \in Reports : report[r].st = "none" /\ report' = [report EXCEPT ![r] = new]
  BY DEF File, FreeReports
<1>3. report \in [Reports -> Filed] /\ new \in Filed /\ report[r].cites = None
  BY <1>1, <1>2 DEF Inv, RowsInv, Filed
<1>4. RowsInv'
  BY <1>1, <1>2, <1>3 DEF Inv, RowsInv, Filed
<1>5. OwnedInv'
  BY <1>1, <1>2, <1>3 DEF Inv, OwnedInv
<1> DEFINE lost == {x \in Work : x.pc = "erase" \/ (x.pc = "file" /\ x.log = l)}
<1>6. \A g \in Handlers : g # h => (g \in Erasing(h) \cup Filing(h, l) <=> handler[g] \in lost)
  BY DEF Erasing, Filing, At, Inv, HandlersInv
<1>7. ASSUME NEW x \in Work, Knows(x), x \notin lost PROVE Knows(x)'
  BY <1>1, <1>2, <1>3, <1>7, EvidenceAssumption DEF Knows, Refused, Reported
<1>8. ASSUME NEW x \in Work, Knows(x), x \in lost PROVE Knows([x EXCEPT !.raced = TRUE])'
  BY <1>1, <1>8 DEF Knows, Refused, Work
<1>9. HandlersInv'
  <2>1. Erasing(h) \cup Filing(h, l) \in SUBSET Handlers
    BY DEF Erasing, Filing
  <2> HIDE DEF lost
  <2>2. QED
    BY <1>1, <1>6, <1>7, <1>8, <2>1, Racing DEF Inv
<1>10. QED
  BY <1>1, <1>4, <1>5, <1>9 DEF Inv, ImageInv, Down, Live, SweepInv

\* A viewer reports.
LEMMA Accusing ==
  ASSUME Inv, NEW h \in Handlers, FileLeak(h)
  PROVE  Inv'
<1> DEFINE new == [st |-> "open", by |-> "viewer", cites |-> None]
<1>1. UNCHANGED <<image, log, sweep>> /\ Ends(h) /\ image.row # "gone"
  BY DEF FileLeak, There
<1>2. PICK r \in Reports : report[r].st = "none" /\ report' = [report EXCEPT ![r] = new]
  BY DEF FileLeak, FreeReports
<1>3. report \in [Reports -> Filed] /\ new \in Filed /\ report[r].cites = None
  BY <1>2 DEF Inv, RowsInv, Filed
<1>4. RowsInv'
  BY <1>1, <1>2, <1>3 DEF Inv, RowsInv, Filed
<1>5. OwnedInv'
  BY <1>1, <1>2, <1>3 DEF Inv, OwnedInv
<1>6. ASSUME NEW x \in Work, Knows(x) PROVE Knows(x)'
  BY <1>1, <1>2, <1>3, <1>6 DEF Knows, Refused, Reported
<1>7. HandlersInv'
  BY <1>1, <1>6, Keeping DEF Inv
<1>8. QED
  BY <1>1, <1>4, <1>5, <1>7 DEF Inv, ImageInv, Down, Live, SweepInv

\* A report is closed or opened again; who is about to erase is overtaken by the latter.
LEMMA Deciding ==
  ASSUME Inv, NEW h \in Handlers, SetStatus(h)
  PROVE  Inv'
<1> DEFINE r == handler[h].report
           new == [report[r] EXCEPT !.st = IF @ = "none" THEN @ ELSE handler[h].pc]
           others == IF At(h, "open") /\ report[r].cites # None THEN Erasing(h) ELSE {}
           lost == IF At(h, "open") /\ report[r].cites # None THEN {x \in Work : x.pc = "erase"} ELSE {}
<1>1. /\ r \in Reports /\ handler[h].pc \in {"open", "closed"}
      /\ UNCHANGED <<image, log, sweep>> /\ Raced(h, others)
  BY DEF SetStatus, Inv, HandlersInv, Knows
<1>2. report \in [Reports -> Filed] /\ report' = [report EXCEPT ![r] = new] /\ new \in Filed
  BY <1>1 DEF SetStatus, Inv, RowsInv, Filed
<1>3. /\ new.cites = report[r].cites /\ new.by = report[r].by
      /\ new.st = "none" <=> report[r].st = "none"
      /\ ~(At(h, "open") /\ report[r].cites # None) => new.cites = None \/ new.st = "closed"
  BY <1>1, <1>2 DEF Inv, RowsInv, Filed, At
<1>4. RowsInv'
  BY <1>1, <1>2, <1>3 DEF Inv, RowsInv
<1>5. OwnedInv'
  <2>1. CASE image.row = "gone"
    <3>1. report = [q \in Reports |-> NoReport]
      BY <2>1 DEF Inv, OwnedInv
    <3>2. report' = report
      BY <1>1, <1>2, <3>1 DEF NoReport
    <3>3. QED
      BY <1>1, <3>2 DEF Inv, OwnedInv
  <2>2. CASE image.row # "gone"
    BY <1>1, <1>2, <1>3, <2>2 DEF Inv, OwnedInv
  <2>3. QED
    BY <2>1, <2>2
<1>6. others \in SUBSET Handlers /\ \A g \in Handlers : g # h => (g \in others <=> handler[g] \in lost)
  BY DEF Erasing, At, Inv, HandlersInv
<1>7. ASSUME NEW x \in Work, Knows(x), x \notin lost PROVE Knows(x)'
  <2>1. \A q \in Reports : report'[q].cites = report[q].cites /\ (q # r => report'[q] = report[q])
    BY <1>1, <1>2, <1>3
  <2>2. x.pc = "erase" => x.raced \/ \A q \in Reports : report'[q].cites # None => report'[q].st = "closed"
    BY <1>1, <1>2, <1>3, <1>7, <2>1 DEF Knows
  <2>3. QED
    BY <1>1, <1>7, <2>1, <2>2 DEF Knows, Refused, Reported
<1>8. ASSUME NEW x \in Work, Knows(x), x \in lost PROVE Knows([x EXCEPT !.raced = TRUE])'
  BY <1>8 DEF Knows, Work
<1>9. HandlersInv'
  <2> HIDE DEF lost, others
  <2>1. QED
    BY <1>1, <1>6, <1>7, <1>8, Racing DEF Inv
<1>10. QED
  BY <1>1, <1>4, <1>5, <1>9 DEF Inv, ImageInv, Down, Live, SweepInv

\* The log is erased: by an administrator, or by the sweep.
LEMMA Emptying ==
  ASSUME Inv, EraseLogs, UNCHANGED image, SweepInv',
         UNCHANGED handler \/ \E h \in Handlers : Ends(h)
  PROVE  Inv'
<1>1. /\ report \in [Reports -> Filed]
      /\ report' = [r \in Reports |-> [report[r] EXCEPT !.cites = None]]
      /\ log' = [l \in Logs |-> "none"]
  BY DEF Inv, RowsInv, EraseLogs
<1>2. \A r \in Reports : /\ report'[r] \in Filed /\ report'[r].cites = None
                         /\ report'[r].st = report[r].st /\ report'[r].by = report[r].by
  BY <1>1 DEF Filed
<1>3. RowsInv'
  BY <1>1, <1>2 DEF RowsInv
<1>4. OwnedInv'
  <2>1. CASE image.row = "gone"
    <3>1. report = [r \in Reports |-> NoReport]
      BY <2>1 DEF Inv, OwnedInv
    <3>2. report' = [r \in Reports |-> NoReport]
      BY <1>1, <3>1 DEF NoReport
    <3>3. QED
      BY <1>1, <1>2, <3>2 DEF Inv, OwnedInv
  <2>2. CASE image.row # "gone"
    BY <1>2, <2>2 DEF Inv, OwnedInv
  <2>3. QED
    BY <2>1, <2>2
<1>5. ASSUME NEW x \in Work, Knows(x) PROVE Knows(x)'
  BY <1>1, <1>2, <1>5, EvidenceAssumption DEF Knows, Refused, Reported, Work
<1>6. HandlersInv'
  BY <1>5, Keeping DEF Inv
<1>7. QED
  BY <1>3, <1>4, <1>6 DEF Inv, ImageInv, Down, Live

\* The image ages.
LEMMA Aging ==
  ASSUME Inv, RunOut \/ MarkPurged
  PROVE  Inv'
<1>1. /\ image \in Row /\ UNCHANGED <<log, report, handler>>
      /\ sweep' \in {"idle", "prune"}
  BY DEF Inv, ImageInv, RunOut, MarkPurged
<1>2. /\ image' \in Row /\ image'.owned = image.owned /\ image'.denied = image.denied
      /\ image'.row = "gone" => image.row = "gone"
      /\ ~Live'
  BY <1>1 DEF Row, RunOut, MarkPurged, Stamped, Live
<1>3. ImageInv' /\ SweepInv'
  BY <1>1, <1>2 DEF ImageInv, Down, SweepInv
<1>4. HandlersInv'
  BY <1>1, Standing DEF Inv
<1>5. QED
  BY <1>1, <1>2, <1>3, <1>4, ImageChanges

\* The sweep goes on, or ends.
LEMMA Going ==
  ASSUME Inv, SweepBegins \/ List \/ SweepFails
  PROVE  Inv'
<1>1. UNCHANGED <<image, log, report, handler>>
  BY DEF SweepBegins, List, SweepFails
<1>2. SweepInv'
  BY <1>1 DEF SweepBegins, List, SweepFails, SweepInv, Live
<1>3. HandlersInv'
  BY <1>1, Standing DEF Inv
<1>4. QED
  BY <1>1, <1>2, <1>3 DEF Inv, ImageInv, RowsInv, OwnedInv, Down, Live, Refused

\* No view is among the rows that go.
LEMMA Pruned ==
  ASSUME Inv, Prune
  PROVE  /\ UNCHANGED <<image, report, handler>> /\ sweep' = "list"
         /\ \E old \in SUBSET {l \in Logs : Refused(l)} :
              log' = [l \in Logs |-> IF l \in old THEN "none" ELSE log[l]]
<1>1. UNCHANGED <<image, report, handler>>
  BY DEF Prune
<1>2. log \in [Logs -> {"none", "view", "fresh", "stale"}]
  BY DEF Inv, RowsInv
<1> DEFINE refused == {l \in Logs : Refused(l)}
<1>3. CASE Cardinality(refused) <= Keep
  <2>1. log' = log /\ sweep' = "list"
    BY <1>3 DEF Prune
  <2>2. log' = [l \in Logs |-> IF l \in {} THEN "none" ELSE log[l]]
    BY <1>2, <2>1
  <2>3. \E old \in SUBSET refused : log' = [l \in Logs |-> IF l \in old THEN "none" ELSE log[l]]
    <3> WITNESS {} \in SUBSET refused
    <3> QED
      BY <2>2
  <2>4. QED
    BY <1>1, <2>1, <2>3
<1>4. CASE ~(Cardinality(refused) <= Keep)
  <2>1. PICK old \in SUBSET refused :
          IF Cited(old) THEN sweep' = "refused" /\ UNCHANGED log
          ELSE /\ sweep' = "list"
               /\ log' = [l \in Logs |-> IF l \in old THEN "none" ELSE log[l]]
    BY <1>4 DEF Prune
  <2>2. ~Cited(old)
    BY EvidenceAssumption DEF Cited, Refused, Inv, RowsInv
  <2>3. QED
    BY <1>1, <2>1, <2>2
<1>5. QED
  BY <1>3, <1>4

\* The sweep prunes the refused attempts.
LEMMA Pruning ==
  ASSUME Inv, Prune
  PROVE  Inv'
<1>1. PICK old \in SUBSET {l \in Logs : Refused(l)} :
        log' = [l \in Logs |-> IF l \in old THEN "none" ELSE log[l]]
  BY Pruned
<1>2. UNCHANGED <<image, report, handler>> /\ sweep' = "list"
  BY Pruned
<1>3. \A l \in Logs : log'[l] = log[l] \/ (log'[l] = "none" /\ Refused(l))
  BY <1>1
<1>4. RowsInv'
  BY <1>1, <1>2, <1>3 DEF Inv, RowsInv, Filed, Refused
<1>5. OwnedInv'
  BY <1>1, <1>2, <1>3 DEF Inv, OwnedInv
<1>6. ASSUME NEW x \in Work, Knows(x) PROVE Knows(x)'
  BY <1>2, <1>3, <1>6 DEF Knows, Refused, Reported, Work
<1>7. HandlersInv'
  BY <1>2, <1>6, Keeping DEF Inv
<1>8. QED
  BY <1>2, <1>4, <1>5, <1>7 DEF Inv, ImageInv, Down, Live, SweepInv

\* The sweep erases the log: no citation refuses it.
LEMMA Purging ==
  ASSUME Inv, Purge
  PROVE  Inv'
<1>1. sweep' = "orphans" /\ UNCHANGED <<image, handler>> /\ EraseLogs
  BY DEF Purge, EraseLogs
<1>2. SweepInv'
  BY <1>1 DEF SweepInv
<1>3. QED
  BY <1>1, <1>2, Emptying

\* The sweep deletes an image of nobody.
LEMMA Orphaning ==
  ASSUME Inv, DeleteOrphans
  PROVE  Inv'
<1>1. UNCHANGED <<log, handler>> /\ sweep' = "idle" /\ SweepInv'
  BY DEF DeleteOrphans, SweepInv
<1>2. CASE ~Orphaned
  <2>1. UNCHANGED <<image, report>>
    BY <1>2 DEF DeleteOrphans
  <2>2. HandlersInv'
    BY <1>1, <2>1, Standing DEF Inv
  <2>3. QED
    BY <1>1, <2>1, <2>2 DEF Inv, ImageInv, RowsInv, OwnedInv, Down, Live, Refused
<1>3. CASE Orphaned
  <2>1. image \in Row /\ image' = [image EXCEPT !.row = "gone"] /\ report' = [r \in Reports |-> NoReport]
    BY <1>3 DEF DeleteOrphans, Inv, ImageInv
  <2>2. image' \in Row /\ ~Live'
    BY <2>1 DEF Row, Live
  <2>3. log = [l \in Logs |-> "none"]
    BY <1>3 DEF Orphaned, Inv, RowsInv
  <2>4. NoReport \in Filed /\ NoReport.st = "none" /\ NoReport.cites = None
    BY DEF NoReport, Filed
  <2>5. RowsInv' /\ OwnedInv'
    BY <1>1, <2>1, <2>3, <2>4 DEF Inv, RowsInv, OwnedInv
  <2>6. ASSUME NEW x \in Work, Knows(x) PROVE Knows(x)'
    BY <1>1, <2>1, <2>4, <2>6, EvidenceAssumption DEF Knows, Refused, Reported
  <2>7. HandlersInv'
    BY <1>1, <2>6, Keeping DEF Inv
  <2>8. QED
    BY <1>1, <2>2, <2>5, <2>7 DEF Inv, ImageInv, Down
<1>4. QED
  BY <1>2, <1>3

\* Every step keeps the invariant.
LEMMA NextInv == Inv /\ [Next]_vars => Inv'
<1> SUFFICES ASSUME Inv, [Next]_vars PROVE Inv'
  OBVIOUS
<1>1. ASSUME NEW h \in Handlers, Moderate(h) PROVE Inv'
  <2>1. CASE Review(h)
    BY <2>1, Reading DEF Review, Places
  <2>2. QED
    BY <1>1, <2>1, Marking DEF Moderate
<1>2. ASSUME NEW h \in Handlers, Deletes(h) PROVE Inv'
  <2>1. CASE Delete(h)
    BY <2>1, Reading DEF Delete, Places
  <2>2. CASE LeaveBegins(h)
    BY <2>2, Reading DEF LeaveBegins, Places
  <2>3. QED
    BY <1>2, <2>1, <2>2, Marking, Leaving DEF Deletes
<1>3. ASSUME NEW h \in Handlers, Views(h) PROVE Inv'
  <2>1. CASE Visit(h)
    BY <2>1, Reading DEF Visit, Places
  <2>2. CASE LogFails(h)
    BY <2>2, Failing DEF LogFails, Broken
  <2>3. QED
    BY <1>3, <2>1, <2>2, Rendering, Looking, Blocking DEF Views
<1>4. ASSUME NEW h \in Handlers, Accuses(h) PROVE Inv'
  <2>1. CASE ViewerReports(h)
    BY <2>1, Reading DEF ViewerReports, Places
  <2>2. CASE FileFails(h) \/ LeakFails(h)
    BY <2>2, Failing DEF FileFails, LeakFails, Broken
  <2>3. QED
    BY <1>4, <2>1, <2>2, GoingOn, FilingOne, Accusing DEF Accuses
<1>5. ASSUME NEW h \in Handlers, Administers(h) PROVE Inv'
  <2>1. CASE EraseBegins(h)
    BY <2>1, Reading DEF EraseBegins, Places
  <2>2. CASE Erase(h)
    <3>1. SweepInv'
      BY <2>2 DEF Erase, Inv, SweepInv, Live
    <3>2. QED
      BY <2>2, <3>1, Emptying DEF Erase
  <2>3. QED
    BY <1>5, <2>1, <2>2, GoingOn, Deciding DEF Administers
<1>6. CASE Sweeps
  BY <1>6, Going, Aging, Pruning, Purging, Orphaning DEF Sweeps
<1>7. CASE UNCHANGED vars
  BY <1>7, Standing DEF vars, Inv, ImageInv, RowsInv, OwnedInv, SweepInv, Down, Live, Refused
<1>8. QED
  BY <1>1, <1>2, <1>3, <1>4, <1>5, <1>6, <1>7, Failing, Lapsing, Aging, Going DEF Next

\* What the code keeps to throughout: what is denied or has no owner is down, what is
\* cited is a view of the image, and a handler that writes by an id it has read still
\* knows of the row what it needs to, or has been raced.
THEOREM EvidenceInvariant == Spec => []Inv
<1>1. Init => Inv
  BY InitInv
<1>2. QED
  BY <1>1, NextInv, PTL DEF Spec

\* A denied image, or that of a deleted account, is not served again (review.js,
\* user-deletion.js).
THEOREM StaysDownHolds == Spec => []StaysDown
<1>1. QED
  BY EvidenceInvariant, InvShows, PTL

\* No foreign key refuses the maintenance (access-log.js, logging.js, reports.js).
THEOREM RetentionProceedsHolds == Spec => []RetentionProceeds
<1>1. QED
  BY EvidenceInvariant, InvShows, PTL

\* Where an entry of a view can go.
LEMMA ViewGoes ==
  ASSUME Inv, Next, NEW l \in Logs, log[l] = "view", log'[l] # "view"
  PROVE  (sweep = "purge" /\ Purge) \/ \E h \in Handlers : Erase(h)
<1>1. log \in [Logs -> {"none", "view", "fresh", "stale"}]
  BY DEF Inv, RowsInv
<1>2. ASSUME NEW h \in Handlers, LogRender(h) PROVE FALSE
  BY <1>1, <1>2 DEF LogRender
<1>3. ASSUME NEW h \in Handlers, LogBlocked(h) PROVE FALSE
  <2>1. Knows(handler[h]) /\ handler[h] \in Work
    BY DEF Inv, HandlersInv
  <2>2. QED
    BY <1>1, <1>3, <2>1 DEF LogBlocked, FreeLogs, Knows, At, Work
<1>4. ~Lapse
  BY <1>1 DEF Lapse
<1>5. ~Prune
  <2>1. SUFFICES ASSUME Prune PROVE FALSE
    OBVIOUS
  <2>2. PICK old \in SUBSET {k \in Logs : Refused(k)} :
          log' = [k \in Logs |-> IF k \in old THEN "none" ELSE log[k]]
    BY <2>1, Pruned
  <2>3. QED
    BY <2>2 DEF Refused
<1>6. log' # log
  OBVIOUS
<1>7. QED
  BY <1>2, <1>3, <1>4, <1>5, <1>6
  DEF Next, Moderate, Review, Flag, Allow, Reject, Deletes, Delete, Remove, AdminRemove,
      LeaveBegins, Leave, Views, Visit, LookBlocked, LogFails, Broken, Accuses, Report,
      Check, File, FileFails, ViewerReports, FileLeak, LeakFails, Administers, Decide,
      SetStatus, EraseBegins, Count, Reads, Fails, RunOut, Sweeps, SweepBegins, MarkPurged,
      List, Purge, DeleteOrphans, SweepFails

\* EvidenceKept, of a step.
LEMMA EvidenceStep ==
  ASSUME Inv, [Next]_vars
  PROVE  \A l \in Logs : log[l] = "view" /\ log'[l] # "view" =>
           \/ sweep = "purge" /\ ~Live
           \/ \E h \in Handlers :
                /\ At(h, "erase") /\ handler'[h] = Idle
                /\ \/ handler[h].raced
                   \/ \A r \in Reports : report[r].cites = l => report[r].st = "closed"
<1> SUFFICES ASSUME NEW l \in Logs, log[l] = "view", log'[l] # "view"
             PROVE  \/ sweep = "purge" /\ ~Live
                    \/ \E h \in Handlers :
                         /\ At(h, "erase") /\ handler'[h] = Idle
                         /\ \/ handler[h].raced
                            \/ \A r \in Reports : report[r].cites = l => report[r].st = "closed"
  OBVIOUS
<1>1. Next
  BY DEF vars
<1>2. CASE sweep = "purge"
  BY <1>2 DEF Inv, SweepInv
<1>3. CASE \E h \in Handlers : Erase(h)
  <2>1. PICK h \in Handlers : Erase(h)
    BY <1>3
  <2>2. At(h, "erase") /\ handler'[h] = Idle /\ Knows(handler[h])
    BY <2>1 DEF Erase, Ends, Inv, HandlersInv
  <2>3. handler[h].raced \/ \A r \in Reports : report[r].cites = l => report[r].st = "closed"
    BY <2>2, EvidenceAssumption DEF Knows, At
  <2>4. QED
    BY <2>2, <2>3
<1>4. QED
  BY <1>1, <1>2, <1>3, ViewGoes

\* An entry is lost only by retention or by an administrator whose count of the open
\* reports still held, or was overtaken (access-log.js:41).
THEOREM EvidenceKeptHolds == Spec => EvidenceKept
<1>1. Inv /\ [Next]_vars => [\A l \in Logs : log[l] = "view" /\ log'[l] # "view" =>
           \/ sweep = "purge" /\ ~Live
           \/ \E h \in Handlers :
                /\ At(h, "erase") /\ handler'[h] = Idle
                /\ \/ handler[h].raced
                   \/ \A r \in Reports : report[r].cites = l => report[r].st = "closed"]_vars
  BY EvidenceStep
<1>2. QED
  BY <1>1, EvidenceInvariant, PTL DEF EvidenceKept, Spec

\* Who inserts a row for a refused attempt.
LEMMA RowComes ==
  ASSUME Inv, Next, NEW l \in Logs, log[l] = "none", log'[l] = "fresh"
  PROVE  \E h \in Handlers : LogBlocked(h) /\ handler[h].log = None
<1>1. log \in [Logs -> {"none", "view", "fresh", "stale"}]
  BY DEF Inv, RowsInv
<1>2. ASSUME NEW h \in Handlers, LogRender(h) PROVE FALSE
  BY <1>1, <1>2 DEF LogRender
<1>3. ASSUME NEW h \in Handlers, LogBlocked(h), handler[h].log # None PROVE FALSE
  BY <1>1, <1>3 DEF LogBlocked
<1>4. ~Lapse
  BY <1>1 DEF Lapse
<1>5. ~Prune
  <2>1. SUFFICES ASSUME Prune PROVE FALSE
    OBVIOUS
  <2>2. PICK old \in SUBSET {k \in Logs : Refused(k)} :
          log' = [k \in Logs |-> IF k \in old THEN "none" ELSE log[k]]
    BY <2>1, Pruned
  <2>3. QED
    BY <2>2
<1>6. ASSUME EraseLogs PROVE FALSE
  BY <1>6 DEF EraseLogs
<1>7. log' # log
  OBVIOUS
<1>8. QED
  BY <1>2, <1>3, <1>4, <1>5, <1>6, <1>7
  DEF Next, Moderate, Review, Flag, Allow, Reject, Deletes, Delete, Remove, AdminRemove,
      LeaveBegins, Leave, Views, Visit, LookBlocked, LogFails, Broken, Accuses, Report,
      Check, File, FileFails, ViewerReports, FileLeak, LeakFails, Administers, Decide,
      SetStatus, EraseBegins, Count, Erase, Reads, Fails, RunOut, Sweeps, SweepBegins,
      MarkPurged, List, Purge, DeleteOrphans, SweepFails

\* Who files a report on an entry.
LEMMA ReportComes ==
  ASSUME Inv, Next, NEW r \in Reports, report[r].st = "none", report'[r].cites # None
  PROVE  \E h \in Handlers : File(h) /\ report'[r].cites = handler[h].log
<1>1. report \in [Reports -> Filed] /\ report[r].cites = None
  BY DEF Inv, RowsInv
<1>2. NoReport.cites = None
  BY DEF NoReport
<1>3. ASSUME NEW h \in Handlers, Leave(h) PROVE FALSE
  BY <1>1, <1>2, <1>3 DEF Leave
<1>4. ASSUME NEW h \in Handlers, FileLeak(h) PROVE FALSE
  BY <1>1, <1>4 DEF FileLeak
<1>5. ASSUME NEW h \in Handlers, SetStatus(h) PROVE FALSE
  BY <1>1, <1>5 DEF SetStatus, Filed
<1>6. ASSUME EraseLogs PROVE FALSE
  BY <1>1, <1>6 DEF EraseLogs, Filed
<1>7. ~DeleteOrphans
  BY <1>1, <1>2 DEF DeleteOrphans
<1>8. ASSUME NEW h \in Handlers, File(h) PROVE report'[r].cites = handler[h].log
  BY <1>1, <1>8 DEF File
<1>9. report' # report
  BY <1>1
<1>10. QED
  BY <1>3, <1>4, <1>5, <1>6, <1>7, <1>8, <1>9
  DEF Next, Moderate, Review, Flag, Allow, Reject, Deletes, Delete, Remove, AdminRemove,
      LeaveBegins, Views, Visit, LogRender, LookBlocked, LogBlocked, LogFails, Broken,
      Accuses, Report, Check, FileFails, ViewerReports, LeakFails, Administers, Decide,
      EraseBegins, Count, Erase, Reads, Fails, Lapse, RunOut, Sweeps, SweepBegins,
      MarkPurged, Prune, List, Purge, SweepFails

\* NoDuplicates, of a step.
LEMMA DuplicateStep ==
  ASSUME Inv, [Next]_vars, SecondRow \/ SecondReport
  PROVE  \E h \in Handlers : handler[h].raced /\ handler'[h] = Idle
<1>1. CASE SecondRow
  <2>1. PICK l \in Logs, k \in Logs : log[l] = "none" /\ log'[l] = "fresh" /\ log[k] = "fresh"
    BY <1>1 DEF SecondRow
  <2>2. PICK h \in Handlers : LogBlocked(h) /\ handler[h].log = None
    BY <2>1, RowComes DEF vars
  <2>3. Knows(handler[h]) /\ handler[h].pc = "write" /\ handler'[h] = Idle
    BY <2>2 DEF Inv, HandlersInv, LogBlocked, At, Raced
  <2>4. QED
    BY <2>1, <2>2, <2>3 DEF Knows
<1>2. CASE SecondReport
  <2>1. PICK r \in Reports, q \in Reports :
          report[r].st = "none" /\ report'[r].cites # None /\ report'[r].cites = report[q].cites
    BY <1>2 DEF SecondReport
  <2>2. Next
    BY <2>1 DEF vars, Inv, RowsInv
  <2>3. PICK h \in Handlers : File(h) /\ report'[r].cites = handler[h].log
    BY <2>1, <2>2, ReportComes
  <2>4. Knows(handler[h]) /\ handler[h].pc = "file" /\ handler'[h] = Idle
    BY <2>3 DEF Inv, HandlersInv, File, At, Raced
  <2>5. Reported(handler[h].log)
    BY <2>1, <2>3 DEF Reported
  <2>6. QED
    BY <2>4, <2>5 DEF Knows
<1>3. QED
  BY <1>1, <1>2

\* A second report on an entry, or a second row for the attempts of one visitor, comes
\* of a request that was overtaken (reports.js:166, logging.js:55).
THEOREM NoDuplicatesHolds == Spec => NoDuplicates
<1>1. Inv /\ [Next]_vars => [SecondRow \/ SecondReport =>
        \E h \in Handlers : handler[h].raced /\ handler'[h] = Idle]_vars
  BY DuplicateStep
<1>2. QED
  BY <1>1, EvidenceInvariant, PTL DEF NoDuplicates, Spec
-------------------------------------------------------------------------------
(***************************************************************************)
(* The life of the image.  A step changes the image or the views on        *)
(* record, and which change it is follows from where the row is by then.   *)
(* Of the invariant it needs the types, and that whoever writes a refused  *)
(* attempt over an earlier one does not hold a view.                       *)
(***************************************************************************)
OnRecord == {l \in Logs : log[l] = "view"}

\* Where the image is, from its row.
StageIs ==
  /\ Live <=> Stage \in {"shown", "held"}
  /\ image.row \in {"kept", "over"} <=> Stage = "down"
  /\ image.row = "gone" <=> Stage = "gone"
  /\ image \in Row

LEMMA StageCases == (Inv => StageIs) /\ (Inv' => StageIs')
<1>1. Inv => StageIs
  BY DEF Inv, ImageInv, Row, StageIs, Stage, There, Live, Viewable
<1>2. Inv' => StageIs'
  BY DEF Inv, ImageInv, Row, StageIs, Stage, There, Live, Viewable
<1>3. QED
  BY <1>1, <1>2

\* Nothing of the life is seen in a step that leaves the image and the views alone.
LEMMA Unseen ==
  ASSUME UNCHANGED image, OnRecord' = OnRecord
  PROVE  UNCHANGED Life!vars
BY DEF Life!vars, Stage, There, Live, Viewable, OnRecord

LEMMA UnseenLog ==
  ASSUME UNCHANGED <<image, log>>
  PROVE  UNCHANGED Life!vars
BY Unseen DEF OnRecord

\* Decisions and deletions by a handler: what they write depends on where the row is now.
LEMMA MarkingSeen ==
  ASSUME Inv, Inv', NEW h \in Handlers,
         Flag(h) \/ Allow(h) \/ Reject(h) \/ Remove(h) \/ AdminRemove(h) \/ Leave(h)
  PROVE  [Life!Next]_(Life!vars)
<1>a. /\ Live <=> Stage \in {"shown", "held"}
      /\ image.row \in {"kept", "over"} <=> Stage = "down"
      /\ image.row = "gone" <=> Stage = "gone"
      /\ image \in Row
  BY StageCases DEF StageIs
<1>b. /\ Live' <=> Stage' \in {"shown", "held"}
      /\ image'.row \in {"kept", "over"} <=> Stage' = "down"
      /\ image'.row = "gone" <=> Stage' = "gone"
  BY StageCases DEF StageIs
<1>c. UNCHANGED log /\ OnRecord' = OnRecord
  BY DEF Flag, Allow, Reject, Remove, AdminRemove, Leave, OnRecord
<1>1. CASE Flag(h) \/ Allow(h)
  <2>1. CASE Live
    <3>1. /\ image'.row = "live" /\ image'.owned = image.owned /\ image'.denied = image.denied
      BY <1>1, <1>a, <2>1 DEF Flag, Allow, Marked, Row, Live
    <3>2. Stage' \in {"shown", "held"}
      BY <1>b, <3>1 DEF Live
    <3>3. Life!Moderate
      BY <1>a, <1>c, <2>1, <3>1, <3>2 DEF Life!Moderate, Life!Up, OnRecord
    <3>4. QED
      BY <3>3 DEF Life!Next
  <2>2. CASE ~Live
    BY <1>1, <1>c, <2>2, UnseenLog DEF Flag, Allow, Marked
  <2>3. QED
    BY <2>1, <2>2
<1>2. CASE Reject(h)
  <2>1. image'.row = Stamped(image.row) /\ image'.owned = image.owned /\ image'.denied = TRUE
    BY <1>2, <1>a DEF Reject, Row
  <2>2. Stage' = Life!Lowered
    BY <1>a, <1>b, <2>1 DEF Stamped, Life!Lowered
  <2>3. Life!Deny
    BY <1>c, <2>1, <2>2 DEF Life!Deny, OnRecord
  <2>4. QED
    BY <2>3 DEF Life!Next
<1>3. CASE Remove(h)
  <2>1. /\ image'.row = Stamped(image.row)
        /\ image'.owned = image.owned /\ image'.denied = image.denied
    BY <1>3, <1>a DEF Remove, Row
  <2>2. CASE Live
    <3>1. Stage' = "down"
      BY <1>b, <2>1, <2>2 DEF Stamped, Live
    <3>2. Life!TakeDown
      BY <1>a, <1>c, <2>1, <2>2, <3>1 DEF Life!TakeDown, Life!Up, OnRecord
    <3>3. QED
      BY <3>2 DEF Life!Next
  <2>3. CASE ~Live
    <3>1. Stage' = Stage
      BY <1>a, <1>b, <2>1, <2>3 DEF Stamped, Live, Row
    <3>2. QED
      BY <1>c, <2>1, <3>1 DEF Life!vars, OnRecord
  <2>4. QED
    BY <2>2, <2>3
<1>4. CASE AdminRemove(h)
  <2>1. CASE Live /\ image.owned
    <3>1. /\ image'.row = "kept" /\ image'.owned = image.owned /\ image'.denied = image.denied
      BY <1>4, <1>a, <2>1 DEF AdminRemove, Row
    <3>2. Life!TakeDown
      BY <1>a, <1>b, <1>c, <2>1, <3>1 DEF Life!TakeDown, Life!Up, OnRecord
    <3>3. QED
      BY <3>2 DEF Life!Next
  <2>2. CASE ~(Live /\ image.owned)
    BY <1>4, <1>c, <2>2, UnseenLog DEF AdminRemove
  <2>3. QED
    BY <2>1, <2>2
<1>5. CASE Leave(h)
  <2>1. /\ image'.row = IF image.row = "live" THEN "kept" ELSE image.row
        /\ image'.owned = FALSE /\ image'.denied = image.denied
    BY <1>5, <1>a DEF Leave, Row
  <2>2. Stage' = Life!Lowered
    BY <1>a, <1>b, <2>1 DEF Life!Lowered, Row
  <2>3. Life!Leave
    BY <1>c, <2>1, <2>2 DEF Life!Leave, OnRecord
  <2>4. QED
    BY <2>3 DEF Life!Next
<1>6. QED
  BY <1>1, <1>2, <1>3, <1>4, <1>5

\* The maintenance: an image that has expired goes down, one of nobody vanishes.
LEMMA SweepSeen ==
  ASSUME Inv, Inv', RunOut \/ MarkPurged \/ DeleteOrphans
  PROVE  [Life!Next]_(Life!vars)
<1>a. /\ Live <=> Stage \in {"shown", "held"}
      /\ image.row \in {"kept", "over"} <=> Stage = "down"
      /\ image.row = "gone" <=> Stage = "gone"
      /\ image \in Row
  BY StageCases DEF StageIs
<1>b. /\ Live' <=> Stage' \in {"shown", "held"}
      /\ image'.row \in {"kept", "over"} <=> Stage' = "down"
      /\ image'.row = "gone" <=> Stage' = "gone"
  BY StageCases DEF StageIs
<1>c. UNCHANGED log /\ OnRecord' = OnRecord
  BY DEF RunOut, MarkPurged, DeleteOrphans, OnRecord
<1>1. CASE RunOut
  <2>1. /\ image.row = "kept" /\ image'.row = "over"
        /\ image'.owned = image.owned /\ image'.denied = image.denied
    BY <1>1, <1>a DEF RunOut, Row
  <2>2. QED
    BY <1>a, <1>b, <1>c, <2>1 DEF Life!vars, OnRecord
<1>2. CASE MarkPurged
  <2>1. /\ image'.row = Stamped(image.row)
        /\ image'.owned = image.owned /\ image'.denied = image.denied
    BY <1>2, <1>a DEF MarkPurged, Row
  <2>2. CASE Live
    <3>1. Stage' = "down"
      BY <1>b, <2>1, <2>2 DEF Stamped, Live
    <3>2. Life!TakeDown
      BY <1>a, <1>c, <2>1, <2>2, <3>1 DEF Life!TakeDown, Life!Up, OnRecord
    <3>3. QED
      BY <3>2 DEF Life!Next
  <2>3. CASE ~Live
    <3>1. Stage' = Stage
      BY <1>a, <1>b, <2>1, <2>3 DEF Stamped, Live, Row
    <3>2. QED
      BY <1>c, <2>1, <3>1 DEF Life!vars, OnRecord
  <2>4. QED
    BY <2>2, <2>3
<1>3. CASE DeleteOrphans
  <2>1. CASE Orphaned
    <3>1. /\ image.row = "over" /\ ~image.owned /\ OnRecord = {}
          /\ image'.row = "gone" /\ image'.owned = image.owned /\ image'.denied = image.denied
      BY <1>3, <1>a, <2>1 DEF DeleteOrphans, Orphaned, OnRecord, Row
    <3>2. Life!Vanish
      BY <1>a, <1>b, <1>c, <3>1 DEF Life!Vanish, OnRecord
    <3>3. QED
      BY <3>2 DEF Life!Next
  <2>2. CASE ~Orphaned
    BY <1>3, <1>c, <2>2, UnseenLog DEF DeleteOrphans
  <2>3. QED
    BY <2>1, <2>2
<1>4. QED
  BY <1>1, <1>2, <1>3

\* The log: a view is recorded of a row that is there; refused attempts are not views.
LEMMA LogSeen ==
  ASSUME Inv, NEW h \in Handlers, LogRender(h) \/ LogBlocked(h) \/ Erase(h)
  PROVE  [Life!Next]_(Life!vars)
<1>a. log \in [Logs -> {"none", "view", "fresh", "stale"}] /\ UNCHANGED image
  BY DEF Inv, RowsInv, LogRender, LogBlocked, Erase
<1>b. Stage' = Stage
  BY <1>a DEF Stage, There, Live, Viewable
<1>1. CASE LogRender(h)
  <2>1. CASE UNCHANGED log
    BY <1>a, <2>1, UnseenLog
  <2>2. CASE \E l \in FreeLogs : log' = [log EXCEPT ![l] = "view"]
    <3>1. PICK l \in Logs : log' = [log EXCEPT ![l] = "view"]
      BY <2>2 DEF FreeLogs
    <3>2. OnRecord' = OnRecord \cup {l}
      BY <1>a, <3>1 DEF OnRecord
    <3>3. Stage # "gone"
      BY <1>1 DEF LogRender, There, Stage, Live, Viewable
    <3>4. Life!Record(l)
      BY <1>a, <1>b, <3>2, <3>3 DEF Life!Record, OnRecord
    <3>5. QED
      BY <3>4 DEF Life!Next
  <2>3. QED
    BY <1>1, <2>1, <2>2 DEF LogRender
<1>2. CASE LogBlocked(h)
  <2>1. Knows(handler[h]) /\ handler[h].pc = "write" /\ handler[h] \in Work
    BY <1>2 DEF Inv, HandlersInv, LogBlocked, At
  <2>2. \E l \in Logs : /\ log[l] # "view"
                        /\ log' = [log EXCEPT ![l] = IF @ = "none" THEN @ ELSE "fresh"]
                           \/ log' = [log EXCEPT ![l] = "fresh"]
    BY <1>2, <2>1 DEF LogBlocked, FreeLogs, Knows, Work
  <2>3. OnRecord' = OnRecord
    BY <1>a, <2>2 DEF OnRecord
  <2>4. QED
    BY <1>a, <2>3, Unseen
<1>3. CASE Erase(h)
  <2>1. OnRecord' = {}
    BY <1>3 DEF Erase, EraseLogs, OnRecord
  <2>2. Life!Expunge
    BY <1>a, <1>b, <2>1 DEF Life!Expunge, OnRecord
  <2>3. QED
    BY <2>2 DEF Life!Next
<1>4. QED
  BY <1>1, <1>2, <1>3

\* The maintenance of the log, and the time that passes for refused attempts.
LEMMA AgingSeen ==
  ASSUME Inv, Lapse \/ Prune \/ Purge
  PROVE  [Life!Next]_(Life!vars)
<1>a. log \in [Logs -> {"none", "view", "fresh", "stale"}] /\ UNCHANGED image
  BY DEF Inv, RowsInv, Lapse, Prune, Purge
<1>b. Stage' = Stage
  BY <1>a DEF Stage, There, Live, Viewable
<1>1. CASE Lapse
  <2>1. OnRecord' = OnRecord
    BY <1>1, <1>a DEF Lapse, OnRecord
  <2>2. QED
    BY <1>a, <2>1, Unseen
<1>2. CASE Prune
  <2>1. PICK old \in SUBSET {l \in Logs : Refused(l)} :
          log' = [l \in Logs |-> IF l \in old THEN "none" ELSE log[l]]
    BY <1>2, Pruned
  <2>2. OnRecord' = OnRecord
    BY <2>1 DEF OnRecord, Refused
  <2>3. QED
    BY <1>a, <2>2, Unseen
<1>3. CASE Purge
  <2>1. OnRecord' = {}
    BY <1>3 DEF Purge, EraseLogs, OnRecord
  <2>2. Life!Expunge
    BY <1>a, <1>b, <2>1 DEF Life!Expunge, OnRecord
  <2>3. QED
    BY <2>2 DEF Life!Next
<1>4. QED
  BY <1>1, <1>2, <1>3

LEMMA LifeInit == Init => Life!Init
<1> SUFFICES ASSUME Init PROVE Life!Init
  OBVIOUS
<1>1. Stage \in {"shown", "held"} /\ image.owned = TRUE /\ image.denied = FALSE
  BY DEF Init, Stage, There, Live, Viewable
<1>2. OnRecord = {}
  BY DEF Init, OnRecord
<1>3. QED
  BY <1>1, <1>2 DEF Life!Init, OnRecord

LEMMA LifeStep ==
  ASSUME Inv, Inv', [Next]_vars
  PROVE  [Life!Next]_(Life!vars)
<1>1. ASSUME NEW h \in Handlers, Moderate(h) \/ Deletes(h) PROVE [Life!Next]_(Life!vars)
  <2>1. CASE Flag(h) \/ Allow(h) \/ Reject(h) \/ Remove(h) \/ AdminRemove(h) \/ Leave(h)
    BY <2>1, MarkingSeen
  <2>2. CASE Review(h) \/ Delete(h) \/ LeaveBegins(h)
    BY <2>2, UnseenLog DEF Review, Delete, LeaveBegins, Reads
  <2>3. QED
    BY <1>1, <2>1, <2>2 DEF Moderate, Deletes
<1>2. ASSUME NEW h \in Handlers, Views(h) PROVE [Life!Next]_(Life!vars)
  <2>1. CASE LogRender(h) \/ LogBlocked(h)
    BY <2>1, LogSeen
  <2>2. CASE Visit(h) \/ LookBlocked(h) \/ LogFails(h)
    BY <2>2, UnseenLog DEF Visit, LookBlocked, LogFails, Broken, Fails, Reads
  <2>3. QED
    BY <1>2, <2>1, <2>2 DEF Views
<1>3. ASSUME NEW h \in Handlers, Accuses(h) \/ Fails(h) PROVE [Life!Next]_(Life!vars)
  BY <1>3, UnseenLog DEF Accuses, Report, Check, File, FileFails, ViewerReports, FileLeak,
     LeakFails, Broken, Fails, Reads
<1>4. ASSUME NEW h \in Handlers, Administers(h) PROVE [Life!Next]_(Life!vars)
  <2>1. CASE Erase(h)
    BY <2>1, LogSeen
  <2>2. CASE Decide(h) \/ SetStatus(h) \/ EraseBegins(h) \/ Count(h)
    BY <2>2, UnseenLog DEF Decide, SetStatus, EraseBegins, Count, Reads
  <2>3. QED
    BY <1>4, <2>1, <2>2 DEF Administers
<1>5. CASE RunOut \/ MarkPurged \/ DeleteOrphans
  BY <1>5, SweepSeen
<1>6. CASE Lapse \/ Prune \/ Purge
  BY <1>6, AgingSeen
<1>7. CASE SweepBegins \/ List \/ SweepFails
  BY <1>7, UnseenLog DEF SweepBegins, List, SweepFails
<1>8. CASE UNCHANGED vars
  BY <1>8, UnseenLog DEF vars
<1>9. QED
  BY <1>1, <1>2, <1>3, <1>4, <1>5, <1>6, <1>7, <1>8 DEF Next, Sweeps

\* Every behaviour of the moderators, the deletions, the log and the maintenance is a
\* life of the image: down is final, and it vanishes only with no view on record.
THEOREM EvidenceImplementsLife == Spec => ImplementsLife
<1>1. Init => Life!Init
  BY LifeInit
<1>2. QED
  BY <1>1, LifeStep, EvidenceInvariant, PTL DEF Spec, ImplementsLife, Life!Spec

\* What a life promises holds of it, whatever implements it.
LEMMA LifePromises == Life!Spec => []Life!Final /\ Life!DownForGood
<1>1. Life!Init => Life!Final
  BY DEF Life!Init, Life!Final, Life!Up
<1>2. Life!Final /\ [Life!Next]_(Life!vars) => Life!Final'
  BY DEF Life!Final, Life!Up, Life!Next, Life!vars, Life!Moderate, Life!TakeDown, Life!Deny,
     Life!Leave, Life!Lowered, Life!Record, Life!Expunge, Life!Vanish
<1>3. [Life!Next]_(Life!vars) =>
        [(~Life!Up => ~Life!Up') /\ (Stage = "gone" => Stage' = "gone")]_(Life!vars)
  BY DEF Life!Up, Life!Next, Life!vars, Life!Moderate, Life!TakeDown, Life!Deny,
     Life!Leave, Life!Lowered, Life!Record, Life!Expunge, Life!Vanish
<1>4. QED
  BY <1>1, <1>2, <1>3, PTL DEF Life!Spec, Life!DownForGood

\* An image that was deleted, denied or left by its owner is not served again, and when
\* its row has gone no view is on record (review.js:153, access-log.js:63).
THEOREM DownIsFinal == Spec => []Life!Final /\ Life!DownForGood
BY EvidenceImplementsLife, LifePromises, PTL DEF ImplementsLife
===============================================================================
