----------------------------- MODULE ImageEvidence -----------------------------
(***************************************************************************)
(* What becomes of one uploaded image and of the evidence it leaves: the   *)
(* moderators' decisions (src/routes/review.js), the ways it is deleted    *)
(* (src/routes/upload.js, admin.js, src/user-deletion.js), its access log  *)
(* (src/logging.js, src/access-log.js), the reports that cite the log      *)
(* (src/routes/reports.js), and the maintenance that lets it all age out   *)
(* (src/server.js).  A handler reads, awaits, then writes by the id it     *)
(* read: between its statements any other handler or the sweep may run.    *)
(*                                                                         *)
(* Abstracted: the media, the proofs' files, tokens, mails and the audit;  *)
(* there is one visitor whom the network check refuses, for one reason;    *)
(* whether holdOnReview is set is left open; ids are not used again, so a  *)
(* name is free for a new row only when no handler holds it any more.      *)
(***************************************************************************)
EXTENDS Naturals, FiniteSets

CONSTANTS
  Handlers,  \* requests at work at once (a bound)
  Logs,      \* rows of access_logs there are at once (a bound)
  Reports,   \* rows of leak_reports there are at once (a bound)
  None,      \* no log entry, no report
  Keep       \* BLOCKED_LOG_KEEP: refused attempts kept per image

ASSUME EvidenceAssumption ==
  /\ Keep \in Nat \ {0}
  /\ None \notin Logs \cup Reports

VARIABLES
  image,    \* its row: live, deleted and within the retention window ("kept"), past it
            \* ("over") or gone; the status, while live; whether it has an owner;
            \* as history, whether an administrator has denied it
  log,      \* log[l]: no row, a view, or a refused attempt of the last ten minutes or older
  report,   \* report[r]: the row of r: whether it is there, open or closed, who filed
            \* it, and the entry it cites (access_log_id)
  handler,  \* handler[h]: where handler h is, and its local variables
  sweep     \* where runMaintenance is

vars == <<image, log, report, handler, sweep>>

NoReport == [st |-> "none", by |-> "owner", cites |-> None]
Idle == [pc |-> "idle", log |-> None, report |-> None, raced |-> FALSE]

Places == {"idle", "flag", "allow", "deny", "remove", "adminRemove", "leave",
           "view", "refuse", "write", "check", "file", "leak",
           "open", "closed", "count", "erase"}

Refused(l) == log[l] \in {"fresh", "stale"}
Cited(ls) == \E r \in Reports : report[r].cites \in ls

\* The types, and the foreign keys: a report cites an entry that is there.
TypeOK ==
  /\ image \in [row : {"live", "kept", "over", "gone"},
                status : {"ok", "review", "quarantined", "rejected"},
                owned : BOOLEAN, denied : BOOLEAN]
  /\ log \in [Logs -> {"none", "view", "fresh", "stale"}]
  /\ report \in [Reports -> [st : {"none", "open", "closed"}, by : {"owner", "viewer"},
                             cites : Logs \cup {None}]]
  /\ handler \in [Handlers -> [pc : Places, log : Logs \cup {None},
                               report : Reports \cup {None}, raced : BOOLEAN]]
  /\ sweep \in {"idle", "mark", "prune", "list", "purge", "orphans", "refused"}
  /\ \A l \in Logs : Cited({l}) => log[l] = "view"
  /\ \A r \in Reports : report[r].st # "none" /\ ~image.owned => report[r].by = "viewer"
  /\ image.row = "gone" => log = [l \in Logs |-> "none"] /\ report = [r \in Reports |-> NoReport]

\* The scan of the upload has given the status.
Init ==
  /\ image \in [row : {"live"}, status : {"ok", "review", "quarantined"},
                owned : {TRUE}, denied : {FALSE}]
  /\ log = [l \in Logs |-> "none"]
  /\ report = [r \in Reports |-> NoReport]
  /\ handler = [h \in Handlers |-> Idle]
  /\ sweep = "idle"

There == image.row # "gone"
Live == image.row = "live"
Retained == image.row \in {"live", "kept"}

FreeLogs == {l \in Logs : log[l] = "none" /\ \A h \in Handlers : handler[h].log # l}
FreeReports == {r \in Reports : report[r].st = "none"
                                /\ \A h \in Handlers : handler[h].report # r}
-------------------------------------------------------------------------------
(***************************************************************************)
(* A handler: it reads, and goes on to what it will do.                    *)
(***************************************************************************)
At(h, pc) == handler[h].pc = pc
Ends(h) == handler' = [handler EXCEPT ![h] = Idle]

Reads(h, pcs) ==
  /\ At(h, "idle")
  /\ \E pc \in pcs : handler' = [handler EXCEPT ![h].pc = pc]
  /\ UNCHANGED <<image, log, report, sweep>>

\* A database error: nothing is written any more.
Fails(h) ==
  /\ ~At(h, "idle") /\ Ends(h)
  /\ UNCHANGED <<image, log, report, sweep>>

\* A row of the image is written: it must be there.
Broken(h) == ~There /\ Fails(h)

\* History: what others have looked for and not found is there now.
Raced(h, others) ==
  handler' = [g \in Handlers |->
    IF g = h THEN Idle
    ELSE IF g \in others THEN [handler[g] EXCEPT !.raced = TRUE] ELSE handler[g]]
-------------------------------------------------------------------------------
(***************************************************************************)
(* Moderation and deletion.  What nobody reads is not kept: the status of  *)
(* an image that is not live.                                              *)
(***************************************************************************)
Review(h) == Live /\ Reads(h, {"flag", "allow", "deny"})

Marked(status) ==
  image' = IF Live THEN [image EXCEPT !.status = status] ELSE image

\* flagForReview and setApproved, on the row with the id that was read.
Flag(h) ==
  /\ At(h, "flag") /\ Marked("review") /\ Ends(h)
  /\ UNCHANGED <<log, report, sweep>>

Allow(h) ==
  /\ At(h, "allow") /\ Marked("ok") /\ Ends(h)
  /\ UNCHANGED <<log, report, sweep>>

\* deleted_at is set to the time, whether it was set before or not.
Stamped(row) == IF row = "gone" THEN row ELSE "kept"

\* Mutant: only the status says that it has been rejected.
RejectStatus(h) ==
  /\ At(h, "deny") /\ Ends(h)
  /\ image' = [image EXCEPT !.denied = TRUE, !.status = IF Live THEN "rejected" ELSE @]
  /\ UNCHANGED <<log, report, sweep>>
\* rejectImg: Deny, Blocklist, and Blocklist and ban.
Reject(h) ==
  /\ At(h, "deny") /\ Ends(h)
  /\ image' = [image EXCEPT !.denied = TRUE, !.row = Stamped(@), !.status = "rejected"]
  /\ UNCHANGED <<log, report, sweep>>

\* By its owner, or by the view that reaches the limit: unguarded.  By an
\* administrator: what is live only.
Delete(h) == Live /\ image.owned /\ Reads(h, {"remove", "adminRemove"})

Remove(h) ==
  /\ At(h, "remove") /\ Ends(h)
  /\ image' = [image EXCEPT !.row = Stamped(@), !.status = "rejected"]
  /\ UNCHANGED <<log, report, sweep>>

AdminRemove(h) ==
  /\ At(h, "adminRemove") /\ Ends(h)
  /\ image' = IF Live /\ image.owned THEN [image EXCEPT !.row = "kept", !.status = "rejected"]
              ELSE image
  /\ UNCHANGED <<log, report, sweep>>

\* deleteUserAccount: the stored files go first, then the rows in one batch.  The
\* reports of the account cascade, the image loses its owner.
LeaveBegins(h) == image.owned /\ Reads(h, {"leave"})

Leave(h) ==
  /\ At(h, "leave") /\ Ends(h)
  /\ image' = [image EXCEPT !.owned = FALSE, !.row = IF @ = "live" THEN "kept" ELSE @,
                            !.status = "rejected"]
  /\ report' = [r \in Reports |-> IF report[r].by = "owner" THEN NoReport ELSE report[r]]
  /\ UNCHANGED <<log, sweep>>
-------------------------------------------------------------------------------
(***************************************************************************)
(* The access log.                                                         *)
(***************************************************************************)
Visit(h) == Live /\ Reads(h, {"view", "refuse"})

\* logRender and logClient: a row for the view, or the one there is.
LogRender(h) ==
  /\ At(h, "view") /\ There /\ Ends(h)
  /\ \/ \E l \in FreeLogs : log' = [log EXCEPT ![l] = "view"]
     \/ (\E l \in Logs : log[l] = "view") /\ UNCHANGED log
  /\ UNCHANGED <<image, report, sweep>>

\* logBlocked looks for an attempt of the last ten minutes...
LookBlocked(h) ==
  /\ At(h, "refuse")
  /\ LET recent == {l \in Logs : log[l] = "fresh"} IN
     \E l \in (IF recent = {} THEN {None} ELSE recent) :
       handler' = [handler EXCEPT ![h].pc = "write", ![h].log = l]
  /\ UNCHANGED <<image, log, report, sweep>>

Writing(h) == {g \in Handlers \ {h} : At(g, "write")}

\* ... and counts another one there, if the row has not gone, or inserts a row.
LogBlocked(h) ==
  LET l == handler[h].log IN
  /\ At(h, "write")
  /\ IF l # None
     THEN log' = [log EXCEPT ![l] = IF @ = "none" THEN @ ELSE "fresh"]
     ELSE There /\ \E free \in FreeLogs : log' = [log EXCEPT ![free] = "fresh"]
  /\ Raced(h, Writing(h))
  /\ UNCHANGED <<image, report, sweep>>

\* The row that should take it is of an image that has gone.
LogFails(h) ==
  /\ At(h, "view") \/ (At(h, "write") /\ handler[h].log = None)
  /\ Broken(h)

\* Ten minutes go by.
Lapse ==
  /\ \E l \in Logs : log[l] = "fresh" /\ log' = [log EXCEPT ![l] = "stale"]
  /\ UNCHANGED <<image, report, handler, sweep>>
-------------------------------------------------------------------------------
(***************************************************************************)
(* Reports.                                                                *)
(***************************************************************************)
\* getOwnerLog passes over refused attempts.
Entries == {l \in Logs : log[l] = "view"}

Report(h) ==
  /\ At(h, "idle") /\ image.owned /\ Retained
  /\ \E l \in Entries : handler' = [handler EXCEPT ![h].pc = "check", ![h].log = l]
  /\ UNCHANGED <<image, log, report, sweep>>

\* Mutant: an open report is looked for.
ReportedOpenly(l) == \E r \in Reports : report[r].cites = l /\ report[r].st = "open"
\* existingLogReport.
Reported(l) == \E r \in Reports : report[r].cites = l

Check(h) ==
  /\ At(h, "check")
  /\ handler' = [handler EXCEPT ![h] = IF Reported(@.log) THEN Idle ELSE [@ EXCEPT !.pc = "file"]]
  /\ UNCHANGED <<image, log, report, sweep>>

Erasing(h) == {g \in Handlers \ {h} : At(g, "erase")}
Filing(h, l) == {g \in Handlers \ {h} : At(g, "file") /\ handler[g].log = l}

\* insertReport, once the proofs have been looked at: what it refers to must be there.
File(h) ==
  LET l == handler[h].log IN
  /\ At(h, "file") /\ log[l] # "none" /\ image.owned
  /\ \E r \in FreeReports :
       report' = [report EXCEPT ![r] = [st |-> "open", by |-> "owner", cites |-> l]]
  /\ Raced(h, Erasing(h) \cup Filing(h, l))
  /\ UNCHANGED <<image, log, sweep>>

FileFails(h) ==
  At(h, "file") /\ (log[handler[h].log] = "none" \/ ~image.owned) /\ Fails(h)

\* A viewer's report cites no entry.
ViewerReports(h) == Live /\ Reads(h, {"leak"})

FileLeak(h) ==
  /\ At(h, "leak") /\ There /\ Ends(h)
  /\ \E r \in FreeReports :
       report' = [report EXCEPT ![r] = [st |-> "open", by |-> "viewer", cites |-> None]]
  /\ UNCHANGED <<image, log, sweep>>

LeakFails(h) == At(h, "leak") /\ Broken(h)

\* An administrator closes a report, or opens it again.
Decide(h) ==
  /\ At(h, "idle")
  /\ \E r \in Reports, st \in {"open", "closed"} :
       /\ report[r].st # "none"
       /\ handler' = [handler EXCEPT ![h].pc = st, ![h].report = r]
  /\ UNCHANGED <<image, log, report, sweep>>

SetStatus(h) ==
  LET r == handler[h].report IN
  /\ handler[h].pc \in {"open", "closed"}
  /\ report' = [report EXCEPT ![r].st = IF @ = "none" THEN @ ELSE handler[h].pc]
  /\ Raced(h, IF At(h, "open") /\ report[r].cites # None THEN Erasing(h) ELSE {})
  /\ UNCHANGED <<image, log, sweep>>
-------------------------------------------------------------------------------
(***************************************************************************)
(* Erasing the log: by an administrator of the owner rank...               *)
(***************************************************************************)
EraseBegins(h) == Retained /\ Reads(h, {"count"})

\* Mutant: reports that cite nothing are counted in place of those that cite.
OpenOnImage == {r \in Reports : report[r].st = "open" /\ report[r].cites = None}
\* openReportCount.
OpenReports == {r \in Reports : report[r].st = "open" /\ report[r].cites # None}

Count(h) ==
  /\ At(h, "count")
  /\ handler' = [handler EXCEPT ![h] = IF OpenReports # {} THEN Idle
                                       ELSE [@ EXCEPT !.pc = "erase"]]
  /\ UNCHANGED <<image, log, report, sweep>>

\* Mutant: the citations are left in place, and the foreign key refuses the deletion.
LeaveCited ==
  IF Cited(Logs) THEN UNCHANGED <<log, report>>
  ELSE log' = [l \in Logs |-> "none"] /\ UNCHANGED report
\* The batch of eraseForImage and of purgeExpired.
EraseLogs ==
  /\ report' = [r \in Reports |-> [report[r] EXCEPT !.cites = None]]
  /\ log' = [l \in Logs |-> "none"]

Erase(h) ==
  /\ At(h, "erase") /\ EraseLogs /\ Ends(h)
  /\ UNCHANGED <<image, sweep>>

(***************************************************************************)
(* ... and by runMaintenance.  An image is "over" by the time its round    *)
(* began, so what runs out during a round is for the next one.  It is      *)
(* "refused" by a foreign key; any error ends the round.                   *)
(***************************************************************************)
RunOut ==
  /\ sweep = "idle" /\ image.row = "kept"
  /\ image' = [image EXCEPT !.row = "over"]
  /\ UNCHANGED <<log, report, handler, sweep>>

\* The image has expired, or it has not.
SweepBegins ==
  /\ sweep = "idle"
  /\ sweep' \in IF Live THEN {"mark", "prune"} ELSE {"prune"}
  /\ UNCHANGED <<image, log, report, handler>>

\* markPurged, unguarded.
MarkPurged ==
  /\ sweep = "mark" /\ sweep' = "prune"
  /\ image' = [image EXCEPT !.row = Stamped(@), !.status = "rejected"]
  /\ UNCHANGED <<log, report, handler>>

\* pruneBlockedLogs: the newest stay.
Prune ==
  /\ sweep = "prune"
  /\ LET refused == {l \in Logs : Refused(l)} IN
     IF Cardinality(refused) <= Keep THEN sweep' = "list" /\ UNCHANGED log
     ELSE \E old \in SUBSET refused :
       /\ Cardinality(refused \ old) = Keep
       /\ \A l \in old, k \in refused \ old : log[l] = "fresh" => log[k] = "fresh"
       /\ IF Cited(old) THEN sweep' = "refused" /\ UNCHANGED log
          ELSE /\ sweep' = "list"
               /\ log' = [l \in Logs |-> IF l \in old THEN "none" ELSE log[l]]
  /\ UNCHANGED <<image, report, handler>>

\* purgeExpired.
List ==
  /\ sweep = "list"
  /\ sweep' = IF image.row = "over" THEN "purge" ELSE "orphans"
  /\ UNCHANGED <<image, log, report, handler>>

Purge ==
  /\ sweep = "purge" /\ EraseLogs
  /\ sweep' = IF log' = [l \in Logs |-> "none"] THEN "orphans" ELSE "refused"
  /\ UNCHANGED <<image, handler>>

\* Nobody's image goes once its log has gone; its reports cascade.
Orphaned == ~image.owned /\ image.row = "over" /\ \A l \in Logs : log[l] = "none"

DeleteOrphans ==
  /\ sweep = "orphans" /\ sweep' = "idle"
  /\ image' = IF Orphaned THEN [image EXCEPT !.row = "gone"] ELSE image
  /\ report' = IF Orphaned THEN [r \in Reports |-> NoReport] ELSE report
  /\ UNCHANGED <<log, handler>>

SweepFails ==
  /\ sweep # "idle" /\ sweep' = "idle"
  /\ UNCHANGED <<image, log, report, handler>>
-------------------------------------------------------------------------------
Moderate(h) == Review(h) \/ Flag(h) \/ Allow(h) \/ Reject(h)
Deletes(h) == Delete(h) \/ Remove(h) \/ AdminRemove(h) \/ LeaveBegins(h) \/ Leave(h)
Views(h) == Visit(h) \/ LogRender(h) \/ LookBlocked(h) \/ LogBlocked(h) \/ LogFails(h)
Accuses(h) == \/ Report(h) \/ Check(h) \/ File(h) \/ FileFails(h)
              \/ ViewerReports(h) \/ FileLeak(h) \/ LeakFails(h)
Administers(h) == Decide(h) \/ SetStatus(h) \/ EraseBegins(h) \/ Count(h) \/ Erase(h)
Sweeps == SweepBegins \/ MarkPurged \/ Prune \/ List \/ Purge \/ DeleteOrphans

Next ==
  \/ \E h \in Handlers : \/ Moderate(h) \/ Deletes(h) \/ Views(h)
                         \/ Accuses(h) \/ Administers(h) \/ Fails(h)
  \/ Lapse \/ RunOut \/ Sweeps \/ SweepFails

Spec == Init /\ [][Next]_vars
-------------------------------------------------------------------------------
\* Served, if holdOnReview is off.
Viewable == Live /\ image.status \in {"ok", "review"}

\* An image that an administrator has denied, or whose owner has deleted the account,
\* is not served again, whatever Allow, flag or deletion had read the row before
\* (review.js:153, review.js:162, user-deletion.js:38).
StaysDown == image.denied \/ ~image.owned => ~Viewable

\* What can be relied on of all this: ImageLife.  The rows that are kept or over are down.
Stage == IF ~There THEN "gone" ELSE IF ~Live THEN "down"
         ELSE IF Viewable THEN "shown" ELSE "held"

Life == INSTANCE ImageLife WITH
  stage <- Stage, owned <- image.owned, denied <- image.denied,
  views <- {l \in Logs : log[l] = "view"}

\* No late Allow, flag, deletion or maintenance brings back an image that is down, denied
\* or nobody's, although each writes by the id of a row it read before; no row is purged
\* while a view is on record, and no view is recorded of a row that is gone
\* (review.js:153, user-deletion.js:39, access-log.js:63).
ImplementsLife == Life!Spec

\* No foreign key refuses the maintenance, which would then never get as far as what
\* comes after: no refused attempt is cited, and no entry is deleted while it is cited
\* (access-log.js:56, logging.js:77, reports.js:50).
RetentionProceeds == TypeOK /\ sweep # "refused"

\* The entry of a view is deleted by the retention of a deleted image, or by an
\* administrator; with an open report that cites it, only if that report was filed or
\* opened again after the administrator's request had counted (access-log.js:41).
EvidenceKept ==
  [][\A l \in Logs : log[l] = "view" /\ log'[l] # "view" =>
       \/ sweep = "purge" /\ ~Live
       \/ \E h \in Handlers :
            /\ At(h, "erase") /\ handler'[h] = Idle
            /\ \/ handler[h].raced
               \/ \A r \in Reports : report[r].cites = l => report[r].st = "closed"]_vars

\* A second report on an entry, or a second row for the attempts of one visitor within
\* ten minutes, is inserted only by a request that had looked before the first was there
\* (reports.js:166, logging.js:55).
SecondRow == \E l \in Logs : \E k \in Logs \ {l} :
  log[l] = "none" /\ log'[l] = "fresh" /\ log[k] = "fresh"
SecondReport == \E r \in Reports : \E q \in Reports \ {r} :
  report[r].st = "none" /\ report'[r].cites # None /\ report'[r].cites = report[q].cites
NoDuplicates ==
  [][SecondRow \/ SecondReport =>
       \E h \in Handlers : handler[h].raced /\ handler'[h] = Idle]_vars
===============================================================================
