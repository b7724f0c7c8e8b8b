---------------------------- MODULE UploadPipeline ----------------------------
(***************************************************************************)
(* The uploads of one user (src/routes/upload.js): a request of one or     *)
(* several files is checked against the quota, and each file is probed,    *)
(* normalised if it is a video, scanned, stored and inserted, one after    *)
(* the other; when one fails the request takes the earlier ones back.      *)
(* Meanwhile the user deletes images, the maintenance sweep purges expired *)
(* ones, and the account itself is deleted (src/user-deletion.js).         *)
(*                                                                         *)
(* Abstracted: the length of every received file is 1; the verdict of the  *)
(* scan and the rows of the gallery, which nothing here depends on.        *)
(***************************************************************************)
EXTENDS Naturals, FiniteSetsExt

CONSTANTS
  Requests,   \* upload requests; each is made at most once (a bound)
  Count,      \* Count[r]: how many files request r carries
  Chunked,    \* the requests that are /upload/complete; the others are /upload
  Limit,      \* ranks.limits(user).storageBytes, in files
  Normalize,  \* config.ffmpeg.normalizeOnUpload
  Videos,     \* config.video.uploadsEnabled
  Faults      \* TRUE: I/O and database errors and crashes may happen

ASSUME UploadsAssumption ==
  /\ Count \in [Requests -> Nat \ {0}]
  /\ Chunked \subseteq Requests
  /\ Limit \in Nat
  /\ {Normalize, Videos, Faults} \subseteq BOOLEAN

Items == UNION {{<<r, i>> : i \in 1..Count[r]} : r \in Requests}
ItemsOf(r) == {<<r, i>> : i \in 1..Count[r]}

VARIABLES
  image,     \* image[x]: the row of file x in images
  store,     \* the files whose object is in the store, up to the call of
             \* storage.remove, which is seldom waited for and may fail
  temp,      \* temp[x]: the copies of x in the temp directory, up to the call of
             \* fs.unlink, which nobody waits for
  req,       \* req[r]: where the handler of r is, and its local variables
  account,   \* the user's row, and the handler that deletes the account
  late,      \* history: requests that passed the quota while another was at work
  missed,    \* history: media that nobody is going to remove
  hollow     \* history: rows that lost their media to the deletion of the
             \* account or to a failed read-back, before they were deleted

vars == <<image, store, temp, req, account, late, missed, hollow>>

NoRow == [row |-> "none", bytes |-> 0]
Deleted == [row |-> "deleted", bytes |-> 0]    \* nothing counts its bytes any more

Idle == [pc |-> "idle", file |-> 1, media |-> "upload", undone |-> 0]

Working == {"assemble", "probe", "normalise", "scan", "insert", "readback",
            "gallery"}
Ended == {"stored", "failed", "broken"}

TypeOK ==
  /\ image \in [Items -> [row : {"none", "live", "expired", "deleted"}, bytes : 0..2]]
  /\ store \subseteq Items
  /\ temp \in [Items -> SUBSET {"upload", "normal"}]
  /\ req \in [Requests ->
       [pc : {"idle", "quota", "undo"} \cup Working \cup Ended,
        file : Nat, media : {"upload", "normal"}, undone : Nat]]
  /\ \A r \in Requests : req[r].file \in 1..Count[r] /\ req[r].undone < Count[r]
  /\ account \in [user : BOOLEAN, pc : {"idle", "removing"}, list : SUBSET Items]
  /\ late \subseteq Requests /\ missed \subseteq Items /\ hollow \subseteq Items

Init ==
  /\ image = [x \in Items |-> NoRow]
  /\ store = {}
  /\ temp = [x \in Items |-> {}]
  /\ req = [r \in Requests |-> Idle]
  /\ account = [user |-> TRUE, pc |-> "idle", list |-> {}]
  /\ late = {} /\ missed = {} /\ hollow = {}

Live == {x \in Items : image[x].row \in {"live", "expired"}}   \* deleted_at IS NULL
Used == MapThenSumSet(LAMBDA x : image[x].bytes, Live)

Current(r) == <<r, req[r].file>>
Goto(r, pc) == req' = [req EXCEPT ![r].pc = pc]
Finish(r, pc) == req' = [req EXCEPT ![r] = [Idle EXCEPT !.pc = pc]]
BeingInserted(x) == req[x[1]].pc = "insert" /\ Current(x[1]) = x
AtWork(r) == req[r].pc \in Working \cup {"undo"}

\* The loop turns to a file: /upload/complete has to assemble it first.
FirstStep(r) == IF r \in Chunked THEN "assemble" ELSE "probe"

\* fs.unlink of a copy, and removeStaged; a path that is not there is ignored.
Unlink(x, copy) == temp' = [temp EXCEPT ![x] = @ \ {copy}]
RemoveStaged(r) ==
  temp' = [x \in Items |-> IF x[1] = r THEN temp[x] \ {"upload"} ELSE temp[x]]
-------------------------------------------------------------------------------
(***************************************************************************)
(* Receiving a request and the quota.                                      *)
(***************************************************************************)
\* multer has written the files of a multipart request; the slices of a
\* chunked one are complete (ChunkedUpload).
Receive(r) ==
  /\ req[r].pc = "idle" /\ account.user
  /\ Goto(r, "quota")
  /\ temp' = IF r \in Chunked THEN temp
             ELSE [x \in Items |-> IF x[1] = r THEN {"upload"} ELSE temp[x]]
  /\ UNCHANGED <<image, store, account, late, missed, hollow>>

\* CSRF, the bot check, the limit per file, the quota.
Refuse(r) ==
  /\ req[r].pc = "quota"
  /\ Finish(r, "failed")
  /\ RemoveStaged(r)
  /\ UNCHANGED <<image, store, account, late, missed, hollow>>

\* Mutant: what the request brings is not added.
FitsByUse(r) == Used <= Limit
Fits(r) == Used + Count[r] <= Limit

Admit(r) ==
  /\ req[r].pc = "quota" /\ Fits(r)
  /\ Goto(r, FirstStep(r))
  /\ late' = IF \E q \in Requests : AtWork(q) THEN late \cup {r} ELSE late
  /\ UNCHANGED <<image, store, temp, account, missed, hollow>>
-------------------------------------------------------------------------------
(***************************************************************************)
(* One file: assemble, probe, normalise, scan.                             *)
(***************************************************************************)
\* The catch of the loop.  A chunked request discards its sessions, whose
\* slices are not among the copies here.
Fail(r) ==
  /\ req' = [req EXCEPT ![r].pc = "undo", ![r].media = "upload"]
  /\ IF r \in Chunked THEN temp' = temp ELSE RemoveStaged(r)

Assemble(r) ==
  /\ req[r].pc = "assemble"
  /\ Goto(r, "probe")
  /\ temp' = [temp EXCEPT ![Current(r)] = {"upload"}]
  /\ UNCHANGED <<image, store, account, late, missed, hollow>>

\* The session was voided meanwhile, or the file is no media, or a video
\* where videos are not allowed.
FileRefused(r) ==
  /\ req[r].pc \in {"assemble", "probe"}
  /\ Fail(r)
  /\ UNCHANGED <<image, store, account, late, missed, hollow>>

Probe(r) ==
  /\ req[r].pc = "probe"
  /\ \E pc \in {"scan"} \cup (IF Videos /\ Normalize THEN {"normalise"} ELSE {}) :
       Goto(r, pc)
  /\ UNCHANGED <<image, store, temp, account, late, missed, hollow>>

\* Transcoded, the original unlinked, the copy measured and probed.
Normalise(r) ==
  /\ req[r].pc = "normalise"
  /\ req' = [req EXCEPT ![r].pc = "scan", ![r].media = "normal"]
  /\ temp' = [temp EXCEPT ![Current(r)] = {"normal"}]
  /\ UNCHANGED <<image, store, account, late, missed, hollow>>

\* One catch for ffmpeg, and for the measuring that comes when the copy has
\* already replaced the original: it unlinks the copy, and that is all.
NormaliseFails(r) ==
  /\ req[r].pc = "normalise"
  /\ \/ Goto(r, "scan") /\ temp' = temp
     \/ /\ req' = [req EXCEPT ![r].pc = "scan", ![r].media = "normal"]
        /\ temp' = [temp EXCEPT ![Current(r)] = {}]
  /\ UNCHANGED <<image, store, account, late, missed, hollow>>
-------------------------------------------------------------------------------
(***************************************************************************)
(* One file: store and insert.  A scan that fails is a verdict like any.   *)
(***************************************************************************)
\* An unlinked copy may still be there when storage.put opens it.
Put(r) ==
  /\ req[r].pc = "scan"
  /\ Goto(r, "insert")
  /\ store' = store \cup {Current(r)}
  /\ Unlink(Current(r), req[r].media)
  /\ UNCHANGED <<image, account, late, missed, hollow>>

\* Or it is gone.  A piece that the local store may keep under the name of no
\* row does not count as an object.
PutFails(r) ==
  /\ req[r].pc = "scan" /\ (Faults \/ req[r].media \notin temp[Current(r)])
  /\ Fail(r)
  /\ UNCHANGED <<image, store, account, late, missed, hollow>>

\* storedSize: a normalised file may be longer than the one that was checked.
Insert(r) ==
  /\ req[r].pc = "insert" /\ account.user
  /\ req' = [req EXCEPT ![r].pc = "readback", ![r].media = "upload"]
  /\ \E n \in IF req[r].media = "normal" THEN {1, 2} ELSE {1} :
       image' = [image EXCEPT ![Current(r)] = [row |-> "live", bytes |-> n]]
  /\ missed' = IF account.pc = "removing" THEN missed \cup {Current(r)} ELSE missed
  /\ UNCHANGED <<store, temp, account, late, hollow>>

InsertFails(r) ==
  /\ req[r].pc = "insert" /\ (Faults \/ ~account.user)
  /\ Fail(r)
  /\ store' = store \ {Current(r)}
  /\ UNCHANGED <<image, account, late, missed, hollow>>

\* The row is read again; if that fails it stays, without its media.
ReadBackFails(r) ==
  /\ req[r].pc = "readback" /\ Faults
  /\ Fail(r)
  /\ store' = store \ {Current(r)}
  /\ hollow' = hollow \cup ({Current(r)} \cap Live)
  /\ UNCHANGED <<image, account, late, missed>>

ReadBack(r) ==
  /\ req[r].pc = "readback"
  /\ IF req[r].file < Count[r]
     THEN req' = [req EXCEPT ![r].pc = FirstStep(r), ![r].file = @ + 1]
     ELSE IF Count[r] > 1 THEN Goto(r, "gallery") ELSE Finish(r, "stored")
  /\ UNCHANGED <<image, store, temp, account, late, missed, hollow>>

Gallery(r) ==
  /\ req[r].pc = "gallery" /\ account.user
  /\ Finish(r, "stored")
  /\ UNCHANGED <<image, store, temp, account, late, missed, hollow>>
-------------------------------------------------------------------------------
(***************************************************************************)
(* Taking a failed request back.                                           *)
(***************************************************************************)
\* Mutant: the media is removed, the row is not deleted.
UndoMediaOnly(r) ==
  /\ req[r].pc = "undo" /\ req[r].undone + 1 < req[r].file
  /\ req' = [req EXCEPT ![r].undone = @ + 1]
  /\ store' = store \ {<<r, req[r].undone + 1>>}
  /\ UNCHANGED <<image, temp, account, late, missed, hollow>>

\* The soft deletion of a row, then the removal nobody waits for.
TakeDown(x) ==
  /\ image' = [image EXCEPT ![x] = Deleted]
  /\ store' = store \ {x} /\ missed' = missed \ {x} /\ hollow' = hollow \ {x}

Undo(r) ==
  /\ req[r].pc = "undo" /\ req[r].undone + 1 < req[r].file
  /\ req' = [req EXCEPT ![r].undone = @ + 1]
  /\ TakeDown(<<r, req[r].undone + 1>>)
  /\ UNCHANGED <<temp, account, late>>

\* Mutant: the answer does not wait for the rows.
AnswerEarly(r) ==
  /\ req[r].pc = "undo"
  /\ Finish(r, "failed")
  /\ UNCHANGED <<image, store, temp, account, late, missed, hollow>>

Answer(r) ==
  /\ req[r].pc = "undo" /\ req[r].undone + 1 = req[r].file
  /\ Finish(r, "failed")
  /\ UNCHANGED <<image, store, temp, account, late, missed, hollow>>
-------------------------------------------------------------------------------
(***************************************************************************)
(* The rest of the program, for the images of this user.                   *)
(***************************************************************************)
DeleteImage(x) ==
  /\ x \in Live /\ account.user
  /\ TakeDown(x)
  /\ UNCHANGED <<temp, req, account, late>>

\* runMaintenance starts the removal before it marks the row; a pass that
\* fails in between is repeated ten minutes later.
Purge(x) ==
  /\ x \in Live
  /\ image' = [image EXCEPT ![x].row = "expired"]
  /\ store' = store \ {x} /\ missed' = missed \ {x} /\ hollow' = hollow \ {x}
  /\ UNCHANGED <<temp, req, account, late>>

MarkPurged(x) ==
  /\ image[x].row = "expired"
  /\ image' = [image EXCEPT ![x] = Deleted]
  /\ UNCHANGED <<store, temp, req, account, late, missed, hollow>>

\* deleteUserAccount: the list, the removals one by one, the batch.
DeleteAccount ==
  /\ account.user /\ account.pc = "idle"
  /\ account' = [account EXCEPT !.pc = "removing", !.list = Live]
  /\ missed' = missed \ Live
  /\ UNCHANGED <<image, store, temp, req, late, hollow>>

RemoveListed(x) ==
  /\ account.pc = "removing" /\ x \in account.list
  /\ account' = [account EXCEPT !.list = @ \ {x}]
  /\ store' = store \ {x} /\ hollow' = hollow \cup ({x} \cap Live)
  /\ UNCHANGED <<image, temp, req, late, missed>>

DeleteAccountFails ==
  /\ account.pc = "removing" /\ Faults
  /\ account' = [account EXCEPT !.pc = "idle", !.list = {}]
  /\ UNCHANGED <<image, store, temp, req, late, missed, hollow>>

CommitReady == account.pc = "removing" /\ account.list = {}

CommitDeletion ==
  /\ CommitReady
  /\ image' = [x \in Items |-> IF x \in Live THEN Deleted ELSE image[x]]
  /\ account' = [user |-> FALSE, pc |-> "idle", list |-> {}]
  /\ hollow' = hollow \ Live
  /\ UNCHANGED <<store, temp, req, late, missed>>
-------------------------------------------------------------------------------
(***************************************************************************)
(* The end of the process.                                                 *)
(***************************************************************************)
\* Every handler is gone.  It may have died between the soft deletion of a row
\* and the removal (cut), or between storing an object and its row.
Die(cut) ==
  /\ req' = [r \in Requests |->
       IF req[r].pc \in {"idle"} \cup Ended THEN req[r] ELSE [Idle EXCEPT !.pc = "broken"]]
  /\ image' = [x \in Items |-> IF x \in cut THEN Deleted ELSE image[x]]
  /\ missed' = missed \cup cut \cup {x \in Items : BeingInserted(x)}
  /\ account' = [account EXCEPT !.pc = "idle", !.list = {}]
  /\ hollow' = hollow \ cut
  /\ UNCHANGED <<store, temp, late>>

Crash == Faults /\ \E cut \in {{}} \cup {{x} : x \in Live} : Die(cut)

\* An error outside the loop's try: of the quota's query, of the undo, of the
\* gallery (whose owner may be gone).  Express answers 500 for a chunked
\* request; in the callback of multer nobody handles the rejection, and Node
\* ends the process.
Uncaught(r) ==
  /\ \/ req[r].pc \in {"quota", "undo", "gallery"} /\ Faults
     \/ req[r].pc = "gallery" /\ ~account.user
  /\ IF r \in Chunked
     THEN /\ Finish(r, "broken")
          /\ UNCHANGED <<image, store, temp, account, late, missed, hollow>>
     ELSE Die({})
-------------------------------------------------------------------------------
File(r) ==
  \/ Assemble(r) \/ FileRefused(r) \/ Probe(r)
  \/ Normalise(r) \/ NormaliseFails(r)
  \/ Put(r) \/ PutFails(r) \/ Insert(r) \/ InsertFails(r) \/ ReadBack(r) \/ ReadBackFails(r)

Next ==
  \/ \E r \in Requests :
       \/ Receive(r) \/ Refuse(r) \/ Admit(r) \/ File(r) \/ Gallery(r)
       \/ Undo(r) \/ Answer(r) \/ Uncaught(r)
  \/ \E x \in Items : DeleteImage(x) \/ Purge(x) \/ MarkPurged(x) \/ RemoveListed(x)
  \/ DeleteAccount \/ DeleteAccountFails \/ CommitDeletion \/ Crash

Spec == Init /\ [][Next]_vars
-------------------------------------------------------------------------------
(***************************************************************************)
(* Properties.                                                             *)
(***************************************************************************)
\* A row that viewers may open has its media, unless the deletion of the
\* account has got to it, or it is the row of an upload whose read-back failed.
LiveHasMedia ==
  \A x \in Live \ store : image[x].row = "expired" \/ x \in hollow

\* Whoever ends a row, the user, the sweep, a failed request or the deletion of
\* the account, has the media removed, and media whose row could not be written
\* is removed too.  Excepted are a process that died in between, and an image
\* that was inserted while the deletion of its account was at work.
DeadHasNoMedia ==
  \A x \in store \ Live : BeingInserted(x) \/ x \in missed

\* Rows and media tell the same story, in any order of uploads and deletions.
RowsAndMediaAgree == TypeOK /\ LiveHasMedia /\ DeadHasNoMedia

\* The quota is read long before the rows it allows are written.  The bytes
\* of a user exceed it at most by what overlapping requests brought, and by
\* what normalisation added.
OverrunBounded ==
  Used <= Limit + MapThenSumSet(LAMBDA r : Count[r], late)
                + MapThenSumSet(LAMBDA x : image[x].bytes - 1, Live)

\* A request that was answered with an error has left no image and no media
\* behind, whichever of its files failed and whatever was deleted meanwhile.
\* The row whose read-back failed stays, but only that: an empty one.
FailedRequestUndone ==
  \A r \in Requests : req[r].pc = "failed" => ItemsOf(r) \cap Live \cap store = {}
================================================================================
