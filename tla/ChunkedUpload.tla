----------------------------- MODULE ChunkedUpload -----------------------------
(***************************************************************************)
(* One upload session of src/chunked-upload.js with the handlers that use  *)
(* it in src/routes/upload.js: slices are posted concurrently, staged as   *)
(* one file per index, and assembled by /upload/complete.  The session     *)
(* object is changed between two awaits; writes, reads and unlinks of the  *)
(* staged files are awaited, or not waited for at all, and interleave.     *)
(* The client is arbitrary: any slice may be sent for any index, again and *)
(* in any order, and /upload/complete may be sent at any time.             *)
(*                                                                         *)
(* Abstracted: the bytes of a slice are its length.  session.done is set   *)
(* in the same turn as the session is discarded, so nothing ever reads it. *)
(***************************************************************************)
EXTENDS Integers, FiniteSetsExt

CONSTANTS
  ChunkRequests,  \* requests to /upload/chunk, each made at most once (a bound)
  Completions,    \* requests to /upload/complete, each made at most once (a bound)
  ChunkBytes,     \* config.chunkedUpload.chunkBytes
  Declared,       \* session.size, the length declared at /upload/init
  MaxRestarts     \* how often the process dies (a bound)

ASSUME UploadAssumption ==
  ChunkBytes \in Nat \ {0} /\ Declared \in Nat \ {0} /\ MaxRestarts \in Nat

\* Math.ceil(size / chunkBytes), which is at least 1.
TotalChunks == (Declared + ChunkBytes - 1) \div ChunkBytes
Indexes == 1..TotalChunks
Lengths == 1..ChunkBytes

VARIABLES
  session,   \* the session object; alive while it is in the Map of sessions
  expired,   \* the session is older than sessionTtlMs
  chunk,     \* the chunk requests
  complete,  \* the completions
  disk,      \* disk[i]: the length of the staged file of index i, Torn or Absent
  aged,      \* the indexes whose file was last written more than a ttl ago
  unlinks,   \* the indexes with an fs.unlink not executed yet
  mixed,     \* history: slices of different lengths raced for one index
  restarts   \* how often the process has died

sessionVars == <<session, expired, chunk, complete, disk, aged, unlinks, mixed, restarts>>

Absent == -1
Torn == 0        \* opened and truncated, not completely written
Unsure == -1     \* the length of an assembly that writes may interfere with

\* bytes is negative when a write fails after its session was discarded: the
\* reservation it hands back is one the cleared session no longer counts.
SessionTypeOK ==
  /\ session \in [alive : BOOLEAN, received : [Indexes -> 0..ChunkBytes], bytes : Int]
  /\ chunk \in [ChunkRequests ->
       [pc : {"idle", "accepted", "writing", "unlinked", "done"},
        index : Indexes, len : 0..ChunkBytes, previous : 0..ChunkBytes]]
  /\ complete \in [Completions ->
       [pc : {"idle", "checked", "reading", "stored", "done"},
        next : 1..(TotalChunks + 1), length : Nat \cup {Unsure}, revived : BOOLEAN]]
  /\ disk \in [Indexes -> Lengths \cup {Torn, Absent}]
  /\ aged \subseteq {i \in Indexes : disk[i] # Absent} /\ unlinks \subseteq Indexes
  /\ expired \in BOOLEAN /\ mixed \in BOOLEAN /\ restarts \in 0..MaxRestarts

NoChunk == [pc |-> "idle", index |-> 1, len |-> 0, previous |-> 0]
NoCompletion == [pc |-> "idle", next |-> 1, length |-> 0, revived |-> FALSE]

Over == [NoChunk EXCEPT !.pc = "done"]
GivenUp == [NoCompletion EXCEPT !.pc = "done"]

SessionInit ==
  /\ session = [alive |-> TRUE, received |-> [i \in Indexes |-> 0], bytes |-> 0]
  /\ chunk = [w \in ChunkRequests |-> NoChunk]
  /\ complete = [c \in Completions |-> NoCompletion]
  /\ disk = [i \in Indexes |-> Absent] /\ aged = {} /\ unlinks = {}
  /\ expired = FALSE /\ mixed = FALSE /\ restarts = 0
-------------------------------------------------------------------------------
(***************************************************************************)
(* The session object.                                                     *)
(***************************************************************************)
Found == session.alive /\ ~expired     \* get()

Staged(s) == {i \in Indexes : s.received[i] # 0}

Discard(s) ==
  /\ session' = [s EXCEPT !.alive = FALSE, !.received = [i \in Indexes |-> 0]]
  /\ unlinks' = unlinks \cup Staged(s)

\* Mutant: every index has arrived, whatever the lengths.
IsCompleteByCount(s) == Staged(s) = Indexes
IsComplete(s) == Staged(s) = Indexes /\ s.bytes = Declared

Total(i, n) == session.bytes - session.received[i] + n

\* Mutant: each chunk is compared with the declared size on its own.
FitsAlone(i, n) == n <= Declared
FitsDeclared(i, n) == Total(i, n) <= Declared

InFlight(w) == chunk[w].pc \in {"accepted", "writing"}
-------------------------------------------------------------------------------
(***************************************************************************)
(* /upload/chunk.  writeChunk reserves the bytes before it awaits the      *)
(* write; whatever goes wrong voids the session.                           *)
(***************************************************************************)
Accept(w, i, n) ==
  /\ chunk[w].pc = "idle" /\ Found /\ FitsDeclared(i, n)
  /\ session' = [session EXCEPT !.bytes = Total(i, n), !.received[i] = n]
  /\ chunk' = [chunk EXCEPT ![w] = [pc |-> "accepted", index |-> i, len |-> n,
                                    previous |-> session.received[i]]]
  /\ mixed' = (mixed \/ \E v \in ChunkRequests :
                          InFlight(v) /\ chunk[v].index = i /\ chunk[v].len # n)
  /\ complete' = [c \in Completions |->
       IF complete[c].pc = "reading" THEN [complete[c] EXCEPT !.length = Unsure]
                                     ELSE complete[c]]
  /\ UNCHANGED <<expired, disk, aged, unlinks, restarts>>

\* Out of range, empty, too large, or over the declared size.
Reject(w) ==
  /\ chunk[w].pc = "idle" /\ Found
  /\ chunk' = [chunk EXCEPT ![w] = Over]
  /\ Discard(session)
  /\ UNCHANGED <<expired, complete, disk, aged, mixed, restarts>>

Open(w) ==
  /\ chunk[w].pc = "accepted"
  /\ chunk' = [chunk EXCEPT ![w].pc = "writing"]
  /\ disk' = [disk EXCEPT ![chunk[w].index] = Torn]
  /\ aged' = aged \ {chunk[w].index}
  /\ UNCHANGED <<session, expired, complete, unlinks, mixed, restarts>>

\* The last writer of a path completes its file; a file that was unlinked
\* meanwhile is gone when its writer closes it.
WriteDone(w) ==
  /\ chunk[w].pc \in {"writing", "unlinked"}
  /\ chunk' = [chunk EXCEPT ![w] = Over]
  /\ LET i == chunk[w].index
         others == {v \in ChunkRequests \ {w} : chunk[v].pc = "writing" /\ chunk[v].index = i}
     IN disk' = IF chunk[w].pc = "writing" /\ others = {}
                THEN [disk EXCEPT ![i] = chunk[w].len] ELSE disk
  /\ UNCHANGED <<session, expired, complete, aged, unlinks, mixed, restarts>>

\* The reservation is handed back, then the handler voids the session.
WriteFails(w) ==
  /\ chunk[w].pc \in {"accepted", "writing", "unlinked"}
  /\ chunk' = [chunk EXCEPT ![w] = Over]
  /\ LET r == chunk[w] IN
     Discard([session EXCEPT !.bytes = @ - (r.len - r.previous), !.received[r.index] = r.previous])
  /\ UNCHANGED <<expired, complete, disk, aged, mixed, restarts>>
-------------------------------------------------------------------------------
(***************************************************************************)
(* /upload/complete: the checks, the awaited look at the quota, and the    *)
(* assembly, which checks again and reads the staged files in order.       *)
(***************************************************************************)
Ends(c) == complete' = [complete EXCEPT ![c] = GivenUp]

\* Refused if this session, or another of the same request, is incomplete or
\* expired: one request may complete many sessions, and discards them all.
CompleteChecks(c) ==
  /\ complete[c].pc = "idle" /\ Found
  /\ \/ /\ IsComplete(session)
        /\ complete' = [complete EXCEPT ![c].pc = "checked"]
        /\ UNCHANGED <<session, unlinks>>
     \/ Ends(c) /\ Discard(session)
  /\ UNCHANGED <<expired, chunk, disk, aged, mixed, restarts>>

\* Over the quota, or another session of the request could not be assembled.
QuotaRefuses(c) ==
  /\ complete[c].pc = "checked"
  /\ Ends(c) /\ Discard(session)
  /\ UNCHANGED <<expired, chunk, disk, aged, mixed, restarts>>

AssembleBegin(c) ==
  /\ complete[c].pc = "checked" /\ IsComplete(session)
  /\ complete' = [complete EXCEPT
       ![c].pc = "reading",
       ![c].revived = ~session.alive,
       ![c].length = IF mixed \/ \E w \in ChunkRequests : InFlight(w) THEN Unsure ELSE 0]
  /\ UNCHANGED <<session, expired, chunk, disk, aged, unlinks, mixed, restarts>>

AssembleRead(c) ==
  /\ complete[c].pc = "reading" /\ complete[c].next <= TotalChunks
  /\ LET staged == disk[complete[c].next] IN
     /\ staged # Absent
     /\ complete' = [complete EXCEPT
          ![c].next = @ + 1,
          ![c].length = IF @ = Unsure THEN Unsure ELSE @ + staged]
  /\ UNCHANGED <<session, expired, chunk, disk, aged, unlinks, mixed, restarts>>

\* The session is incomplete by now, a staged file is missing, or I/O fails.
AssembleFails(c) ==
  /\ \/ complete[c].pc = "checked" /\ ~IsComplete(session)
     \/ complete[c].pc = "reading"
  /\ Ends(c) /\ Discard(session)
  /\ UNCHANGED <<expired, chunk, disk, aged, mixed, restarts>>

\* The assembled file goes on to processStagedFile with session.bytes as size.
AssembleEnds(c) ==
  /\ complete[c].pc = "reading" /\ complete[c].next > TotalChunks
  /\ complete' = [complete EXCEPT ![c].pc = "stored"]
  /\ Discard(session)
  /\ UNCHANGED <<expired, chunk, disk, aged, mixed, restarts>>
-------------------------------------------------------------------------------
(***************************************************************************)
(* Time, the file system and the sweep.                                    *)
(***************************************************************************)
ExpireSession ==
  /\ ~expired /\ expired' = TRUE
  /\ UNCHANGED <<session, chunk, complete, disk, aged, unlinks, mixed, restarts>>

\* get() on behalf of any handler, or the sweep, meets an expired session.
DropExpired ==
  /\ session.alive /\ expired
  /\ Discard(session)
  /\ UNCHANGED <<expired, chunk, complete, disk, aged, mixed, restarts>>

\* The path of i is gone: whoever writes the file writes one without a name.
Remove(i) ==
  /\ disk' = [disk EXCEPT ![i] = Absent] /\ aged' = aged \ {i}
  /\ chunk' = [w \in ChunkRequests |->
       IF chunk[w].pc = "writing" /\ chunk[w].index = i
       THEN [chunk[w] EXCEPT !.pc = "unlinked"] ELSE chunk[w]]

UnlinkSlice(i) ==
  /\ i \in unlinks /\ unlinks' = unlinks \ {i}
  /\ Remove(i)
  /\ UNCHANGED <<session, expired, complete, mixed, restarts>>

\* A staged file is younger than its session.
AgeSlice(i) ==
  /\ disk[i] # Absent /\ i \notin aged /\ (expired \/ ~session.alive)
  /\ aged' = aged \cup {i}
  /\ UNCHANGED <<session, expired, chunk, complete, disk, unlinks, mixed, restarts>>

\* Mutant: the sweep removes the files of the sessions it knows only.
SweepFileOfSession(i) ==
  /\ i \in aged /\ session.alive
  /\ Remove(i)
  /\ UNCHANGED <<session, expired, complete, unlinks, mixed, restarts>>

SweepFile(i) ==
  /\ i \in aged
  /\ Remove(i)
  /\ UNCHANGED <<session, expired, complete, unlinks, mixed, restarts>>

\* The Map, the requests and the pending unlinks are lost, the files are not.
RestartUploads ==
  /\ restarts < MaxRestarts /\ restarts' = restarts + 1
  /\ session' = [alive |-> FALSE, received |-> [i \in Indexes |-> 0], bytes |-> 0]
  /\ chunk' = [w \in ChunkRequests |-> Over]
  /\ complete' = [c \in Completions |->
       IF complete[c].pc = "stored" THEN complete[c] ELSE GivenUp]
  /\ unlinks' = {}
  /\ UNCHANGED <<expired, disk, aged, mixed>>
-------------------------------------------------------------------------------
SessionNext ==
  \/ \E w \in ChunkRequests :
       \/ \E i \in Indexes, n \in Lengths : Accept(w, i, n)
       \/ Reject(w) \/ Open(w) \/ WriteDone(w) \/ WriteFails(w)
  \/ \E c \in Completions :
       \/ CompleteChecks(c) \/ QuotaRefuses(c)
       \/ AssembleBegin(c) \/ AssembleRead(c) \/ AssembleFails(c) \/ AssembleEnds(c)
  \/ \E i \in Indexes : UnlinkSlice(i) \/ AgeSlice(i) \/ SweepFile(i)
  \/ ExpireSession \/ DropExpired \/ RestartUploads

SessionSpec == SessionInit /\ [][SessionNext]_sessionVars

\* Time passes, the fifteen-minute timer fires, the file system does its work.
SessionFairSpec ==
  /\ SessionSpec
  /\ WF_sessionVars(ExpireSession) /\ WF_sessionVars(DropExpired)
  /\ \A i \in Indexes : WF_sessionVars(UnlinkSlice(i)) /\ WF_sessionVars(AgeSlice(i)) /\ WF_sessionVars(SweepFile(i))
-------------------------------------------------------------------------------
(***************************************************************************)
(* Properties.                                                             *)
(***************************************************************************)
\* chunked-upload.test.js:337 "concurrent chunks cannot race past the declared
\* size": a live session never holds more than was declared, and its total is
\* the sum of its reservations, however writes, retries and failures interleave.
BudgetHeld ==
  /\ SessionTypeOK
  /\ session.alive =>
       /\ session.bytes <= Declared
       /\ session.bytes = MapThenSumSet(LAMBDA i : session.received[i], Indexes)

\* A file that was assembled while no chunk was being written is exactly as
\* long as was declared: no piece of it is torn, missing or stale.  The client
\* that sends slices of different lengths for one index at the same time is
\* excluded, and so is one that completes before its chunks were answered.
\* And, upload.js:421 "A bad or over-budget chunk voids the whole session": a
\* completion that was past its checks when the session was discarded, by a
\* bad chunk, another completion or the sweep, does not begin to assemble it.
AssembledWhole ==
  \A c \in Completions :
    /\ complete[c].pc = "stored" => complete[c].length \in {Declared, Unsure}
    /\ ~complete[c].revived

\* Every staged file is removed in the end: also the one a slow write created
\* after the session was discarded, one whose failed first write left it
\* outside the received Map, and those of a process that died.
StagedFilesCollected == \A i \in Indexes : disk[i] # Absent ~> disk[i] = Absent
================================================================================
