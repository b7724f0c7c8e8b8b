------------------------------ MODULE RenderCache ------------------------------
(***************************************************************************)
(* src/render-cache.js: the short-lived cache of watermarked videos.  The  *)
(* Map of entries and its running total live in memory and change between  *)
(* two awaits; the files live in the temp directory, are moved in by an    *)
(* awaited rename, deleted by unlinks nobody waits for, and survive the    *)
(* process.  A sweep every five minutes collects what no entry owns.       *)
(*                                                                         *)
(* Abstracted: a key stands for the viewer, page and image it hashes; the  *)
(* path of its file is a function of the key.  Time is two marks, "this    *)
(* entry has expired" and "this file is older than the ttl".               *)
(***************************************************************************)
EXTENDS Integers, FiniteSetsExt

CONSTANTS
  Handlers,     \* deliveries in progress, each using the cache again and again
  Keys,         \* cache keys
  Sizes,        \* byte sizes a render can have
  MaxEntry,     \* config.renderCache.maxEntryBytes
  MaxTotal,     \* config.renderCache.maxTotalBytes
  MaxUnlinks,   \* bound: unlinks of one path that wait for a thread, the one that a
                \* cached entry will need included
  MaxDeaths   \* bound: times the process dies

ASSUME CacheAssumption ==
  /\ IsFiniteSet(Handlers) /\ Handlers # {} /\ IsFiniteSet(Keys) /\ Keys # {}
  /\ Sizes \subseteq Nat \ {0}
  /\ MaxEntry \in Nat /\ MaxTotal \in Nat /\ MaxUnlinks \in Nat /\ MaxDeaths \in Nat

VARIABLES
  cache,     \* the entries: their bytes (0: no entry), the pairs of an older and a
             \* younger one in insertion order, the expired ones; and totalBytes
  pending,   \* pending[k]: fs.unlink calls for the path of k not executed yet
  files,     \* the keys whose file exists
  oldFiles,  \* ... and was last modified more than a ttl ago
  handler,   \* where each delivery is inside put()
  sweep,     \* where the sweep is
  raced,     \* history: two puts of one key overlapped since the process started
  deaths

cacheVars == <<cache, pending, files, oldFiles, handler, sweep, raced, deaths>>

Cached(c) == {k \in Keys : c.bytes[k] # 0}

\* The order of the entries is total.
Ordered(c) ==
  /\ \A j, k \in Cached(c) : j = k \/ <<j, k>> \in c.older \/ <<k, j>> \in c.older
  /\ \A p \in c.older : p \in Cached(c) \X Cached(c) /\ <<p[2], p[1]>> \notin c.older
  /\ \A p, q \in c.older : p[2] = q[1] => <<p[1], q[2]>> \in c.older

CacheTypeOK ==
  /\ cache \in [older : SUBSET (Keys \X Keys), bytes : [Keys -> Nat], expired : SUBSET Keys,
                total : Nat]
  /\ Ordered(cache) /\ cache.expired \subseteq Cached(cache)
  /\ pending \in [Keys -> 0..MaxUnlinks]
  /\ oldFiles \subseteq files /\ files \subseteq Keys
  /\ handler \in [Handlers -> [pc : {"idle", "rendered", "rename"}, key : Keys, bytes : Nat]]
  /\ sweep \in [pc : {"idle", "readdir", "stat", "unlink"}, names : SUBSET Keys]
  /\ raced \in BOOLEAN /\ deaths \in 0..MaxDeaths

Empty == [older |-> {}, bytes |-> [k \in Keys |-> 0], expired |-> {}, total |-> 0]
Rest == [h \in Handlers |-> [pc |-> "idle", key |-> CHOOSE k \in Keys : TRUE, bytes |-> 0]]

CacheInit ==
  /\ cache = Empty /\ pending = [k \in Keys |-> 0]
  /\ files = {} /\ oldFiles = {}
  /\ handler = Rest /\ sweep = [pc |-> "idle", names |-> {}]
  /\ raced = FALSE /\ deaths = 0
-------------------------------------------------------------------------------
(***************************************************************************)
(* The Map and its running total.  Dropping removes the entry, gives its   *)
(* bytes back and starts an unlink.                                        *)
(***************************************************************************)
Sum(bytes, K) == MapThenSumSet(LAMBDA k : bytes[k], K)

Drop(c, K) ==
  [older |-> {p \in c.older : p[1] \notin K /\ p[2] \notin K},
   bytes |-> [k \in Keys |-> IF k \in K THEN 0 ELSE c.bytes[k]],
   expired |-> c.expired \ K,
   total |-> c.total - Sum(c.bytes, K)]

EvictExpired(c) == Drop(c, c.expired)

\* The unlinks that turn c into d.
Unlinked(c, d) == [k \in Keys |-> pending[k] + IF k \in Cached(c) \ Cached(d) THEN 1 ELSE 0]

Becomes(c) == cache' = c /\ pending' = Unlinked(cache, c)

\* Oldest first, until the new bytes fit or nothing is left: an entry goes when
\* they do not fit without those that are older.
MakeRoom(c, bytes) ==
  LET before(k) == {j \in Keys : <<j, k>> \in c.older}
      fitsWithout(K) == c.total - Sum(c.bytes, K) + bytes <= MaxTotal
  IN Drop(c, {k \in Cached(c) : ~fitsWithout(before(k))})

\* entries.set: a key that is there keeps its place.
SetEntry(c, k, bytes) ==
  [older |-> IF k \in Cached(c) THEN c.older ELSE c.older \cup (Cached(c) \X {k}),
   bytes |-> [c.bytes EXCEPT ![k] = bytes],
   expired |-> c.expired \ {k},
   total |-> c.total + bytes]
-------------------------------------------------------------------------------
(***************************************************************************)
(* A delivery: get(), and on a miss a render that is offered to put().     *)
(***************************************************************************)
\* An entry whose file was swept away is dropped.
Get(c, k) == IF k \in files THEN c ELSE Drop(c, {k} \cap Cached(c))

Lookup(h, k) ==
  /\ handler[h].pc = "idle"
  /\ LET fresh == EvictExpired(cache) IN
     /\ Becomes(Get(fresh, k))
     /\ IF k \in Cached(fresh) /\ k \in files
        THEN UNCHANGED handler
        ELSE handler' = [handler EXCEPT ![h] = [pc |-> "rendered", key |-> k, bytes |-> 0]]
  /\ UNCHANGED <<files, oldFiles, sweep, raced, deaths>>

\* Mutant: put adds a second copy on top of an entry it should replace.
RoomBesidesOld(c, k, bytes) == MakeRoom(EvictExpired(c), bytes)

Room(c, k, bytes) ==
  LET fresh == EvictExpired(c) IN MakeRoom(Drop(fresh, {k} \cap Cached(fresh)), bytes)

FitsTotal(c, bytes) == c.total + bytes <= MaxTotal

\* put() after its stat: the render is too large, or room is made for it and
\* the rename begins.  A declined render stays with its handler.
AdmitRender(h, bytes) ==
  /\ handler[h].pc = "rendered" /\ bytes <= MaxEntry
  /\ LET k == handler[h].key
         c == Room(cache, k, bytes)
         racing == \E g \in Handlers \ {h} : handler[g].pc = "rename" /\ handler[g].key = k
     IN /\ Becomes(c)
        /\ IF FitsTotal(c, bytes)
           THEN /\ handler' = [handler EXCEPT ![h] = [pc |-> "rename", key |-> k, bytes |-> bytes]]
                /\ raced' = (raced \/ racing)
           ELSE /\ handler' = [handler EXCEPT ![h] = Rest[h]]
                /\ UNCHANGED raced
  /\ UNCHANGED <<files, oldFiles, sweep, deaths>>

\* The stat failed, or the render is over maxEntryBytes.
Decline(h) ==
  /\ handler[h].pc = "rendered"
  /\ handler' = [handler EXCEPT ![h] = Rest[h]]
  /\ UNCHANGED <<cache, pending, files, oldFiles, sweep, raced, deaths>>

\* The rename has replaced the file of the key; its entry is set.  Unlinks of the key's
\* previous files may still be waiting: MaxUnlinks - 1 of them at most (a bound).
Adopt(h) ==
  /\ handler[h].pc = "rename" /\ pending[handler[h].key] < MaxUnlinks
  /\ LET k == handler[h].key IN
     /\ files' = files \cup {k} /\ oldFiles' = oldFiles \ {k}
     /\ Becomes(SetEntry(cache, k, handler[h].bytes))
  /\ handler' = [handler EXCEPT ![h] = Rest[h]]
  /\ UNCHANGED <<sweep, raced, deaths>>

RenameFails(h) ==
  /\ handler[h].pc = "rename"
  /\ handler' = [handler EXCEPT ![h] = Rest[h]]
  /\ UNCHANGED <<cache, pending, files, oldFiles, sweep, raced, deaths>>
-------------------------------------------------------------------------------
(***************************************************************************)
(* The file system, the clock and the sweep.                               *)
(***************************************************************************)
UnlinkFile(k) ==
  /\ pending[k] > 0
  /\ pending' = [pending EXCEPT ![k] = @ - 1]
  /\ files' = files \ {k} /\ oldFiles' = oldFiles \ {k}
  /\ UNCHANGED <<cache, handler, sweep, raced, deaths>>

ExpireEntry(k) ==
  /\ k \in Cached(cache) \ cache.expired
  /\ cache' = [cache EXCEPT !.expired = @ \cup {k}]
  /\ UNCHANGED <<pending, files, oldFiles, handler, sweep, raced, deaths>>

AgeFile(k) ==
  /\ k \in files \ oldFiles
  /\ oldFiles' = oldFiles \cup {k}
  /\ UNCHANGED <<cache, pending, files, handler, sweep, raced, deaths>>

\* Mutant: the sweep does not evict first.
SweepBeginKeeping ==
  /\ sweep.pc = "idle"
  /\ sweep' = [sweep EXCEPT !.pc = "readdir"]
  /\ UNCHANGED <<cache, pending, files, oldFiles, handler, raced, deaths>>

SweepBegin ==
  /\ sweep.pc = "idle"
  /\ Becomes(EvictExpired(cache))
  /\ sweep' = [sweep EXCEPT !.pc = "readdir"]
  /\ UNCHANGED <<files, oldFiles, handler, raced, deaths>>

\* Mutant: the sweep looks only at the files that have an entry.
SweepableOwned == files \cap Cached(cache)
Sweepable == files \ Cached(cache)

\* The names in the directory, less the files of the entries there are now.
SweepRead ==
  /\ sweep.pc = "readdir"
  /\ sweep' = IF Sweepable = {} THEN [pc |-> "idle", names |-> {}]
              ELSE [pc |-> "stat", names |-> Sweepable]
  /\ UNCHANGED <<cache, pending, files, oldFiles, handler, raced, deaths>>

\* One name is looked at: an old file is about to be removed, any other is passed.
SweepStat(k) ==
  /\ sweep.pc = "stat" /\ k \in sweep.names
  /\ sweep' = IF k \in oldFiles THEN [sweep EXCEPT !.pc = "unlink"]
              ELSE IF sweep.names = {k} THEN [pc |-> "idle", names |-> {}]
              ELSE [sweep EXCEPT !.names = @ \ {k}]
  /\ UNCHANGED <<cache, pending, files, oldFiles, handler, raced, deaths>>

\* The awaited unlink: by now the path may hold another file.
SweepUnlink(k) ==
  /\ sweep.pc = "unlink" /\ k \in sweep.names
  /\ files' = files \ {k} /\ oldFiles' = oldFiles \ {k}
  /\ sweep' = IF sweep.names = {k} THEN [pc |-> "idle", names |-> {}]
              ELSE [pc |-> "stat", names |-> sweep.names \ {k}]
  /\ UNCHANGED <<cache, pending, handler, raced, deaths>>

\* The process dies: the Map, the total and the pending unlinks are lost; a
\* rename that was under way may or may not have happened.
RestartCache ==
  /\ deaths < MaxDeaths
  /\ deaths' = deaths + 1
  /\ cache' = Empty /\ pending' = [k \in Keys |-> 0]
  /\ \E K \in SUBSET {handler[h].key : h \in {g \in Handlers : handler[g].pc = "rename"}} :
       files' = files \cup K
  /\ handler' = Rest /\ sweep' = [pc |-> "idle", names |-> {}]
  /\ raced' = FALSE
  /\ UNCHANGED oldFiles
-------------------------------------------------------------------------------
Sweeping == SweepBegin \/ SweepRead \/ \E k \in Keys : SweepStat(k) \/ SweepUnlink(k)

CacheNext ==
  \/ \E h \in Handlers :
       \/ \E k \in Keys : Lookup(h, k)
       \/ \E bytes \in Sizes : AdmitRender(h, bytes)
       \/ Decline(h) \/ Adopt(h) \/ RenameFails(h)
  \/ \E k \in Keys : UnlinkFile(k) \/ ExpireEntry(k) \/ AgeFile(k)
  \/ Sweeping
  \/ RestartCache

CacheSpec == CacheInit /\ [][CacheNext]_cacheVars

\* Time passes, the five-minute timer fires and the file system does its work.
CacheFairSpec ==
  /\ CacheSpec
  /\ WF_cacheVars(Sweeping)
  /\ \A k \in Keys : WF_cacheVars(UnlinkFile(k)) /\ WF_cacheVars(ExpireEntry(k)) /\ WF_cacheVars(AgeFile(k))
-------------------------------------------------------------------------------
(***************************************************************************)
(* Properties.                                                             *)
(***************************************************************************)
\* totalBytes is the sum of the entries' bytes as long as no two puts of one
\* key overlapped, through every eviction, expiry, replacement and failed
\* rename; and it is never less, so the cache cannot grow unnoticed.
BytesCovered ==
  /\ Sum(cache.bytes, Keys) <= cache.total
  /\ ~raced => Sum(cache.bytes, Keys) = cache.total

\* put() checks the budget before its rename and not again after it: what may
\* be over the budget is what the other handlers had in flight, no more.
TotalBounded == cache.total <= MaxTotal + (Cardinality(Handlers) - 1) * MaxEntry

\* The Map agrees with its running total, and the total with the budget.
BytesBounded == CacheTypeOK /\ BytesCovered /\ TotalBounded

\* A file no entry owns does not stay, also when the process died between the
\* rename and the entry, or with its unlinks pending.
LeftoversCollected == \A k \in Keys : []<>(k \notin files \ Cached(cache))

\* An entry whose file was taken from under it, by an unlink of the key's previous
\* file that came after the rename or by the sweep, does not block its key for ever.
LostFilesHeal == \A k \in Keys : []<>(k \notin Cached(cache) \ files)
================================================================================
