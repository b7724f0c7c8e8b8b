---------------------------- MODULE RequestLimits ----------------------------
(***************************************************************************)
(* The fixed-window rate limiter of src/ratelimit.js, on counters that     *)
(* several processes share in Redis or that each keeps in memory.  A hit   *)
(* on Redis is up to four awaited commands.  Any of them may fail,         *)
(* executed or not, and then the hit is counted in memory; the process may *)
(* die between any two.  Redis expires a key by its own clock.             *)
(*                                                                         *)
(* Abstracted: time is counted in ticks; a count beyond the limit is one   *)
(* beyond the limit; staff and switched-off limits, which pass through.    *)
(***************************************************************************)
EXTENDS Integers, FiniteSetsExt, Functions

CONSTANTS
  Processes,    \* the instances of the program
  Callers,     \* requests under way at once; each is made again and again
  Patient,      \* those whose callers heed the Retry-After, if they come back
  Keys,         \* what is counted: an address, a user
  KeysOf,       \* KeysOf[r]: the keys a request of r is counted on
  Limit,        \* max
  Window        \* windowMs

ASSUME LimitsAssumption ==
  /\ KeysOf \in [Callers -> (SUBSET Keys) \ {{}}] /\ Patient \subseteq Callers
  /\ Processes # {} /\ Limit \in Nat \ {0} /\ Window \in Nat \ {0}

VARIABLES
  redis,    \* redis[k]: the count (0: no such key) and its time to live (-1: none)
  bucket,   \* bucket[p][k]: the count and the time left of the Map in memory
  conn,     \* conn[p]: redisState and isReady
  caller    \* caller[r]: the handler of r, its process, its hit on each key, and
            \* what the caller has been told

limitsVars == <<redis, bucket, conn, caller>>

Over == Limit + 1
Asking == {"incr", "expire", "ttl", "restore"}    \* a Redis command is awaited

\* told: nothing; a wait that still holds; it was waited out and the caller is back;
\* and then refused again.
LimitsTypeOK ==
  /\ redis \in [Keys -> [count : 0..Over, ttl : -1..Window]]
  /\ bucket \in [Processes -> [Keys -> [count : 0..Over, left : 0..Window]]]
  /\ conn \in [Processes -> {"connecting", "ready", "lost", "failed"}]
  /\ \A r \in Callers :
       /\ caller[r].pc \in {"idle", "hits", "refused"} /\ caller[r].at \in Processes
       /\ caller[r].hit \in [KeysOf[r] -> [pc : {"none", "done"} \cup Asking,
                                        over : BOOLEAN, reset : 0..Window]]
       /\ caller[r].wait \in 0..Window
       /\ caller[r].told \in {"nothing", "wait", "waited", "again"}

Absent == [count |-> 0, ttl |-> -1]
Empty == [count |-> 0, left |-> 0]
Hit(pc, over, reset) == [pc |-> pc, over |-> over, reset |-> reset]
AllHits(r, hit) == [k \in KeysOf[r] |-> hit]
Idle(r, p) == [pc |-> "idle", at |-> p, hit |-> AllHits(r, Hit("none", FALSE, 0)),
               wait |-> 0, told |-> "nothing"]

LimitsInit ==
  /\ redis = [k \in Keys |-> Absent]
  /\ bucket = [p \in Processes |-> [k \in Keys |-> Empty]]
  /\ conn = [p \in Processes |-> "connecting"]
  /\ caller = [r \in Callers |-> Idle(r, CHOOSE p \in Processes : TRUE)]
-------------------------------------------------------------------------------
(***************************************************************************)
(* Counting in memory, in one turn.                                        *)
(***************************************************************************)
Saturated(n) == IF n > Limit THEN Over ELSE n

Counted(b) == [count |-> Saturated(b.count + 1),
               left |-> IF b.left = 0 THEN Window ELSE b.left]

MemoryHit(p, K) ==
  bucket' = [bucket EXCEPT ![p] = [k \in Keys |-> IF k \in K THEN Counted(@[k]) ELSE @[k]]]

InMemory(p, k) ==
  LET b == Counted(bucket[p][k]) IN Hit("done", b.count > Limit, b.left)

\* What r was told, or is about to be told, no longer holds.
Void(r) ==
  IF caller[r].pc = "refused" THEN Idle(r, caller[r].at) ELSE [caller[r] EXCEPT !.told = "nothing"]

Relies(r, k) ==
  k \in KeysOf[r] /\ (caller[r].told = "waited" \/ caller[r].pc = "refused"
                                             \/ caller[r].hit[k].pc = "done")

\* Mutant: the wait until the first of the windows ends.
Soonest(S) == Min(S)
Latest(S) == Max(S)

\* Once all hits are there, in the same turn: next(), or a 429 with its Retry-After.
Answer(r, now) ==
  LET hits == Range(now.hit)
      ms == Latest({h.reset : h \in hits})
      idle == Idle(r, now.at)
      refused(told) == [idle EXCEPT !.pc = "refused", !.told = told,
                                    !.wait = IF ms = 0 THEN 1 ELSE ms]
  IN CASE \E h \in hits : h.pc # "done" -> now
       [] \A h \in hits : h.pc = "done" /\ ~h.over -> idle
       [] OTHER -> CASE now.told = "nothing" -> idle
                     [] now.told = "wait" -> refused("wait")
                     [] now.told = "waited" -> refused("again")

\* Request s touches the keys K and goes on as now.
Touch(s, K, now) ==
  caller' = [r \in Callers |->
    IF r = s THEN Answer(s, now) ELSE IF \E k \in K : Relies(r, k) THEN Void(r) ELSE caller[r]]

HitIs(r, k, hit) == [caller[r] EXCEPT !.hit[k] = hit]
-------------------------------------------------------------------------------
(***************************************************************************)
(* A request and the commands of its hits.                                 *)
(***************************************************************************)
\* A request of r reaches process p, perhaps after having waited as it was told.
RequestArrives(r, p) ==
  /\ caller[r].pc \in {"idle", "refused"}
  /\ LET heeds == caller[r].told = "wait" /\ caller[r].wait = 0 /\ caller[r].at = p
         now == [Idle(r, p) EXCEPT !.pc = "hits",
                   !.told = IF heeds THEN "waited" ELSE IF r \in Patient THEN "wait" ELSE "nothing"]
     IN IF conn[p] = "ready"
        THEN /\ Touch(r, {}, [now EXCEPT !.hit = AllHits(r, Hit("incr", FALSE, 0))])
             /\ UNCHANGED bucket
        ELSE /\ MemoryHit(p, KeysOf[r])
             /\ Touch(r, KeysOf[r], [now EXCEPT !.hit = [k \in KeysOf[r] |-> InMemory(p, k)]])
  /\ UNCHANGED <<redis, conn>>

At(r, k, pc) == caller[r].pc = "hits" /\ k \in KeysOf[r] /\ caller[r].hit[k].pc = pc

\* Mutant: every hit renews the window.
Always(count) == TRUE
FirstHit(count) == count = 1

\* What a command does to its key.
Incremented(k) == [redis EXCEPT ![k].count = Saturated(@ + 1)]
WithExpiry(k) == IF redis[k].count = 0 THEN redis ELSE [redis EXCEPT ![k].ttl = Window]

Incr(r, k) ==
  /\ At(r, k, "incr")
  /\ redis' = Incremented(k)
  /\ LET n == redis'[k].count IN
     Touch(r, {k}, HitIs(r, k, Hit(IF FirstHit(n) THEN "expire" ELSE "ttl", n > Limit, 0)))
  /\ UNCHANGED <<bucket, conn>>

SetExpiry(r, k) ==
  /\ At(r, k, "expire")
  /\ redis' = WithExpiry(k)
  /\ Touch(r, {k}, HitIs(r, k, [caller[r].hit[k] EXCEPT !.pc = "ttl"]))
  /\ UNCHANGED <<bucket, conn>>

\* The answer to pTTL: the hit is over, or its expiry was lost and is restored.
Ttl(r, k) ==
  /\ At(r, k, "ttl") /\ redis[k].ttl >= 0
  /\ Touch(r, {}, HitIs(r, k, Hit("done", caller[r].hit[k].over, redis[k].ttl)))
  /\ UNCHANGED <<redis, bucket, conn>>

TtlLost(r, k) ==
  /\ At(r, k, "ttl") /\ redis[k].ttl < 0
  /\ Touch(r, {}, HitIs(r, k, [caller[r].hit[k] EXCEPT !.pc = "restore"]))
  /\ UNCHANGED <<redis, bucket, conn>>

Restore(r, k) ==
  /\ At(r, k, "restore")
  /\ redis' = WithExpiry(k)
  /\ Touch(r, {k}, HitIs(r, k, Hit("done", caller[r].hit[k].over, Window)))
  /\ UNCHANGED <<bucket, conn>>

\* A command fails, before or after Redis has executed it: the hit is counted in
\* memory, whatever Redis has counted.
CommandFails(r, k) ==
  LET p == caller[r].at IN
  /\ \E pc \in Asking : At(r, k, pc)
  /\ redis' \in {redis, IF At(r, k, "incr") THEN Incremented(k)
                        ELSE IF At(r, k, "ttl") THEN redis ELSE WithExpiry(k)}
  /\ MemoryHit(p, {k})
  /\ Touch(r, {k}, [HitIs(r, k, InMemory(p, k)) EXCEPT !.told = "nothing"])
  /\ UNCHANGED conn
-------------------------------------------------------------------------------
(***************************************************************************)
(* The connection, the clock, the end of a process.                        *)
(***************************************************************************)
\* connect() succeeds or is rejected for good; a connection that was there is
\* lost and restored.
Connection(p, from, to) ==
  /\ conn[p] = from /\ conn' = [conn EXCEPT ![p] = to]
  /\ caller' = [r \in Callers |-> IF caller[r].at = p THEN Void(r) ELSE caller[r]]
  /\ UNCHANGED <<redis, bucket>>

Connects(p) ==
  \/ Connection(p, "connecting", "ready") \/ Connection(p, "connecting", "failed")
  \/ Connection(p, "ready", "lost") \/ Connection(p, "lost", "ready")

Less(n) == IF n = 0 THEN 0 ELSE n - 1

Tick ==
  /\ redis' = [k \in Keys |->
       IF redis[k].ttl = -1 THEN redis[k]
       ELSE IF redis[k].ttl = 1 THEN Absent ELSE [redis[k] EXCEPT !.ttl = @ - 1]]
  /\ bucket' = [p \in Processes |-> [k \in Keys |->
       IF bucket[p][k].left <= 1 THEN Empty ELSE [bucket[p][k] EXCEPT !.left = @ - 1]]]
  /\ caller' = [r \in Callers |-> [caller[r] EXCEPT !.wait = Less(@)]]
  /\ UNCHANGED conn

RestartProcess(p) ==
  /\ bucket' = [bucket EXCEPT ![p] = [k \in Keys |-> Empty]]
  /\ conn' = [conn EXCEPT ![p] = "connecting"]
  /\ caller' = [r \in Callers |-> IF caller[r].at = p THEN Idle(r, p) ELSE caller[r]]
  /\ UNCHANGED redis
-------------------------------------------------------------------------------
OnRedis(r, k) == Ttl(r, k) \/ Restore(r, k)     \* a hit ends

LimitsNext ==
  \/ \E r \in Callers :
       \/ \E p \in Processes : RequestArrives(r, p)
       \/ \E k \in Keys : \/ Incr(r, k) \/ SetExpiry(r, k) \/ TtlLost(r, k)
                          \/ OnRedis(r, k) \/ CommandFails(r, k)
  \/ \E p \in Processes : Connects(p) \/ RestartProcess(p)
  \/ Tick

LimitsSpec == LimitsInit /\ [][LimitsNext]_limitsVars

LimitsFairSpec == LimitsSpec /\ WF_limitsVars(Tick)     \* time passes
-------------------------------------------------------------------------------
\* A caller who is refused and comes back when the Retry-After is over is admitted,
\* on all the keys it is counted on, whose windows begin and end at different times:
\* unless somebody else was counted on one of them, or the hits went to another
\* store (ratelimit.js:122).
RetryAfterSuffices == LimitsTypeOK /\ \A r \in Callers : caller[r].told # "again"

\* As long as callers come and Redis answers them, windows end: a caller who does not
\* wait cannot prolong the window, and a key whose expiry was lost between two commands
\* does not refuse for ever (ratelimit.js:71).
LockoutEnds ==
  \A k \in Keys :
    []<><<\E r \in Callers : OnRedis(r, k)>>_limitsVars => []<>(redis[k].count = 0)
===============================================================================
