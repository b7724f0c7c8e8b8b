-------------------------- MODULE EncoderQueueProofs --------------------------
(***************************************************************************)
(* Proofs about EncoderQueue, for any set of callers and any limits.       *)
(***************************************************************************)
EXTENDS EncoderQueue, FiniteSetTheorems, TLAPS

LEMMA CallTypes ==
  /\ \A j \in Job : Run(j) \in Job
  /\ \A j \in Job, o \in {"none", "encoded", "failed", "busy"} : Answer(j, o) \in Job
  /\ NewCall \in Job
BY DEF Job, Run, Answer, NewCall, Preferred

\* What a step of the semaphore makes of its two fields.
LEMMA SemaphoreTypes ==
  ASSUME NEW s \in [active : Nat, queue : Seq(Callers)], NEW c \in Callers
  PROVE  /\ Acquire(s, c) \in [active : Nat, queue : Seq(Callers)]
         /\ s.queue # << >> \/ s.active > 0 =>
              Release(s) \in [active : Nat, queue : Seq(Callers)]
<1>1. s.active \in Nat /\ s.queue \in Seq(Callers)
  OBVIOUS
<1>2. s.active + 1 \in Nat /\ Append(s.queue, c) \in Seq(Callers)
  BY <1>1
<1>3. s.active > 0 => s.active - 1 \in Nat
  BY <1>1
<1>4. s.queue # << >> => Tail(s.queue) \in Seq(Callers)
  BY <1>1
<1>5. Acquire(s, c) \in [active : Nat, queue : Seq(Callers)]
  BY <1>2 DEF Acquire
<1>6. CASE s.queue = << >>
  BY <1>3, <1>5, <1>6 DEF Release
<1>7. CASE s.queue # << >>
  BY <1>4, <1>5, <1>7 DEF Release
<1>8. QED
  BY <1>6, <1>7

LEMMA AcquireFields ==
  ASSUME NEW s \in [active : Nat, queue : Seq(Callers)], NEW c \in Callers
  PROVE  /\ Free(s) => /\ Acquire(s, c).active = s.active + 1
                       /\ Acquire(s, c).queue = s.queue
         /\ ~Free(s) => /\ Acquire(s, c).active = s.active
                        /\ Acquire(s, c).queue = Append(s.queue, c)
BY DEF Acquire

LEMMA ReleaseFields ==
  ASSUME NEW s \in [active : Nat, queue : Seq(Callers)]
  PROVE  /\ s.queue = << >> => /\ Release(s).active = s.active - 1
                               /\ Release(s).queue = << >>
         /\ s.queue # << >> => /\ Release(s).active = s.active
                               /\ Release(s).queue = Tail(s.queue)
BY DEF Release

\* Each seat of the queue is one caller's.
Distinct(q) == \A i, k \in 1..Len(q) : q[i] = q[k] => i = k
Seats(q) == {q[i] : i \in 1..Len(q)}

LEMMA AppendSeats ==
  ASSUME NEW q \in Seq(Callers), NEW c \in Callers, Distinct(q), c \notin Seats(q)
  PROVE  /\ Len(Append(q, c)) = Len(q) + 1
         /\ Distinct(Append(q, c))
         /\ Seats(Append(q, c)) = Seats(q) \cup {c}
<1>1. Len(Append(q, c)) = Len(q) + 1 /\ Len(q) \in Nat
  OBVIOUS
<1>2. \A i \in 1..Len(q) : Append(q, c)[i] = q[i]
  OBVIOUS
<1>3. Append(q, c)[Len(q) + 1] = c
  OBVIOUS
<1>4. Distinct(Append(q, c))
  BY <1>1, <1>2, <1>3 DEF Distinct, Seats
<1>5. Seats(Append(q, c)) = Seats(q) \cup {c}
  BY <1>1, <1>2, <1>3 DEF Seats
<1>6. QED
  BY <1>1, <1>4, <1>5

LEMMA TailSeats ==
  ASSUME NEW q \in Seq(Callers), Distinct(q), q # << >>
  PROVE  /\ Len(Tail(q)) = Len(q) - 1 /\ Len(q) > 0
         /\ Distinct(Tail(q))
         /\ q[1] \in Callers /\ q[1] \in Seats(q)
         /\ Seats(Tail(q)) = Seats(q) \ {q[1]}
<1>1. Len(Tail(q)) = Len(q) - 1 /\ Len(q) \in Nat /\ Len(q) > 0
  OBVIOUS
<1>2. \A i \in 1..(Len(q) - 1) : Tail(q)[i] = q[i + 1]
  OBVIOUS
<1>3. Distinct(Tail(q))
  BY <1>1, <1>2 DEF Distinct
<1>4. q[1] \in Callers /\ q[1] \in Seats(q)
  BY <1>1 DEF Seats
<1>5. Seats(Tail(q)) \subseteq Seats(q) \ {q[1]}
  BY <1>1, <1>2 DEF Seats, Distinct
<1>6. ASSUME NEW i \in 1..Len(q), q[i] # q[1]
      PROVE  q[i] \in Seats(Tail(q))
  <2>1. i - 1 \in 1..(Len(q) - 1)
    BY <1>1, <1>6
  <2>2. Tail(q)[i - 1] = q[i]
    BY <1>1, <1>2, <2>1
  <2>3. QED
    BY <1>1, <2>1, <2>2 DEF Seats
<1>7. QED
  BY <1>1, <1>3, <1>4, <1>5, <1>6 DEF Seats
-------------------------------------------------------------------------------
(***************************************************************************)
(* The semaphore.  Its counter is the number of running encodes and its    *)
(* queue the queued calls, so what a release does to the calls is known    *)
(* from what it does to the queue; work conservation tells that a waiter   *)
(* promoted by a release takes over the one slot that is given back.       *)
(***************************************************************************)
SlotInv == IsFiniteSet(Running) /\ SlotsExact /\ WorkConserving

LEMMA Answering ==
  ASSUME TypeOK, SlotInv, NEW c \in Callers, job[c].pc = "running"
  PROVE  /\ slots.active > 0 /\ slots.active \in Nat
         /\ Cardinality(Running \ {c}) = slots.active - 1
         /\ IsFiniteSet(Running \ {c})
<1>1. IsFiniteSet(Running) /\ c \in Running /\ slots.active = Cardinality(Running)
  BY DEF SlotInv, SlotsExact, Running
<1>2. Cardinality(Running \ {c}) = Cardinality(Running) - 1 /\ IsFiniteSet(Running \ {c})
  BY <1>1, FS_RemoveElement
<1>3. Cardinality(Running) \in Nat /\ Cardinality(Running \ {c}) \in Nat
  BY <1>1, <1>2, FS_CardinalityType
<1>4. QED
  BY <1>1, <1>2, <1>3

\* With nobody waiting, a release frees the slot.
LEMMA ReleaseFrees ==
  ASSUME TypeOK, SlotInv, NEW c \in Callers, job[c].pc = "running", slots.queue = << >>,
         NEW outcome \in {"none", "encoded", "failed", "busy"}
  PROVE  /\ Release(slots) \in [active : Nat, queue : Seq(Callers)]
         /\ Release(slots).active = slots.active - 1
         /\ Release(slots).queue = << >>
         /\ Free(Release(slots))
         /\ Queued = {}
         /\ AfterRelease(c, outcome) = [job EXCEPT ![c] = Answer(job[c], outcome)]
<1>1. slots \in [active : Nat, queue : Seq(Callers)] /\ slots.active > 0
  BY Answering DEF TypeOK
<1>2. /\ Release(slots) \in [active : Nat, queue : Seq(Callers)]
      /\ Release(slots).active = slots.active - 1
      /\ Release(slots).queue = << >>
  BY <1>1, SemaphoreTypes, ReleaseFields
<1>3. Free(Release(slots))
  BY <1>1, <1>2, LimitsAssumption DEF Free, SlotInv, SlotsExact
<1>4. Waiting(slots) = {} /\ Queued = {}
  BY DEF Waiting, SlotInv, SlotsExact
<1>5. AfterRelease(c, outcome) = [job EXCEPT ![c] = Answer(job[c], outcome)]
  BY <1>4 DEF AfterRelease, TypeOK
<1>6. QED
  BY <1>2, <1>3, <1>4, <1>5

\* With somebody waiting, it hands the slot to the first of them.
LEMMA ReleaseHandsOver ==
  ASSUME TypeOK, SlotInv, NEW c \in Callers, job[c].pc = "running", slots.queue # << >>,
         NEW outcome \in {"none", "encoded", "failed", "busy"}
  PROVE  LET first == slots.queue[1] IN
         /\ Release(slots) \in [active : Nat, queue : Seq(Callers)]
         /\ Release(slots).active = slots.active
         /\ Len(Release(slots).queue) = Len(slots.queue) - 1
         /\ Distinct(Release(slots).queue)
         /\ Waiting(Release(slots)) = Queued \ {first}
         /\ slots.active = MaxConcurrent
         /\ first \in Callers /\ first \in Queued /\ first # c
         /\ AfterRelease(c, outcome) =
              [job EXCEPT ![c] = Answer(job[c], outcome), ![first] = Run(job[first])]
<1> DEFINE first == slots.queue[1]
<1>1. slots \in [active : Nat, queue : Seq(Callers)] /\ slots.queue \in Seq(Callers)
  BY DEF TypeOK
<1>2. /\ Release(slots) \in [active : Nat, queue : Seq(Callers)]
      /\ Release(slots).active = slots.active
      /\ Release(slots).queue = Tail(slots.queue)
  BY <1>1, SemaphoreTypes, ReleaseFields
<1>3. Distinct(slots.queue) /\ Waiting(slots) = Queued
  BY DEF SlotInv, SlotsExact, Distinct
<1>4. /\ Len(Tail(slots.queue)) = Len(slots.queue) - 1
      /\ Distinct(Tail(slots.queue))
      /\ first \in Callers /\ first \in Seats(slots.queue)
      /\ Seats(Tail(slots.queue)) = Seats(slots.queue) \ {first}
  BY <1>1, <1>3, TailSeats
<1>5. Waiting(Release(slots)) = Queued \ {first} /\ first \in Queued
  BY <1>2, <1>3, <1>4 DEF Waiting, Seats
<1>6. first # c
  BY <1>5 DEF Queued
<1>7. Waiting(slots) \ Waiting(Release(slots)) = {first}
  BY <1>3, <1>5
<1>8. AfterRelease(c, outcome) =
        [job EXCEPT ![c] = Answer(job[c], outcome), ![first] = Run(job[first])]
  BY <1>4, <1>6, <1>7 DEF AfterRelease, TypeOK
<1>9. slots.active = MaxConcurrent
  BY DEF SlotInv, WorkConserving
<1>10. QED
  BY <1>2, <1>4, <1>5, <1>6, <1>8, <1>9

\* SlotsExact in terms of Distinct, for the next state.
LEMMA SlotInvIntro ==
  ASSUME IsFiniteSet(Running)', slots'.active = Cardinality(Running)',
         slots'.active <= MaxConcurrent, Len(slots'.queue) <= MaxQueue,
         Distinct(slots'.queue), Queued' = Waiting(slots'),
         slots'.queue # << >> => slots'.active = MaxConcurrent
  PROVE  SlotInv'
BY DEF SlotInv, SlotsExact, WorkConserving, Distinct

LEMMA CallStep ==
  ASSUME TypeOK, SlotInv, NEW c \in Callers, Call(c)
  PROVE  SlotInv'
<1> USE DEF TypeOK
<1>1. /\ c \notin Running /\ c \notin Queued /\ slots.queue \in Seq(Callers)
      /\ IsFiniteSet(Running) /\ slots.active = Cardinality(Running)
      /\ slots.active <= MaxConcurrent /\ Len(slots.queue) <= MaxQueue
      /\ Distinct(slots.queue) /\ Queued = Seats(slots.queue)
      /\ slots.active \in Nat
  BY DEF Call, Idle, Running, Queued, SlotInv, SlotsExact, Distinct, Waiting, Seats
<1>2. CASE Free(slots)
  <2>1. /\ slots'.active = slots.active + 1 /\ slots'.queue = slots.queue
        /\ job' = [job EXCEPT ![c] = Run(NewCall)]
    BY <1>2, AcquireFields DEF Call
  <2>2. Running' = Running \cup {c} /\ Queued' = Queued
    BY <1>1, <2>1 DEF Running, Queued, Run, NewCall
  <2>3. IsFiniteSet(Running') /\ Cardinality(Running') = slots.active + 1
    BY <1>1, <2>2, FS_AddElement
  <2>4. slots.active + 1 <= MaxConcurrent /\ slots.queue = << >>
    BY <1>1, <1>2, LimitsAssumption DEF Free, SlotInv, WorkConserving
  <2>5. Waiting(slots') = Queued'
    BY <1>1, <2>1, <2>2 DEF Waiting, Seats
  <2>6. QED
    BY <1>1, <2>1, <2>2, <2>3, <2>4, <2>5, SlotInvIntro
<1>3. CASE ~Free(slots)
  <2>1. /\ slots'.active = slots.active /\ slots'.queue = Append(slots.queue, c)
        /\ job' = [job EXCEPT ![c] = NewCall]
    BY <1>3, AcquireFields DEF Call
  <2>2. Running' = Running /\ Queued' = Queued \cup {c}
    BY <1>1, <2>1 DEF Running, Queued, NewCall
  <2>3. /\ Len(slots'.queue) = Len(slots.queue) + 1 /\ Distinct(slots'.queue)
        /\ Seats(slots'.queue) = Queued \cup {c}
    BY <1>1, <2>1, AppendSeats
  <2>4. Len(slots.queue) < MaxQueue /\ slots.active = MaxConcurrent
    BY <1>1, <1>3, LimitsAssumption DEF Call, Refuses, EncodersSaturated, Free
  <2>5. Waiting(slots') = Queued'
    BY <2>2, <2>3 DEF Waiting, Seats
  <2>6. Len(slots'.queue) <= MaxQueue
    BY <1>1, <2>3, <2>4, LimitsAssumption
  <2>7. QED
    BY <1>1, <2>1, <2>2, <2>3, <2>4, <2>5, <2>6, SlotInvIntro
<1>4. QED
  BY <1>2, <1>3

LEMMA LeaveStep ==
  ASSUME TypeOK, SlotInv, NEW c \in Callers, job[c].pc = "running",
         NEW outcome \in {"none", "encoded", "failed", "busy"},
         slots' = Release(slots), job' = AfterRelease(c, outcome)
  PROVE  SlotInv'
<1> USE DEF TypeOK
<1>1. /\ slots.active \in Nat /\ slots.active > 0
      /\ Cardinality(Running \ {c}) = slots.active - 1 /\ IsFiniteSet(Running \ {c})
  BY Answering
<1>2. slots.active <= MaxConcurrent /\ Len(slots.queue) <= MaxQueue
  BY DEF SlotInv, SlotsExact
<1>3. CASE slots.queue = << >>
  <2>1. /\ slots'.active = slots.active - 1 /\ slots'.queue = << >> /\ Queued = {}
        /\ job' = [job EXCEPT ![c] = Answer(job[c], outcome)]
    BY <1>3, ReleaseFrees
  <2>2. Running' = Running \ {c} /\ Queued' = {}
    BY <2>1 DEF Running, Queued, Answer, Job
  <2>3. Waiting(slots') = {} /\ Distinct(slots'.queue) /\ Len(slots'.queue) = 0
    BY <2>1 DEF Waiting, Distinct
  <2>4. QED
    BY <1>1, <1>2, <2>1, <2>2, <2>3, SlotInvIntro, LimitsAssumption
<1>4. CASE slots.queue # << >>
  <2> DEFINE first == slots.queue[1]
  <2>1. /\ slots'.active = slots.active /\ Len(slots'.queue) = Len(slots.queue) - 1
        /\ Distinct(slots'.queue) /\ Waiting(slots') = Queued \ {first}
        /\ slots.active = MaxConcurrent
        /\ first \in Callers /\ first \in Queued /\ first # c
        /\ job' = [job EXCEPT ![c] = Answer(job[c], outcome), ![first] = Run(job[first])]
    BY <1>4, ReleaseHandsOver
  <2>2. first \notin Running
    BY <2>1 DEF Queued, Running
  <2> HIDE DEF first
  <2>a. \A d \in Callers : job'[d].pc = IF d = c THEN "done"
                                       ELSE IF d = first THEN "running" ELSE job[d].pc
    <3>1. job[c] \in Job /\ job[first] \in Job
      BY <2>1
    <3>2. Answer(job[c], outcome).pc = "done" /\ Run(job[first]).pc = "running"
      BY <3>1 DEF Answer, Run, Job
    <3>3. QED
      BY <2>1, <3>2
  <2>3. Running' = (Running \ {c}) \cup {first} /\ Queued' = Queued \ {first}
    <3>1. \A d \in Callers : d \in Running' <=> d \in (Running \ {c}) \cup {first}
      BY <2>a, <2>1 DEF Running
    <3>2. \A d \in Callers : d \in Queued' <=> d \in Queued \ {first}
      BY <2>a, <2>1 DEF Queued
    <3>3. QED
      BY <3>1, <3>2, <2>1 DEF Running, Queued
  <2>4. IsFiniteSet(Running') /\ Cardinality(Running') = (slots.active - 1) + 1
    BY <1>1, <2>2, <2>3, FS_AddElement
  <2>5. Len(slots'.queue) <= MaxQueue
    BY <1>2, <2>1, LimitsAssumption
  <2>6. QED
    BY <1>1, <1>2, <2>1, <2>3, <2>4, <2>5, SlotInvIntro
<1>5. QED
  BY <1>3, <1>4

LEMMA HardwareFailsStep ==
  ASSUME TypeOK, SlotInv, NEW c \in Callers, HardwareFails(c)
  PROVE  /\ SlotInv' /\ ~Refuses(Release(slots))
         /\ Free(Release(slots)) \/ slots.queue # << >>
<1> USE DEF TypeOK
<1> DEFINE retry == [job[c] EXCEPT !.encoder = "software"]
           freed == Release(slots)
<1>1. /\ slots.active \in Nat /\ slots.active > 0 /\ job[c].pc = "running"
      /\ Cardinality(Running \ {c}) = slots.active - 1 /\ IsFiniteSet(Running \ {c})
  BY Answering DEF HardwareFails
<1>2. /\ slots.active <= MaxConcurrent /\ Len(slots.queue) <= MaxQueue
      /\ IsFiniteSet(Running) /\ slots.active = Cardinality(Running) /\ c \in Running
  BY <1>1 DEF SlotInv, SlotsExact, Running
<1>3. CASE slots.queue = << >>
  <2>1. /\ freed \in [active : Nat, queue : Seq(Callers)] /\ Free(freed)
        /\ freed.active = slots.active - 1 /\ freed.queue = << >> /\ Queued = {}
        /\ AfterRelease(c, "none") = [job EXCEPT ![c] = Answer(job[c], "none")]
    BY <1>1, <1>3, ReleaseFrees
  <2>2. ~Refuses(freed)
    BY <2>1 DEF Refuses
  <2>3. /\ slots' = Acquire(freed, c)
        /\ job' = [AfterRelease(c, "none") EXCEPT ![c] = Run(retry)]
    BY <2>1, <2>2 DEF HardwareFails
  <2>4. slots'.active = slots.active /\ slots'.queue = << >>
    BY <1>1, <2>1, <2>3, AcquireFields
  <2>5. job' = [job EXCEPT ![c] = Run(retry)]
    BY <2>1, <2>3
  <2>6. Running' = Running /\ Queued' = {}
    BY <1>1, <2>1, <2>5 DEF Running, Queued, Run, Job
  <2>7. Waiting(slots') = {} /\ Distinct(slots'.queue) /\ Len(slots'.queue) = 0
    BY <2>4 DEF Waiting, Distinct
  <2>8. QED
    BY <1>2, <2>1, <2>2, <2>4, <2>6, <2>7, SlotInvIntro, LimitsAssumption
<1>4. CASE slots.queue # << >>
  <2> DEFINE first == slots.queue[1]
  <2>1. /\ freed \in [active : Nat, queue : Seq(Callers)]
        /\ freed.active = slots.active /\ Len(freed.queue) = Len(slots.queue) - 1
        /\ Distinct(freed.queue) /\ Waiting(freed) = Queued \ {first}
        /\ slots.active = MaxConcurrent
        /\ first \in Callers /\ first \in Queued /\ first # c
        /\ AfterRelease(c, "none") =
             [job EXCEPT ![c] = Answer(job[c], "none"), ![first] = Run(job[first])]
    BY <1>1, <1>4, ReleaseHandsOver
  <2>2. ~Free(freed) /\ ~EncodersSaturated(freed)
    BY <1>2, <2>1, LimitsAssumption DEF Free, EncodersSaturated
  <2>3. /\ ~Refuses(freed) /\ slots' = Acquire(freed, c)
        /\ job' = [AfterRelease(c, "none") EXCEPT ![c] = [retry EXCEPT !.pc = "queued"]]
    BY <2>2 DEF HardwareFails, Refuses
  <2>4. first \notin Running /\ c \notin Queued
    BY <1>1, <2>1 DEF Queued, Running
  <2>5. slots'.active = slots.active /\ slots'.queue = Append(freed.queue, c)
    BY <2>1, <2>2, <2>3, AcquireFields
  <2>6. Seats(freed.queue) = Queued \ {first} /\ freed.queue \in Seq(Callers)
    BY <2>1 DEF Waiting, Seats
  <2>7. /\ Len(slots'.queue) = Len(freed.queue) + 1 /\ Distinct(slots'.queue)
        /\ Seats(slots'.queue) = (Queued \ {first}) \cup {c}
    BY <2>1, <2>4, <2>5, <2>6, AppendSeats
  <2> HIDE DEF first, freed
  <2>8. job' = [job EXCEPT ![c] = [retry EXCEPT !.pc = "queued"], ![first] = Run(job[first])]
    BY <2>1, <2>3
  <2>a. \A d \in Callers : job'[d].pc = IF d = c THEN "queued"
                                       ELSE IF d = first THEN "running" ELSE job[d].pc
    <3>1. job[c] \in Job /\ job[first] \in Job
      BY <2>1
    <3>2. [retry EXCEPT !.pc = "queued"].pc = "queued" /\ Run(job[first]).pc = "running"
      BY <3>1 DEF Run, Job
    <3>3. QED
      BY <2>1, <2>8, <3>2
  <2>9. /\ Running' = (Running \ {c}) \cup {first}
        /\ Queued' = (Queued \ {first}) \cup {c}
    <3>1. \A d \in Callers : d \in Running' <=> d \in (Running \ {c}) \cup {first}
      BY <2>a, <2>1 DEF Running
    <3>2. \A d \in Callers : d \in Queued' <=> d \in (Queued \ {first}) \cup {c}
      BY <2>a, <2>1 DEF Queued
    <3>3. QED
      BY <3>1, <3>2, <2>1 DEF Running, Queued
  <2>10. IsFiniteSet(Running') /\ Cardinality(Running') = (slots.active - 1) + 1
    BY <1>1, <2>4, <2>9, FS_AddElement
  <2>11. Waiting(slots') = Queued' /\ Len(slots'.queue) <= MaxQueue
    BY <1>2, <2>1, <2>6, <2>7, <2>9, LimitsAssumption DEF Waiting, Seats
  <2>12. QED
    BY <1>1, <1>2, <1>4, <2>1, <2>3, <2>5, <2>7, <2>10, <2>11, SlotInvIntro DEF freed
<1>5. QED
  BY <1>3, <1>4

LEMMA SlotStep ==
  ASSUME TypeOK, SlotInv, [Next]_vars
  PROVE  SlotInv'
<1>1. ASSUME NEW c \in Callers, Call(c) PROVE SlotInv'
  BY <1>1, CallStep
<1>2. ASSUME NEW c \in Callers, CallRefused(c) PROVE SlotInv'
  <2>1. Running' = Running /\ Queued' = Queued /\ slots' = slots
    BY <1>2 DEF CallRefused, Idle, Running, Queued, Answer, NewCall, TypeOK
  <2>2. QED
    BY <2>1 DEF SlotInv, SlotsExact, WorkConserving, Waiting
<1>3. ASSUME NEW c \in Callers, Encoded(c) \/ SoftwareFails(c) PROVE SlotInv'
  BY <1>3, LeaveStep DEF Encoded, SoftwareFails
<1>4. ASSUME NEW c \in Callers, HardwareFails(c) PROVE SlotInv'
  BY <1>4, HardwareFailsStep
<1>5. CASE UNCHANGED vars
  BY <1>5 DEF vars, SlotInv, SlotsExact, WorkConserving, Running, Queued, Waiting
<1>6. QED
  BY <1>1, <1>2, <1>3, <1>4, <1>5 DEF Next, Close

LEMMA TypeStep ==
  ASSUME TypeOK, SlotInv, [Next]_vars
  PROVE  TypeOK'
<1> USE DEF TypeOK
<1> DEFINE Slots == [active : Nat, queue : Seq(Callers)]
<1>1. ASSUME NEW c \in Callers, Call(c) PROVE TypeOK'
  BY <1>1, CallTypes, SemaphoreTypes DEF Call
<1>2. ASSUME NEW c \in Callers, CallRefused(c) PROVE TypeOK'
  <2>1. [NewCall EXCEPT !.encoder = "software"] \in Job
    BY CallTypes DEF Job
  <2>2. QED
    BY <1>2, <2>1, CallTypes DEF CallRefused
<1>3. ASSUME NEW c \in Callers, job[c].pc = "running",
             NEW outcome \in {"none", "encoded", "failed", "busy"}
      PROVE  AfterRelease(c, outcome) \in [Callers -> Job] /\ Release(slots) \in Slots
  <2>1. slots \in Slots /\ slots.active > 0
    BY <1>3, Answering
  <2>2. QED
    BY <1>3, <2>1, CallTypes, SemaphoreTypes DEF AfterRelease
<1>4. ASSUME NEW c \in Callers, Encoded(c) \/ SoftwareFails(c) PROVE TypeOK'
  BY <1>3, <1>4 DEF Encoded, SoftwareFails
<1>5. ASSUME NEW c \in Callers, HardwareFails(c) PROVE TypeOK'
  <2> DEFINE retry == [job[c] EXCEPT !.encoder = "software"]
  <2>1. /\ AfterRelease(c, "none") \in [Callers -> Job] /\ Release(slots) \in Slots
        /\ ~Refuses(Release(slots))
    BY <1>3, <1>5, HardwareFailsStep DEF HardwareFails
  <2>2. retry \in Job /\ Run(retry) \in Job /\ [retry EXCEPT !.pc = "queued"] \in Job
    <3>1. job[c] \in Job
      OBVIOUS
    <3>2. retry \in Job
      BY <3>1 DEF Job
    <3>3. [retry EXCEPT !.pc = "queued"] \in Job
      BY <3>1 DEF Job
    <3>4. QED
      BY <3>2, <3>3, CallTypes
  <2>3. Acquire(Release(slots), c) \in Slots
    BY <2>1, SemaphoreTypes
  <2>4. /\ slots' = Acquire(Release(slots), c) /\ hardware' = "off"
        /\ \/ job' = [AfterRelease(c, "none") EXCEPT ![c] = Run(retry)]
           \/ job' = [AfterRelease(c, "none") EXCEPT ![c] = [retry EXCEPT !.pc = "queued"]]
    BY <1>5, <2>1 DEF HardwareFails
  <2> HIDE DEF retry
  <2>5. job' \in [Callers -> Job]
    BY <2>1, <2>2, <2>4
  <2>6. QED
    BY <2>3, <2>4, <2>5
<1>6. CASE UNCHANGED vars
  BY <1>6 DEF vars
<1>7. QED
  BY <1>1, <1>2, <1>4, <1>5, <1>6 DEF Next, Close

LEMMA SlotInit == Init => TypeOK /\ SlotInv
<1> SUFFICES ASSUME Init PROVE TypeOK /\ SlotInv
  OBVIOUS
<1>1. TypeOK
  BY DEF Init, TypeOK, Job
<1>2. Running = {} /\ Queued = {} /\ Waiting(slots) = {}
  BY DEF Init, Running, Queued, Waiting
<1>3. IsFiniteSet(Running) /\ Cardinality(Running) = 0
  BY <1>2, FS_EmptySet
<1>4. QED
  BY <1>1, <1>2, <1>3, LimitsAssumption DEF Init, SlotInv, SlotsExact, WorkConserving

LEMMA Invariant == Spec => [](TypeOK /\ SlotInv)
BY SlotInit, SlotStep, TypeStep, PTL DEF Spec

\* The queue of callers is always a sequence of callers, the counter a number.
THEOREM TypeCorrect == Spec => []TypeOK
BY Invariant, PTL

\* activeEncodes never drifts from the number of ffmpeg processes, and the two
\* limits hold.
THEOREM SlotsAreExact == Spec => []SlotsExact
<1>1. SlotInv => SlotsExact
  BY DEF SlotInv
<1>2. QED
  BY <1>1, Invariant, PTL

\* Nobody waits for an encoder while one is free.
THEOREM NoIdleSlot == Spec => []WorkConserving
<1>1. SlotInv => WorkConserving
  BY DEF SlotInv
<1>2. QED
  BY <1>1, Invariant, PTL

\* The slots are counted exactly and none of them idles while a caller waits.
THEOREM QueueIsSound == Spec => []QueueSound
<1>1. TypeOK /\ SlotsExact /\ WorkConserving => QueueSound
  BY DEF QueueSound
<1>2. QED
  BY <1>1, TypeCorrect, SlotsAreExact, NoIdleSlot, PTL
-------------------------------------------------------------------------------
(***************************************************************************)
(* Failures.  A call that waits or runs has no outcome yet, so one that    *)
(* was admitted can only be refused by the second request for a slot; and  *)
(* that request is made right after a release, which leaves a slot or a    *)
(* seat.                                                                   *)
(***************************************************************************)
OutcomeInv ==
  /\ \A c \in Callers : job[c].pc \in {"queued", "running"} => job[c].outcome = "none"
  /\ AcceleratorCostsNothing

LEMMA OutcomeStep ==
  ASSUME TypeOK, SlotInv, OutcomeInv, [Next]_vars
  PROVE  OutcomeInv'
<1> USE DEF TypeOK
<1> DEFINE Good(j) == /\ j.pc \in {"queued", "running"} => j.outcome = "none"
                      /\ j.outcome = "failed" => j.encoder = "software"
                      /\ j.outcome = "busy" => ~j.admitted
<1>a. OutcomeInv <=> \A c \in Callers : Good(job[c])
  BY DEF OutcomeInv, AcceleratorCostsNothing
<1>b. OutcomeInv' <=> \A c \in Callers : Good(job'[c])
  BY DEF OutcomeInv, AcceleratorCostsNothing
<1>c. Good(NewCall) /\ Good(Run(NewCall))
  BY DEF NewCall, Run
<1>1. ASSUME NEW c \in Callers, Call(c) PROVE OutcomeInv'
  BY <1>1, <1>a, <1>b, <1>c DEF Call
<1>2. ASSUME NEW c \in Callers, CallRefused(c) PROVE OutcomeInv'
  <2>1. Good(Answer([NewCall EXCEPT !.encoder = "software"], "busy"))
    BY DEF NewCall, Answer
  <2>2. QED
    BY <1>2, <1>a, <1>b, <2>1 DEF CallRefused
<1>3. ASSUME NEW c \in Callers, job[c].pc = "running",
             NEW outcome \in {"none", "encoded", "failed"},
             outcome = "failed" => job[c].encoder = "software"
      PROVE  \A d \in Callers : Good(AfterRelease(c, outcome)[d])
  <2> SUFFICES ASSUME NEW d \in Callers PROVE Good(AfterRelease(c, outcome)[d])
    OBVIOUS
  <2>1. CASE d = c
    <3>1. AfterRelease(c, outcome)[d] = Answer(job[c], outcome) /\ job[c] \in Job
      BY <2>1 DEF AfterRelease
    <3>2. Good(Answer(job[c], outcome))
      BY <1>3, <3>1 DEF Answer, Job
    <3>3. QED
      BY <3>1, <3>2
  <2>2. CASE d # c /\ d \in Waiting(slots) \ Waiting(Release(slots))
    <3>1. AfterRelease(c, outcome)[d] = Run(job[d]) /\ job[d] \in Job
      BY <2>2 DEF AfterRelease
    <3>2. job[d].outcome = "none"
      BY <2>2 DEF SlotInv, SlotsExact, Queued, OutcomeInv
    <3>3. Good(Run(job[d]))
      BY <3>1, <3>2 DEF Run, Job
    <3>4. QED
      BY <3>1, <3>3
  <2>3. CASE d # c /\ d \notin Waiting(slots) \ Waiting(Release(slots))
    <3>1. AfterRelease(c, outcome)[d] = job[d]
      BY <2>3 DEF AfterRelease
    <3>2. QED
      BY <3>1, <1>a
  <2>4. QED
    BY <2>1, <2>2, <2>3
<1>4. ASSUME NEW c \in Callers, Encoded(c) \/ SoftwareFails(c) PROVE OutcomeInv'
  BY <1>3, <1>4, <1>b DEF Encoded, SoftwareFails
<1>5. ASSUME NEW c \in Callers, HardwareFails(c) PROVE OutcomeInv'
  <2> DEFINE retry == [job[c] EXCEPT !.encoder = "software"]
  <2>1. job[c] \in Job /\ job[c].pc = "running" /\ job[c].outcome = "none"
    BY <1>5 DEF HardwareFails, OutcomeInv
  <2>2. Good(Run(retry)) /\ Good([retry EXCEPT !.pc = "queued"])
    BY <2>1 DEF Run, Job
  <2>3. \A d \in Callers : Good(AfterRelease(c, "none")[d])
    BY <1>3, <2>1
  <2>4. AfterRelease(c, "none") \in [Callers -> Job] /\ ~Refuses(Release(slots))
    BY <1>5, CallTypes, HardwareFailsStep DEF AfterRelease
  <2>5. \/ job' = [AfterRelease(c, "none") EXCEPT ![c] = Run(retry)]
        \/ job' = [AfterRelease(c, "none") EXCEPT ![c] = [retry EXCEPT !.pc = "queued"]]
    BY <1>5, <2>4 DEF HardwareFails
  <2> HIDE DEF retry, Good
  <2>6. QED
    BY <1>b, <2>2, <2>3, <2>4, <2>5
<1>6. CASE UNCHANGED vars
  BY <1>6, <1>a, <1>b DEF vars
<1>7. QED
  BY <1>1, <1>2, <1>4, <1>5, <1>6 DEF Next, Close

\* A broken hardware encoder turns no call away and fails none.
THEOREM AcceleratorIsFree == Spec => []AcceleratorCostsNothing
<1>1. Init => OutcomeInv
  BY DEF Init, OutcomeInv, AcceleratorCostsNothing
<1>2. OutcomeInv => AcceleratorCostsNothing
  BY DEF OutcomeInv
<1>3. QED
  BY <1>1, <1>2, OutcomeStep, Invariant, PTL DEF Spec
-------------------------------------------------------------------------------
(***************************************************************************)
(* The service.  A call is pending while it runs or waits, and what is     *)
(* counted of the slots and of the queue is the number of such calls.      *)
(***************************************************************************)
Pending == Running \cup Queued
PendingAt(j) == j.pc \in {"running", "queued"}
SeenOf(j) == IF j.outcome = "failed" /\ j.encoder = "hardware" THEN "hardware failure"
             ELSE j.outcome

\* The service's copy of Cardinality is the library's.
LEMMA ServiceCardinality == \A S : Service!Cardinality(S) = Cardinality(S)
BY Zenon DEF Service!Cardinality, Cardinality

\* Slots and seats are taken by different callers.
LEMMA PlacesTaken ==
  ASSUME TypeOK, SlotInv
  PROVE  Cardinality(Pending) = slots.active + Len(slots.queue)
<1> DEFINE q == slots.queue
<1>1. /\ q \in Seq(Callers) /\ Len(q) \in Nat /\ Distinct(q) /\ Queued = Seats(q)
      /\ IsFiniteSet(Running) /\ slots.active = Cardinality(Running)
  BY DEF TypeOK, SlotInv, SlotsExact, Distinct, Waiting, Seats
<1>2. IsFiniteSet(Queued) /\ Cardinality(Queued) = Len(q)
  <2>1. q \in [1..Len(q) -> Queued]
    BY <1>1 DEF Seats
  <2>2. q \in Bijection(1..Len(q), Queued)
    BY <1>1, <2>1 DEF Bijection, Injection, Surjection, IsInjective, Distinct, Seats
  <2>3. ExistsBijection(1..Len(q), Queued)
    BY <2>2 DEF ExistsBijection
  <2>4. QED
    BY <1>1, <2>3, FS_CountingElements, FS_NatBijection
<1>3. Running \cap Queued = {}
  BY DEF Running, Queued
<1>4. Cardinality(Running \cap Queued) = 0
  BY <1>3, FS_EmptySet
<1>5. Cardinality(Pending) = Cardinality(Running) + Cardinality(Queued) - 0
  BY <1>1, <1>2, <1>4, FS_Union DEF Pending
<1>6. QED
  BY <1>1, <1>2, <1>5, FS_CardinalityType

\* What an answer does to the other calls is not seen: a promoted waiter stays pending.
LEMMA OthersStay ==
  ASSUME TypeOK, SlotInv, NEW c \in Callers, NEW d \in Callers, d # c,
         NEW outcome \in {"none", "encoded", "failed", "busy"}
  PROVE  LET j == AfterRelease(c, outcome)[d] IN
         SeenOf(j) = SeenOf(job[d]) /\ (PendingAt(j) <=> PendingAt(job[d]))
<1>1. job[d] \in Job
  BY DEF TypeOK
<1>2. CASE d \in Waiting(slots) \ Waiting(Release(slots))
  <2>1. AfterRelease(c, outcome)[d] = Run(job[d])
    BY <1>2 DEF AfterRelease
  <2>2. job[d].pc = "queued"
    BY <1>2 DEF SlotInv, SlotsExact, Queued
  <2>3. SeenOf(Run(job[d])) = SeenOf(job[d]) /\ PendingAt(Run(job[d]))
    BY <1>1 DEF Run, SeenOf, PendingAt, Job
  <2>4. QED
    BY <2>1, <2>2, <2>3 DEF PendingAt
<1>3. CASE d \notin Waiting(slots) \ Waiting(Release(slots))
  BY <1>3 DEF AfterRelease
<1>4. QED
  BY <1>2, <1>3

\* A step is seen where it changes what a call looks like.
LEMMA SeenChange ==
  ASSUME TypeOK, TypeOK', NEW c \in Callers,
         \A d \in Callers \ {c} : /\ SeenOf(job'[d]) = SeenOf(job[d])
                                  /\ PendingAt(job'[d]) <=> PendingAt(job[d])
  PROVE  /\ Pending' = IF PendingAt(job'[c]) THEN Pending \cup {c} ELSE Pending \ {c}
         /\ [d \in Callers |-> Seen(d)]' =
              [[d \in Callers |-> Seen(d)] EXCEPT ![c] = SeenOf(job'[c])]
<1>1. \A d \in Callers : (d \in Pending <=> PendingAt(job[d])) /\ Seen(d) = SeenOf(job[d])
  BY DEF Pending, Running, Queued, PendingAt, Seen, SeenOf
<1>2. \A d \in Callers : /\ d \in Pending' <=> PendingAt(job'[d])
                         /\ Seen(d)' = SeenOf(job'[d])
  BY DEF Pending, Running, Queued, PendingAt, Seen, SeenOf
<1>3. Pending \subseteq Callers /\ Pending' \subseteq Callers
  BY DEF Pending, Running, Queued
<1>4. [d \in Callers |-> Seen(d)]' =
        [[d \in Callers |-> Seen(d)] EXCEPT ![c] = SeenOf(job'[c])]
  BY <1>1, <1>2
<1>5. CASE PendingAt(job'[c])
  BY <1>1, <1>2, <1>3, <1>4, <1>5
<1>6. CASE ~PendingAt(job'[c])
  BY <1>1, <1>2, <1>3, <1>4, <1>6
<1>7. QED
  BY <1>5, <1>6

LEMMA ServiceInit == Init => Service!Init
<1> SUFFICES ASSUME Init PROVE Service!Init
  OBVIOUS
<1>1. Running \cup Queued = {}
  BY DEF Init, Running, Queued
<1>2. \A c \in Callers : Seen(c) = "none"
  BY DEF Init, Seen
<1>3. QED
  BY <1>1, <1>2 DEF Service!Init

LEMMA ServiceStep ==
  ASSUME TypeOK, TypeOK', SlotInv, OutcomeInv, [Next]_vars
  PROVE  [Service!Next]_(Service!vars)
<1> DEFINE Answers == [d \in Callers |-> Seen(d)]
<1>a. /\ slots.active \in Nat /\ Len(slots.queue) \in Nat
      /\ slots.active <= MaxConcurrent /\ Len(slots.queue) <= MaxQueue
      /\ slots.queue # << >> => slots.active = MaxConcurrent
      /\ Cardinality(Pending) = slots.active + Len(slots.queue)
      /\ Service!Cardinality(Pending) = Cardinality(Pending)
  BY PlacesTaken, ServiceCardinality DEF TypeOK, SlotInv, SlotsExact, WorkConserving
<1>b. \A c \in Callers : c \in Pending <=> PendingAt(job[c])
  BY DEF Pending, Running, Queued, PendingAt
<1>1. ASSUME NEW c \in Callers, Call(c) PROVE Service!TakeIn(c)
  <2>1. /\ \A d \in Callers \ {c} : job'[d] = job[d]
        /\ job'[c] = Run(NewCall) \/ job'[c] = NewCall
    BY <1>1 DEF Call, TypeOK
  <2>2. PendingAt(job'[c]) /\ SeenOf(job'[c]) = "none"
    <3>1. PendingAt(NewCall) /\ SeenOf(NewCall) = "none"
      BY DEF NewCall, PendingAt, SeenOf
    <3>2. PendingAt(Run(NewCall)) /\ SeenOf(Run(NewCall)) = "none"
      BY DEF NewCall, Run, PendingAt, SeenOf
    <3>3. QED
      BY <2>1, <3>1, <3>2
  <2>3. Pending' = Pending \cup {c} /\ Answers' = [Answers EXCEPT ![c] = "none"]
    BY <2>1, <2>2, SeenChange
  <2>4. c \notin Pending
    BY <1>1, <1>b DEF Call, Idle, PendingAt
  <2>5. Cardinality(Pending) < MaxConcurrent + MaxQueue
    <3>1. Free(slots) => slots.queue = << >>
      BY <1>a DEF Free
    <3>2. QED
      BY <1>1, <1>a, <3>1, LimitsAssumption DEF Call, Refuses, Free, EncodersSaturated
  <2>6. QED
    BY <1>a, <2>3, <2>4, <2>5 DEF Service!TakeIn, Pending
<1>2. ASSUME NEW c \in Callers, CallRefused(c) PROVE Service!TurnAway(c)
  <2> DEFINE busy == Answer([NewCall EXCEPT !.encoder = "software"], "busy")
  <2>1. (\A d \in Callers \ {c} : job'[d] = job[d]) /\ job'[c] = busy
    BY <1>2 DEF CallRefused, TypeOK
  <2>2. ~PendingAt(busy) /\ SeenOf(busy) = "busy"
    BY DEF Answer, NewCall, PendingAt, SeenOf
  <2>3. Pending' = Pending \ {c} /\ Answers' = [Answers EXCEPT ![c] = "busy"]
    BY <2>1, <2>2, SeenChange
  <2>4. c \notin Pending
    BY <1>2, <1>b DEF CallRefused, Idle, PendingAt
  <2>5. Cardinality(Pending) >= MaxConcurrent + MaxQueue
    BY <1>2, <1>a, LimitsAssumption DEF CallRefused, Refuses, Free, EncodersSaturated
  <2>6. QED
    BY <1>a, <2>3, <2>4, <2>5 DEF Service!TurnAway, Pending
<1>3. ASSUME NEW c \in Callers, Encoded(c) \/ SoftwareFails(c) PROVE Service!Finish(c)
  <2>1. PICK outcome \in {"encoded", "failed"} :
          job' = AfterRelease(c, outcome) /\ (outcome = "failed" => job[c].encoder = "software")
    BY <1>3 DEF Encoded, SoftwareFails
  <2>2. \A d \in Callers \ {c} : /\ SeenOf(job'[d]) = SeenOf(job[d])
                                 /\ PendingAt(job'[d]) <=> PendingAt(job[d])
    BY <2>1, OthersStay
  <2>3. job'[c] = Answer(job[c], outcome) /\ job[c] \in Job /\ job[c].pc = "running"
    BY <1>3, <2>1 DEF AfterRelease, TypeOK, Encoded, SoftwareFails
  <2>4. ~PendingAt(job'[c]) /\ SeenOf(job'[c]) = outcome
    BY <2>1, <2>3 DEF Answer, PendingAt, SeenOf, Job
  <2>5. Pending' = Pending \ {c} /\ Answers' = [Answers EXCEPT ![c] = outcome]
    BY <2>2, <2>4, SeenChange
  <2>6. c \in Pending
    BY <1>b, <2>3 DEF PendingAt
  <2>7. QED
    BY <2>5, <2>6 DEF Service!Finish, Pending
<1>4. ASSUME NEW c \in Callers, HardwareFails(c) PROVE UNCHANGED Service!vars
  <2> DEFINE retry == [job[c] EXCEPT !.encoder = "software"]
  <2>1. job[c] \in Job /\ job[c].pc = "running" /\ job[c].outcome = "none"
    BY <1>4 DEF HardwareFails, TypeOK, OutcomeInv
  <2>2. ~Refuses(Release(slots)) /\ AfterRelease(c, "none") \in [Callers -> Job]
    BY <1>4, CallTypes, HardwareFailsStep DEF AfterRelease, TypeOK
  <2>3. \/ job' = [AfterRelease(c, "none") EXCEPT ![c] = Run(retry)]
        \/ job' = [AfterRelease(c, "none") EXCEPT ![c] = [retry EXCEPT !.pc = "queued"]]
    BY <1>4, <2>2 DEF HardwareFails
  <2>4. /\ \A d \in Callers \ {c} : job'[d] = AfterRelease(c, "none")[d]
        /\ job'[c] = Run(retry) \/ job'[c] = [retry EXCEPT !.pc = "queued"]
    BY <2>2, <2>3
  <2>5. \A d \in Callers \ {c} : /\ SeenOf(job'[d]) = SeenOf(job[d])
                                 /\ PendingAt(job'[d]) <=> PendingAt(job[d])
    BY <2>4, OthersStay
  <2>6. PendingAt(job'[c]) /\ SeenOf(job'[c]) = "none" /\ Seen(c) = "none"
    BY <2>1, <2>4 DEF Run, PendingAt, SeenOf, Seen, Job
  <2>7. Pending' = Pending \cup {c} /\ Answers' = [Answers EXCEPT ![c] = "none"]
    BY <2>5, <2>6, SeenChange
  <2>8. c \in Pending
    BY <1>b, <2>1 DEF PendingAt
  <2>9. QED
    BY <2>6, <2>7, <2>8 DEF Service!vars, Pending
<1>5. CASE UNCHANGED vars
  BY <1>5 DEF vars, Service!vars, Running, Queued, Seen
<1>6. QED
  BY <1>1, <1>2, <1>3, <1>4, <1>5 DEF Next, Close, Service!Next

\* Every behaviour of the queue is a behaviour of the service: a call is refused exactly
\* when all places are taken, and a call that was taken in ends with an encode or with a
\* failure of the software encoder.
THEOREM QueueImplementsService == Spec => ImplementsService
<1>1. Init => OutcomeInv
  BY DEF Init, OutcomeInv, AcceleratorCostsNothing
<1>2. QED
  BY <1>1, ServiceInit, ServiceStep, OutcomeStep, Invariant, PTL
     DEF Spec, ImplementsService, Service!Spec

\* What the service promises holds of it, whatever queue implements it.
LEMMA ServiceWithin == Service!Spec => []Service!Within
<1> DEFINE pend == Running \cup Queued
           ans == [c \in Callers |-> Seen(c)]
<1>a. /\ \A S : Service!Cardinality(S) = Cardinality(S)
      /\ \A S : Service!IsFiniteSet(S) <=> IsFiniteSet(S)
  BY ServiceCardinality, Zenon DEF Service!IsFiniteSet, IsFiniteSet
<1>b. MaxConcurrent + MaxQueue \in Nat
  BY LimitsAssumption
<1>1. Service!Init => Service!Within
  <2> SUFFICES ASSUME Service!Init PROVE Service!Within
    OBVIOUS
  <2>1. pend = {}
    BY DEF Service!Init
  <2>2. IsFiniteSet(pend) /\ Cardinality(pend) = 0
    BY <2>1, FS_EmptySet
  <2>3. QED
    BY <1>a, <1>b, <2>1, <2>2 DEF Service!Within
<1>2. Service!Within /\ [Service!Next]_(Service!vars) => Service!Within'
  <2> SUFFICES ASSUME Service!Within, [Service!Next]_(Service!vars) PROVE Service!Within'
    OBVIOUS
  <2>a. /\ IsFiniteSet(pend) /\ Cardinality(pend) <= MaxConcurrent + MaxQueue
        /\ Cardinality(pend) \in Nat
        /\ \A c \in pend : ans[c] = "none"
    BY <1>a, FS_CardinalityType DEF Service!Within
  <2>b. ASSUME IsFiniteSet(pend'), Cardinality(pend') <= MaxConcurrent + MaxQueue,
               \A c \in pend' : ans'[c] = "none"
        PROVE  Service!Within'
    BY <1>a, <2>b DEF Service!Within
  <2>1. ASSUME NEW c \in Callers, Service!TakeIn(c) PROVE Service!Within'
    <3>1. /\ c \notin pend /\ Cardinality(pend) < MaxConcurrent + MaxQueue
          /\ pend' = pend \cup {c} /\ ans' = [ans EXCEPT ![c] = "none"]
      BY <1>a, <2>1 DEF Service!TakeIn
    <3>2. IsFiniteSet(pend') /\ Cardinality(pend') = Cardinality(pend) + 1
      BY <2>a, <3>1, FS_AddElement
    <3>3. Cardinality(pend') <= MaxConcurrent + MaxQueue
      BY <1>b, <2>a, <3>1, <3>2
    <3>4. \A d \in pend' : ans'[d] = "none"
      BY <2>a, <3>1 DEF Running, Queued
    <3>5. QED
      BY <2>b, <3>2, <3>3, <3>4
  <2>2. ASSUME NEW c \in Callers, Service!TurnAway(c) PROVE Service!Within'
    <3>1. c \notin pend /\ pend' = pend /\ ans' = [ans EXCEPT ![c] = "busy"]
      BY <2>2 DEF Service!TurnAway
    <3>2. \A d \in pend' : ans'[d] = "none"
      BY <2>a, <3>1 DEF Running, Queued
    <3>3. QED
      BY <2>a, <2>b, <3>1, <3>2
  <2>3. ASSUME NEW c \in Callers, Service!Finish(c) PROVE Service!Within'
    <3>1. PICK outcome \in {"encoded", "failed"} :
            c \in pend /\ pend' = pend \ {c} /\ ans' = [ans EXCEPT ![c] = outcome]
      BY <2>3 DEF Service!Finish
    <3>2. IsFiniteSet(pend') /\ Cardinality(pend') = Cardinality(pend) - 1
      BY <2>a, <3>1, FS_RemoveElement
    <3>3. Cardinality(pend') <= MaxConcurrent + MaxQueue
      BY <1>b, <2>a, <3>2
    <3>4. \A d \in pend' : ans'[d] = "none"
      BY <2>a, <3>1 DEF Running, Queued
    <3>5. QED
      BY <2>b, <3>2, <3>3, <3>4
  <2>4. CASE UNCHANGED Service!vars
    BY <2>4, <2>a, <2>b DEF Service!vars
  <2>5. QED
    BY <2>1, <2>2, <2>3, <2>4 DEF Service!Next
<1>3. QED
  BY <1>1, <1>2, PTL DEF Service!Spec

\* The encoder never has more calls on its hands than it has slots and seats, and no call
\* among them has been answered already (watermark.js:39).
THEOREM CallsAreWithin == Spec => []Service!Within
BY QueueImplementsService, ServiceWithin, PTL DEF ImplementsService
===============================================================================
