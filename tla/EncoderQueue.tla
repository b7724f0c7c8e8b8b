----------------------------- MODULE EncoderQueue -----------------------------
(***************************************************************************)
(* The admission control of src/watermark.js: at most MaxConcurrent ffmpeg *)
(* processes, at most MaxQueue callers waiting for one of them, everybody  *)
(* else refused; and the hardware encoder that is tried first and given up *)
(* for the rest of the process.                                            *)
(*                                                                         *)
(* A caller is one slot of the server's concurrency (an upload being       *)
(* normalised, a video view being rendered): it calls again after it was   *)
(* answered.  Between two I/O events the program runs without interruption *)
(* and settles its promises in order, so releasing a slot, catching the    *)
(* failed hardware encode and asking for a slot again is one step here:    *)
(* only the promoted caller's spawn can run in between.                    *)
(***************************************************************************)
EXTENDS Naturals, Sequences, FiniteSets

CONSTANTS
  Callers,        \* concurrent callers of runFfmpegAccelerated
  MaxConcurrent,  \* config.ffmpeg.maxConcurrent
  MaxQueue        \* config.ffmpeg.maxQueue

ASSUME LimitsAssumption == MaxConcurrent \in Nat /\ MaxQueue \in Nat

VARIABLES
  slots,     \* slots.active = activeEncodes, slots.queue = encodeQueue
  hardware,  \* hwChoice: "on" names an encoder that passed the probe, "off" is null
  job        \* job[c]: the call of c in progress, or its last one

vars == <<slots, hardware, job>>

Job == [pc : {"idle", "queued", "running", "done"},
        encoder : {"hardware", "software"},  \* what its arguments were built for
        outcome : {"none", "encoded", "failed", "busy"},
        admitted : BOOLEAN]                  \* history: it has held a slot

TypeOK ==
  /\ slots \in [active : Nat, queue : Seq(Callers)]
  /\ hardware \in {"on", "off"}
  /\ job \in [Callers -> Job]

\* The probe that picks hwChoice runs once, before the first encode needs it.
Init ==
  /\ slots = [active |-> 0, queue |-> << >>]
  /\ hardware \in {"on", "off"}
  /\ job = [c \in Callers |-> [pc |-> "idle", encoder |-> "software",
                               outcome |-> "none", admitted |-> FALSE]]
-------------------------------------------------------------------------------
(***************************************************************************)
(* The semaphore.                                                          *)
(***************************************************************************)
\* Mutant: the limit is passed before it is noticed.
FreePast(s) == s.active <= MaxConcurrent
Free(s) == s.active < MaxConcurrent

\* Mutant: the caller that asks is counted as waiting already.
SaturatedWith(s) == Len(s.queue) + 1 >= MaxQueue
EncodersSaturated(s) == Len(s.queue) >= MaxQueue

Refuses(s) == ~Free(s) /\ EncodersSaturated(s)

Acquire(s, c) ==
  IF Free(s) THEN [s EXCEPT !.active = @ + 1]
  ELSE [s EXCEPT !.queue = Append(@, c)]

\* Mutant: the slot is handed to the newest.
ReleaseNewest(s) ==
  IF s.queue = << >> THEN [s EXCEPT !.active = @ - 1]
  ELSE [s EXCEPT !.queue = SubSeq(@, 1, Len(@) - 1)]

Release(s) ==
  IF s.queue = << >> THEN [s EXCEPT !.active = @ - 1]
  ELSE [s EXCEPT !.queue = Tail(@)]

Waiting(s) == {s.queue[i] : i \in 1..Len(s.queue)}

Run(j) == [j EXCEPT !.pc = "running", !.admitted = TRUE]
Answer(j, outcome) == [j EXCEPT !.pc = "done", !.outcome = outcome]
-------------------------------------------------------------------------------
Idle(c) == job[c].pc \in {"idle", "done"}

\* The encoder this call prefers; its arguments are built before it waits.
Preferred == IF hardware = "on" THEN "hardware" ELSE "software"
NewCall == [pc |-> "queued", encoder |-> Preferred, outcome |-> "none", admitted |-> FALSE]

Call(c) ==
  /\ Idle(c) /\ ~Refuses(slots)
  /\ slots' = Acquire(slots, c)
  /\ job' = [job EXCEPT ![c] = IF Free(slots) THEN Run(NewCall) ELSE NewCall]
  /\ UNCHANGED hardware

\* EncoderBusyError out of the hardware attempt is caught like a failed encode:
\* the hardware is disabled and the software attempt is refused as well.
CallRefused(c) ==
  /\ Idle(c) /\ Refuses(slots)
  /\ hardware' = "off"
  /\ job' = [job EXCEPT ![c] = Answer([NewCall EXCEPT !.encoder = "software"], "busy")]
  /\ UNCHANGED slots

\* The calls after c gave its slot back: the waiter whose promise was resolved
\* has left the queue and runs.
AfterRelease(c, outcome) ==
  [d \in Callers |-> IF d = c THEN Answer(job[c], outcome)
                     ELSE IF d \in Waiting(slots) \ Waiting(Release(slots)) THEN Run(job[d])
                     ELSE job[d]]

Encoded(c) ==
  /\ job[c].pc = "running"
  /\ slots' = Release(slots)
  /\ job' = AfterRelease(c, "encoded")
  /\ UNCHANGED hardware

\* ffmpeg exits with an error, cannot be spawned, or is killed at timeoutSec.
SoftwareFails(c) ==
  /\ job[c].pc = "running" /\ job[c].encoder = "software"
  /\ slots' = Release(slots)
  /\ job' = AfterRelease(c, "failed")
  /\ UNCHANGED hardware

\* Mutant: the error of the hardware encode is passed on to the caller.
HardwareFailsForGood(c) ==
  /\ job[c].pc = "running" /\ job[c].encoder = "hardware"
  /\ slots' = Release(slots)
  /\ job' = AfterRelease(c, "failed")
  /\ hardware' = "off"

HardwareFails(c) ==
  /\ job[c].pc = "running" /\ job[c].encoder = "hardware"
  /\ hardware' = "off"
  /\ LET freed == Release(slots)
         others == AfterRelease(c, "none")
         retry == [job[c] EXCEPT !.encoder = "software"]
     IN IF Refuses(freed)
        THEN /\ slots' = freed
             /\ job' = [others EXCEPT ![c] = Answer(retry, "busy")]
        ELSE /\ slots' = Acquire(freed, c)
             /\ job' = [others EXCEPT ![c] = IF Free(freed) THEN Run(retry)
                                             ELSE [retry EXCEPT !.pc = "queued"]]

\* The child process of c comes to its end.
Close(c) == Encoded(c) \/ SoftwareFails(c) \/ HardwareFails(c)

Next == \E c \in Callers : Call(c) \/ CallRefused(c) \/ Close(c)

Spec == Init /\ [][Next]_vars

\* Every ffmpeg process ends: it is killed once timeoutSec has passed.
FairSpec == Spec /\ \A c \in Callers : WF_vars(Close(c))
-------------------------------------------------------------------------------
(***************************************************************************)
(* Properties.                                                             *)
(***************************************************************************)
Running == {c \in Callers : job[c].pc = "running"}
Queued == {c \in Callers : job[c].pc = "queued"}

\* activeEncodes counts the ffmpeg processes exactly and stays within the
\* limit, whatever mix of failures, hand-overs and retries went before, and
\* encodeQueue holds each waiting caller once.
SlotsExact ==
  /\ slots.active = Cardinality(Running) /\ slots.active <= MaxConcurrent
  /\ Len(slots.queue) <= MaxQueue
  /\ \A i, k \in 1..Len(slots.queue) : slots.queue[i] = slots.queue[k] => i = k
  /\ Queued = Waiting(slots)

\* releaseEncodeSlot's hand-over: nobody waits while a slot is free.
WorkConserving == slots.queue # << >> => slots.active = MaxConcurrent

\* The semaphore neither leaks nor mints a slot, whatever mix of failures, hand-overs
\* and retries went before, and lets no slot idle (watermark.js:47).
QueueSound == TypeOK /\ SlotsExact /\ WorkConserving

\* watermark.js:314 "a broken accelerator must never cost anyone their upload
\* or their view": a call that was admitted once is never refused afterwards,
\* and no call fails for good in hardware, also when its arguments were built
\* for hardware that has been given up while it was waiting.
AcceleratorCostsNothing ==
  \A c \in Callers :
    /\ job[c].outcome = "failed" => job[c].encoder = "software"
    /\ job[c].outcome = "busy" => ~job[c].admitted

\* What a caller sees of it: EncodeService, with a place for each slot and each seat of
\* the queue.  A failure in hardware is not one of its answers.
Seen(c) ==
  IF job[c].outcome = "failed" /\ job[c].encoder = "hardware" THEN "hardware failure"
  ELSE job[c].outcome

Service == INSTANCE EncodeService WITH
  Places <- MaxConcurrent + MaxQueue,
  pending <- Running \cup Queued,
  answer <- [c \in Callers |-> Seen(c)]

\* acquireEncodeSlot refuses a call exactly if all slots and seats are taken, also with
\* waiters promoted and hardware calls queueing a second time in between; and a call
\* that was let in is neither refused nor lost before ffmpeg has had its last word
\* (watermark.js:39, watermark.js:421).
ImplementsService == Service!Spec

\* Every call is answered, however many others keep calling: the queue is
\* first come, first served, and a call asks for a slot at most twice.
CallsAnswered == \A c \in Callers : job[c].pc = "queued" ~> job[c].pc = "done"
===============================================================================
