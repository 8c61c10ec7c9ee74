---------------------------- MODULE PipelineCycles ----------------------------
(***************************************************************************)
(* The cycles of the delay pipeline (codec-pipeline.cpp with the calls of  *)
(* video-delay-filter.cpp): who holds a reference to which ring, and who   *)
(* holds which raw frame, while the graphics thread starts and ends        *)
(* cycles, the encode workers and the decode worker are in the middle of   *)
(* something, and the reaper frees what they let go of.                    *)
(*                                                                         *)
(* A step is one critical section of mutex_, or what a thread does without *)
(* it. A ring is freed by whoever drops its last reference: hundreds of    *)
(* megabytes that the graphics thread and the workers must never free.     *)
(***************************************************************************)
EXTENDS Integers, Sequences, FiniteSets, SequencesExt

CONSTANTS RawFrames,     \* rawFrames_
          Workers,       \* encode workers
          First,         \* worker 0, the one that may own the inter encoder
          NoFrame,
          MaxRings,      \* bound: cycles with a ring
          Latency        \* frames the inter encoder holds at most

ASSUME CyclesAssumption ==
    /\ First \in Workers /\ NoFrame \notin RawFrames
    /\ MaxRings \in Nat /\ Latency \in Nat \ {0}

VARIABLES ring,          \* ring_ of the pipeline, 0 for none
          filterRing,    \* ring_ of the filter
          rings,         \* rings made so far: ring r is 1..rings
          graphics,      \* where the graphics thread is
          inHand,        \* the raw frame it is filling
          resizing,      \* the raw frames Attach took to size them
          queue,         \* queue_
          freeRaw,       \* freeRaw_
          sized,         \* raw frames with storage
          released,      \* rawPoolReleased_
          worker,        \* each encode worker: place, job, rings to let go of
          inFlight,      \* rings of the frames in the inter encoder
          inter,         \* interActive_: worker 0 has an inter encoder
          closing,       \* releaseSerial_ # handledRelease, for worker 0
          decoding,      \* the decode worker's copy of ring_, 0 for none
          reap, trim,    \* reap_ and trim_
          doomed,        \* what the reaper took from them
          freed,         \* rings freed
          stop           \* stop_, and how far Shutdown is

poolVars == <<inHand, resizing, freeRaw, sized>>
encodeVars == <<queue, worker, inFlight, inter, closing>>
reaperVars == <<reap, trim, doomed, freed>>
cycleVars == <<ring, filterRing, rings, released>>
vars == <<cycleVars, graphics, poolVars, encodeVars, decoding, reaperVars, stop>>

NoRing == 0
Rings == 1..rings
Idle == [pc |-> "idle", ring |-> NoRing, frame |-> NoFrame, letGo |-> {}]

TypeOK ==
    /\ rings \in 0..MaxRings /\ {ring, filterRing, decoding} \subseteq 0..rings
    /\ graphics \in {"idle", "attaching", "filling", "gone"}
    /\ inHand \in RawFrames \cup {NoFrame}
    /\ resizing \subseteq RawFrames /\ freeRaw \subseteq RawFrames /\ sized \subseteq RawFrames
    /\ queue \in Seq([ring : Rings, frame : RawFrames])
    /\ worker \in [Workers -> [pc : {"idle", "encoding", "sent", "settle", "gone"},
                               ring : 0..rings, frame : RawFrames \cup {NoFrame},
                               letGo : SUBSET Rings]]
    /\ inFlight \in Seq(Rings) /\ Len(inFlight) <= Latency
    /\ {released, inter, closing} \subseteq BOOLEAN
    /\ reap \subseteq Rings /\ trim \subseteq Rings /\ doomed \subseteq Rings
    /\ freed \subseteq Rings
    /\ stop \in {"no", "stopping", "joined"}

Init ==
    /\ ring = NoRing /\ filterRing = NoRing /\ rings = 0 /\ released = FALSE
    /\ graphics = "idle" /\ inHand = NoFrame /\ resizing = {}
    /\ freeRaw = RawFrames /\ sized = {}
    /\ queue = <<>> /\ worker = [w \in Workers |-> Idle]
    /\ inFlight = <<>> /\ inter = FALSE /\ closing = FALSE
    /\ decoding = NoRing
    /\ reap = {} /\ trim = {} /\ doomed = {} /\ freed = {}
    /\ stop = "no"
-----------------------------------------------------------------------------
(* Names with an underscore are the bugs the runs must notice: each takes  *)
(* the place of the definition after it.                                   *)

\* References a thread drops under mutex_ (ReleaseRingsLocked): those to the
\* attached ring just go, the others are the reaper's. Null ones are nothing.
ToReaper_Never(refs) == {}
ToReaper(refs) == {r \in refs : r \notin {ring, NoRing}}

\* ReturnRawFrameLocked: once disabled a frame comes back without its storage.
Stripped_Never(frames) == sized
Stripped(frames) == IF released THEN sized \ frames ELSE sized

(* The graphics thread. *)
\* EnsureRingSized: a new ring, attached. Attach's own Detach finds nothing left.
StartCycle ==
    /\ graphics = "idle" /\ filterRing = NoRing /\ rings < MaxRings
    /\ rings' = rings + 1
    /\ filterRing' = rings + 1 /\ ring' = rings + 1
    /\ released' = FALSE
    /\ resizing' = freeRaw /\ freeRaw' = {}
    /\ graphics' = "attaching"
    /\ UNCHANGED <<inHand, sized, encodeVars, decoding, reaperVars, stop>>

\* The rest of Attach: the frames of the pool, sized without the lock.
FinishAttach ==
    /\ graphics = "attaching"
    /\ sized' = sized \cup resizing
    /\ freeRaw' = freeRaw \cup resizing /\ resizing' = {}
    /\ graphics' = "idle"
    /\ UNCHANGED <<cycleVars, inHand, encodeVars, decoding, reaperVars, stop>>

\* StopCycle and Detach: the filter's reference, the pipeline's and the queued
\* jobs' all go to the reaper. disable: Disable, not a resize.
HandedOver == {filterRing, ring} \cup {queue[i].ring : i \in DOMAIN queue}
Unqueued_Lost == {}
Unqueued == {queue[i].frame : i \in DOMAIN queue}
EndCycle(disable) ==
    LET back == freeRaw \cup Unqueued
    IN  /\ graphics = "idle" /\ filterRing # NoRing
        /\ reap' = reap \cup (HandedOver \ {NoRing})
        /\ ring' = NoRing /\ filterRing' = NoRing
        /\ queue' = <<>>
        /\ freeRaw' = back
        /\ released' = (released \/ disable)
        /\ sized' = IF disable THEN sized \ back ELSE sized
        /\ closing' = (closing \/ disable)
        /\ UNCHANGED <<rings, graphics, inHand, resizing, worker, inFlight, inter,
                       decoding, trim, doomed, freed, stop>>

\* HarvestStagingSlot: AcquireRawFrame, whose storage grows if it has none,
\* then SubmitEncode, or ReleaseRawFrame if the readback failed.
AcquireRawFrame(f) ==
    /\ graphics = "idle" /\ filterRing # NoRing
    /\ f \in freeRaw
    /\ freeRaw' = freeRaw \ {f} /\ sized' = sized \cup {f}
    /\ inHand' = f /\ graphics' = "filling"
    /\ UNCHANGED <<cycleVars, resizing, encodeVars, decoding, reaperVars, stop>>

SubmitEncode ==
    /\ graphics = "filling"
    /\ queue' = Append(queue, [ring |-> filterRing, frame |-> inHand])
    /\ inHand' = NoFrame /\ graphics' = "idle"
    /\ UNCHANGED <<cycleVars, resizing, freeRaw, sized, worker, inFlight, inter, closing,
                   decoding, reaperVars, stop>>

ReleaseRawFrame ==
    /\ graphics = "filling"
    /\ freeRaw' = freeRaw \cup {inHand} /\ sized' = Stripped({inHand})
    /\ inHand' = NoFrame /\ graphics' = "idle"
    /\ UNCHANGED <<cycleVars, resizing, encodeVars, decoding, reaperVars, stop>>

(* An encode worker. *)
At(w, pc) == worker[w].pc = pc

\* While worker 0 encodes inter-frame it is the only active context.
TakeJob(w) ==
    /\ At(w, "idle") /\ stop = "no" /\ queue # <<>>
    /\ w = First => ~closing
    /\ inter => w = First
    /\ worker' = [worker EXCEPT ![w] = [pc |-> "encoding", ring |-> Head(queue).ring,
                                        frame |-> Head(queue).frame, letGo |-> {}]]
    /\ queue' = Tail(queue)
    /\ UNCHANGED <<cycleVars, graphics, poolVars, inFlight, inter, closing, decoding,
                   reaperVars, stop>>

\* EncodeOne: the frame is stored at once (or never), or the inter encoder
\* holds it with a reference of its own.
Encode(w) ==
    /\ At(w, "encoding")
    /\ \/ inFlight' = inFlight
       \/ /\ w = First /\ inter /\ Len(inFlight) < Latency
          /\ inFlight' = Append(inFlight, worker[w].ring)
    /\ worker' = [worker EXCEPT ![w].pc = "sent"]
    /\ UNCHANGED <<cycleVars, graphics, poolVars, queue, inter, closing, decoding, reaperVars,
                   stop>>

AdoptInter ==
    /\ At(First, "encoding") /\ ~inter
    /\ inter' = TRUE
    /\ UNCHANGED <<cycleVars, graphics, poolVars, queue, worker, inFlight, closing, decoding,
                   reaperVars, stop>>

\* StorePacket, of the oldest frame in flight; idle, the worker polls for it.
Receive ==
    /\ inFlight # <<>>
    /\ \/ worker[First].pc \in {"sent", "settle"}
       \/ At(First, "idle") /\ ~closing /\ queue = <<>> /\ stop = "no"
    /\ worker' = [worker EXCEPT ![First].letGo = @ \cup {Head(inFlight)},
                                ![First].pc = IF @ = "idle" THEN "settle" ELSE @]
    /\ inFlight' = Tail(inFlight)
    /\ UNCHANGED <<cycleVars, graphics, poolVars, queue, inter, closing, decoding, reaperVars,
                   stop>>

\* RetireInter, FailInter and CloseEncoder: what did not come out is dropped.
DropInFlight ==
    /\ inter
    /\ \/ worker[First].pc \in {"encoding", "sent"}
       \/ At(First, "idle") /\ ~closing /\ stop = "no"
    /\ worker' = [worker EXCEPT ![First].letGo = @ \cup ToSet(inFlight),
                                ![First].pc = IF @ = "idle" THEN "settle" ELSE @]
    /\ inFlight' = <<>> /\ inter' = FALSE
    /\ UNCHANGED <<cycleVars, graphics, poolVars, queue, closing, decoding, reaperVars, stop>>

\* Disable: what is in flight belongs to a ring being thrown away.
CloseEncoder_KeepsInFlight == UNCHANGED <<worker, inFlight>>
CloseEncoder ==
    /\ worker' = [worker EXCEPT ![First].letGo = ToSet(inFlight), ![First].pc = "settle"]
    /\ inFlight' = <<>>
HandleRelease ==
    /\ At(First, "idle") /\ closing /\ stop = "no"
    /\ closing' = FALSE /\ inter' = FALSE
    /\ CloseEncoder
    /\ UNCHANGED <<cycleVars, graphics, poolVars, queue, decoding, reaperVars, stop>>

\* RequestTrim, when blocks were emptied.
RequestTrim(w) ==
    /\ At(w, "sent")
    /\ trim' = trim \cup {worker[w].ring}
    /\ UNCHANGED <<cycleVars, graphics, poolVars, encodeVars, decoding, reap, doomed, freed, stop>>

\* Back under the lock: the raw frame to the pool, the rings to the reaper.
BackToPool(w) == {worker[w].frame} \ {NoFrame}
Settle(w) ==
    /\ worker[w].pc \in {"sent", "settle"}
    /\ reap' = reap \cup ToReaper(worker[w].letGo \cup {worker[w].ring})
    /\ freeRaw' = freeRaw \cup BackToPool(w)
    /\ sized' = Stripped({worker[w].frame})
    /\ worker' = [worker EXCEPT ![w] = Idle]
    /\ UNCHANGED <<cycleVars, graphics, inHand, resizing, queue, inFlight, inter, closing,
                   decoding, trim, doomed, freed, stop>>

(* The decode worker: a copy of ring_ for one decode. *)
StartDecode ==
    /\ decoding = NoRing /\ ring # NoRing /\ stop = "no"
    /\ decoding' = ring
    /\ UNCHANGED <<cycleVars, graphics, poolVars, encodeVars, reaperVars, stop>>

FinishDecode ==
    /\ decoding # NoRing
    /\ reap' = reap \cup ToReaper({decoding})
    /\ decoding' = NoRing
    /\ UNCHANGED <<cycleVars, graphics, poolVars, encodeVars, trim, doomed, freed, stop>>

(* The reaper. *)
Held(r) ==
    \/ r \in {ring, filterRing, decoding}
    \/ \E i \in DOMAIN queue : queue[i].ring = r
    \/ \E w \in Workers : r = worker[w].ring \/ r \in worker[w].letGo
    \/ r \in ToSet(inFlight) \cup reap \cup trim \cup doomed

TakeDoomed ==
    /\ doomed = {} /\ reap \cup trim # {}
    /\ doomed' = reap \cup trim
    /\ reap' = {} /\ trim' = {}
    /\ UNCHANGED <<cycleVars, graphics, poolVars, encodeVars, decoding, freed, stop>>

FreeDoomed ==
    /\ doomed # {}
    /\ doomed' = {}
    /\ UNCHANGED <<cycleVars, graphics, poolVars, encodeVars, decoding, reap, trim, stop>>
    /\ freed' = freed \cup {r \in doomed : ~Held(r)'}

(* Shutdown, on OBS's destruction thread: the graphics thread calls no more. *)
Shutdown ==
    /\ graphics = "idle" /\ stop = "no"
    /\ graphics' = "gone" /\ stop' = "stopping"
    /\ UNCHANGED <<cycleVars, poolVars, encodeVars, decoding, reaperVars>>

\* A worker leaves: its encoder closed, its references dropped where it is.
ClosedOnExit_Not(w) == UNCHANGED <<inFlight, inter>>
ClosedOnExit(w) ==
    IF w = First THEN inFlight' = <<>> /\ inter' = FALSE ELSE UNCHANGED <<inFlight, inter>>
LeaveLoop(w) ==
    /\ At(w, "idle") /\ stop = "stopping"
    /\ worker' = [worker EXCEPT ![w].pc = "gone"]
    /\ ClosedOnExit(w)
    /\ UNCHANGED <<cycleVars, graphics, poolVars, queue, closing, decoding, reap, trim, doomed,
                   stop>>
    /\ freed' = freed \cup {r \in Rings : Held(r) /\ ~Held(r)'}

\* Everybody joined. The reaper may have left before the last worker put its
\* rings in the list: they, the queue and the ring itself go on this thread.
Join ==
    /\ stop = "stopping"
    /\ \A w \in Workers : At(w, "gone")
    /\ decoding = NoRing /\ doomed = {}
    /\ stop' = "joined"
    /\ freeRaw' = freeRaw \cup {queue[i].frame : i \in DOMAIN queue}
    /\ queue' = <<>>
    /\ ring' = NoRing /\ filterRing' = NoRing
    /\ reap' = {} /\ trim' = {}
    /\ UNCHANGED <<rings, released, graphics, inHand, resizing, sized, worker, inFlight, inter,
                   closing, decoding, doomed>>
    /\ freed' = freed \cup {r \in Rings : Held(r) /\ ~Held(r)'}
-----------------------------------------------------------------------------
GraphicsStep ==
    \/ StartCycle
    \/ FinishAttach
    \/ \E disable \in BOOLEAN : EndCycle(disable)
    \/ \E f \in RawFrames : AcquireRawFrame(f)
    \/ SubmitEncode
    \/ ReleaseRawFrame
\* What a worker does on its own, whatever the encoder hands out.
WorkerStep(w) ==
    \/ TakeJob(w)
    \/ Encode(w)
    \/ Settle(w)
    \/ LeaveLoop(w)
    \/ w = First /\ HandleRelease
EncoderStep == AdoptInter \/ Receive \/ DropInFlight \/ \E w \in Workers : RequestTrim(w)
ReaperStep == TakeDoomed \/ FreeDoomed

Next ==
    \/ GraphicsStep
    \/ \E w \in Workers : WorkerStep(w)
    \/ EncoderStep
    \/ StartDecode \/ FinishDecode
    \/ ReaperStep
    \/ Shutdown \/ Join

\* A call of the graphics thread returns, worker 0 always works, a job or a
\* decode that was started ends, the reaper reaps and Shutdown joins. Packets,
\* new cycles and the second worker are not counted on.
Fairness ==
    /\ WF_vars(FinishAttach) /\ WF_vars(SubmitEncode \/ ReleaseRawFrame)
    /\ WF_vars(WorkerStep(First))
    /\ \A w \in Workers : WF_vars(Encode(w) \/ Settle(w) \/ LeaveLoop(w))
    /\ WF_vars(FinishDecode)
    /\ WF_vars(ReaperStep) /\ WF_vars(Join)

Spec == Init /\ [][Next]_vars
FairSpec == Spec /\ Fairness
-----------------------------------------------------------------------------
(* Properties. *)

\* A ring is only ever freed by the reaper, or by a thread of the teardown:
\* whoever lets go of it last, in whatever order the graphics thread ends the
\* cycle and the workers finish, never drops the last reference itself
\* (Detach, ReleaseRingsLocked, DecodeLoop).
OnlyReaperFreesRings == \A r \in Rings : Held(r) \/ r \in freed

\* Once disabled the pool keeps its frames but not their memory, also of the
\* frames that come back later (Detach's releaseCodecs).
DisabledPoolIsEmpty == released => freeRaw \cap sized = {}

\* Every raw frame is in exactly one place: the pool, the graphics thread's
\* hands, Attach's, the queue or a worker. None leaks over a cycle's end and
\* none is handed out twice (AcquireRawFrame, ReturnRawFrameLocked, Detach).
\* The state is well typed, and a disabled pool is empty.
RawFramesInOnePlace ==
    /\ TypeOK /\ DisabledPoolIsEmpty
    /\ \A f \in RawFrames :
        LET queued  == {i \in DOMAIN queue : queue[i].frame = f}
            encoded == {w \in Workers : worker[w].frame = f}
            places  == {p \in {"pool", "resizing", "hand"} :
                           \/ p = "pool" /\ f \in freeRaw
                           \/ p = "resizing" /\ f \in resizing
                           \/ p = "hand" /\ f = inHand}
        IN  Cardinality(queued) + Cardinality(encoded) + Cardinality(places) = 1

\* Disable gives the memory of every cycle back, whatever the encoder still
\* holds, without another frame or packet; and so does Shutdown, which ends and
\* leaves nothing behind.
DisableFreesRings ==
    (stop = "stopping" \/ (filterRing = NoRing /\ released))
        ~> \/ filterRing # NoRing /\ stop = "no"
           \/ (\A r \in Rings : r \in freed) /\ stop # "stopping"
=============================================================================
