------------------------ MODULE PipelineCyclesProofs ------------------------
(***************************************************************************)
(* Proofs about PipelineCycles, for every set of raw frames and of encode  *)
(* workers, any number of cycles and any latency of the encoder.           *)
(***************************************************************************)
EXTENDS PipelineCycles, FiniteSetTheorems, TLAPS

USE CyclesAssumption

\* What a worker holds between two jobs, and which steps of the graphics
\* thread have a ring attached.
Resting ==
    /\ \A w \in Workers :
          /\ worker[w].pc \in {"idle", "gone"} => worker[w].letGo = {}
          /\ worker[w].pc \in {"idle", "gone", "settle"} =>
                worker[w].ring = NoRing /\ worker[w].frame = NoFrame
          /\ worker[w].pc \in {"encoding", "sent"} => worker[w].ring # NoRing
    /\ ring = filterRing
    /\ filterRing # NoRing => ~released
    /\ graphics \in {"attaching", "filling"} \/ queue # <<>> => filterRing # NoRing
    /\ resizing # {} => graphics = "attaching"
    /\ inHand # NoFrame <=> graphics = "filling"
    /\ stop # "no" => graphics = "gone"

\* The raw frames of the workers.  Those of the queue are Unqueued.
Encoded == {worker[w].frame : w \in Workers} \ {NoFrame}

\* Every raw frame has a place, and no two places share one.
Placed ==
    /\ RawFrames \subseteq freeRaw \cup resizing \cup {inHand} \cup Unqueued \cup Encoded
    /\ \A f \in freeRaw : f \notin resizing \cup {inHand} \cup Unqueued \cup Encoded
    /\ \A f \in resizing : f \notin {inHand} \cup Unqueued \cup Encoded
    /\ inHand \notin Unqueued \cup Encoded
    /\ \A f \in Unqueued : f \notin Encoded
    /\ \A i, j \in DOMAIN queue : queue[i].frame = queue[j].frame => i = j
    /\ \A v, w \in Workers : worker[v].frame = worker[w].frame /\ worker[v].frame # NoFrame => v = w

CyclesInvariant ==
    TypeOK /\ Resting /\ Placed /\ DisabledPoolIsEmpty /\ OnlyReaperFreesRings
-----------------------------------------------------------------------------
JobType == [ring : Rings, frame : RawFrames]

\* A queue loses its first element, or gains one.
LEMMA QueueTail ==
    ASSUME NEW S, NEW q \in Seq(S), q # <<>>
    PROVE  /\ Tail(q) \in Seq(S) /\ Head(q) \in S
           /\ Head(q) = q[1] /\ 1 \in DOMAIN q
           /\ \A i \in DOMAIN Tail(q) : i + 1 \in DOMAIN q /\ Tail(q)[i] = q[i + 1]
           /\ \A i \in DOMAIN q : i # 1 => i - 1 \in DOMAIN Tail(q) /\ Tail(q)[i - 1] = q[i]
  OBVIOUS

LEMMA QueueAppend ==
    ASSUME NEW S, NEW q \in Seq(S), NEW e \in S
    PROVE  /\ Append(q, e) \in Seq(S)
           /\ Len(q) + 1 \in DOMAIN Append(q, e) /\ Append(q, e)[Len(q) + 1] = e
           /\ \A i \in DOMAIN q : i \in DOMAIN Append(q, e) /\ Append(q, e)[i] = q[i]
           /\ \A i \in DOMAIN Append(q, e) : i = Len(q) + 1 \/ i \in DOMAIN q
  OBVIOUS

\* A larger set has more sequences.
LEMMA SequencesGrow ==
    ASSUME NEW S, NEW T, S \subseteq T, NEW q \in Seq(S)
    PROVE  q \in Seq(T)
  <1>1. \A i \in 1..Len(q) : q[i] \in T
    OBVIOUS
  <1>2. QED
    BY <1>1

\* What the worker actions write is a worker again.
WorkerType == [pc : {"idle", "encoding", "sent", "settle", "gone"}, ring : 0..rings,
               frame : RawFrames \cup {NoFrame}, letGo : SUBSET Rings]

\* Worker 0 has rings of the inter encoder to let go of.
Woken(f, s) == [f EXCEPT ![First].letGo = @ \cup s,
                         ![First].pc = IF @ = "idle" THEN "settle" ELSE @]

\* Nothing else of a worker changes then.
LEMMA WokenWorker ==
    ASSUME NEW f \in [Workers -> WorkerType], NEW s \in SUBSET Rings
    PROVE  /\ Woken(f, s) \in [Workers -> WorkerType]
           /\ Woken(f, s)[First].letGo = f[First].letGo \cup s
           /\ Woken(f, s)[First].pc = IF f[First].pc = "idle" THEN "settle" ELSE f[First].pc
           /\ \A w \in Workers :
                  /\ Woken(f, s)[w].ring = f[w].ring /\ Woken(f, s)[w].frame = f[w].frame
                  /\ w # First => Woken(f, s)[w] = f[w]
  <1> DEFINE g == [f EXCEPT ![First].letGo = @ \cup s]
  <1>1. /\ g \in [Workers -> WorkerType] /\ g[First].letGo = f[First].letGo \cup s
        /\ \A w \in Workers : /\ g[w].ring = f[w].ring /\ g[w].frame = f[w].frame
                              /\ g[w].pc = f[w].pc
                              /\ w # First => g[w] = f[w]
    BY DEF WorkerType
  <1>2. PICK p \in {"idle", "encoding", "sent", "settle", "gone"} :
            p = IF g[First].pc = "idle" THEN "settle" ELSE g[First].pc
    BY <1>1 DEF WorkerType
  <1> HIDE DEF g
  <1>3. Woken(f, s) = [g EXCEPT ![First].pc = p]
    BY <1>2 DEF Woken, g
  <1>4. QED
    BY <1>1, <1>2, <1>3 DEF WorkerType

LEMMA TypePreserved == CyclesInvariant /\ Next => TypeOK'
  <1> SUFFICES ASSUME CyclesInvariant, Next PROVE TypeOK'
    OBVIOUS
  <1> USE DEF CyclesInvariant
  <1>t. TypeOK /\ Resting
    OBVIOUS
  <1>r. rings \in Nat /\ worker \in [Workers -> WorkerType] /\ queue \in Seq(JobType)
    BY <1>t DEF TypeOK, WorkerType, JobType
  <1>1. ASSUME StartCycle PROVE TypeOK'
    <2>1. queue' \in Seq([ring : Rings', frame : RawFrames])
      <3>1. JobType \subseteq JobType'
        BY <1>1, <1>r DEF StartCycle, JobType, Rings
      <3>2. queue' \in Seq(JobType')
        BY <1>1, <1>r, <3>1, SequencesGrow DEF StartCycle, encodeVars
      <3>3. QED
        BY <3>2 DEF JobType
    <2>2. worker' \in [Workers -> WorkerType']
      BY <1>1, <1>r DEF StartCycle, encodeVars, WorkerType, Rings
    <2>3. rings' \in 0..MaxRings /\ rings' = rings + 1
      BY <1>1, <1>t DEF StartCycle, TypeOK
    <2>4. inFlight' \in Seq(Rings') /\ Len(inFlight') <= Latency
      <3>1. Rings \subseteq Rings'
        BY <1>1, <1>r DEF StartCycle, Rings
      <3>2. QED
        BY <1>1, <1>t, <3>1, SequencesGrow DEF StartCycle, encodeVars, TypeOK
    <2>5. reap' \subseteq Rings' /\ trim' \subseteq Rings' /\ doomed' \subseteq Rings'
          /\ freed' \subseteq Rings'
      BY <1>1, <1>t, <2>3 DEF StartCycle, reaperVars, TypeOK, Rings
    <2>6. {ring', filterRing', decoding'} \subseteq 0..rings'
      BY <1>1, <1>t, <2>3 DEF StartCycle, TypeOK
    <2>7. QED
      BY <1>1, <1>t, <2>1, <2>2, <2>3, <2>4, <2>5, <2>6
         DEF StartCycle, encodeVars, TypeOK, WorkerType
  <1>2. ASSUME FinishAttach PROVE TypeOK'
    BY <1>2, <1>t DEF FinishAttach, cycleVars, encodeVars, reaperVars, TypeOK, Rings
  <1>3. ASSUME NEW disable \in BOOLEAN, EndCycle(disable) PROVE TypeOK'
    <2>1. HandedOver \ {NoRing} \subseteq Rings /\ Unqueued \subseteq RawFrames
      <3>1. \A i \in DOMAIN queue : queue[i] \in JobType
        BY <1>r
      <3>2. \A i \in DOMAIN queue : queue[i].ring \in Rings /\ queue[i].frame \in RawFrames
        BY <3>1 DEF JobType
      <3>3. {filterRing, ring} \ {NoRing} \subseteq Rings
        BY <1>t DEF TypeOK, Rings, NoRing
      <3>4. QED
        BY <3>2, <3>3 DEF HandedOver, Unqueued
    <2>2. queue' \in Seq([ring : Rings', frame : RawFrames])
      BY <1>3 DEF EndCycle
    <2>3. {released', inter', closing'} \subseteq BOOLEAN
      BY <1>3, <1>t, Zenon DEF EndCycle, TypeOK
    <2>4. reap' \subseteq Rings' /\ freeRaw' \subseteq RawFrames /\ sized' \subseteq RawFrames
      BY <1>3, <1>t, <2>1 DEF EndCycle, TypeOK, Rings
    <2>5. {ring', filterRing', decoding'} \subseteq 0..rings'
      BY <1>3, <1>t DEF EndCycle, TypeOK, NoRing
    <2>6. QED
      BY <1>3, <1>t, <2>2, <2>3, <2>4, <2>5 DEF EndCycle, TypeOK, Rings
  <1>4. ASSUME NEW f \in RawFrames, AcquireRawFrame(f) PROVE TypeOK'
    BY <1>4, <1>t DEF AcquireRawFrame, cycleVars, encodeVars, reaperVars, TypeOK, Rings
  <1>5. ASSUME SubmitEncode PROVE TypeOK'
    <2>1. [ring |-> filterRing, frame |-> inHand] \in JobType
      BY <1>5, <1>t DEF SubmitEncode, TypeOK, Resting, JobType, Rings, NoRing
    <2>2. queue' \in Seq(JobType)
      BY <1>5, <1>r, <2>1, QueueAppend DEF SubmitEncode
    <2>3. QED
      BY <1>5, <1>t, <2>2 DEF SubmitEncode, cycleVars, reaperVars, TypeOK, Rings, JobType
  <1>6. ASSUME ReleaseRawFrame PROVE TypeOK'
    BY <1>6, <1>t
       DEF ReleaseRawFrame, Stripped, Resting, cycleVars, encodeVars, reaperVars, TypeOK, Rings
  <1>7. ASSUME NEW w \in Workers, TakeJob(w) PROVE TypeOK'
    <2>1. Head(queue) \in JobType /\ queue' \in Seq(JobType)
      BY <1>7, <1>r, QueueTail DEF TakeJob
    <2>2. worker' \in [Workers -> WorkerType]
      BY <1>7, <1>r, <2>1 DEF TakeJob, WorkerType, JobType, Rings
    <2>3. QED
      BY <1>7, <1>t, <2>1, <2>2
         DEF TakeJob, cycleVars, poolVars, reaperVars, TypeOK, Rings, JobType, WorkerType
  <1>8. ASSUME NEW w \in Workers, Encode(w) PROVE TypeOK'
    <2>1. worker' \in [Workers -> WorkerType]
      BY <1>8, <1>r DEF Encode, WorkerType
    <2>2. CASE inFlight' = inFlight
      BY <1>8, <1>t, <2>1, <2>2
         DEF Encode, cycleVars, poolVars, reaperVars, TypeOK, Rings, WorkerType
    <2>3. CASE Len(inFlight) < Latency /\ inFlight' = Append(inFlight, worker[w].ring)
      <3>1. worker[w].ring \in Rings
        BY <1>8, <1>t, <1>r DEF Encode, At, Resting, WorkerType, Rings, NoRing
      <3>2. inFlight' \in Seq(Rings) /\ Len(inFlight') <= Latency
        BY <1>t, <2>3, <3>1 DEF TypeOK
      <3>3. QED
        BY <1>8, <1>t, <2>1, <3>2
           DEF Encode, cycleVars, poolVars, reaperVars, TypeOK, Rings, WorkerType
    <2>4. QED
      BY <1>8, <2>2, <2>3 DEF Encode
  <1>9. ASSUME AdoptInter PROVE TypeOK'
    BY <1>9, <1>t DEF AdoptInter, cycleVars, poolVars, reaperVars, TypeOK, Rings
  <1>10. ASSUME Receive PROVE TypeOK'
    <2>1. Head(inFlight) \in Rings /\ Tail(inFlight) \in Seq(Rings)
          /\ Len(Tail(inFlight)) <= Latency
      BY <1>10, <1>t DEF Receive, TypeOK
    <2>2. worker' \in [Workers -> WorkerType]
      <3>1. worker' = Woken(worker, {Head(inFlight)})
        BY <1>10 DEF Receive, Woken
      <3>2. {Head(inFlight)} \in SUBSET Rings
        BY <2>1
      <3>3. QED
        BY <1>r, <3>1, <3>2, WokenWorker
    <2>3. QED
      BY <1>10, <1>t, <2>1, <2>2
         DEF Receive, cycleVars, poolVars, reaperVars, TypeOK, Rings, WorkerType
  <1>11. ToSet(inFlight) \subseteq Rings /\ <<>> \in Seq(Rings) /\ Len(<<>>) <= Latency
    BY <1>t DEF TypeOK, ToSet
  <1>12. ASSUME DropInFlight PROVE TypeOK'
    <2>1. worker' \in [Workers -> WorkerType]
      BY <1>11, <1>12, <1>r, WokenWorker DEF DropInFlight, Woken
    <2>2. QED
      BY <1>11, <1>12, <1>t, <2>1
         DEF DropInFlight, cycleVars, poolVars, reaperVars, TypeOK, Rings, WorkerType
  <1>13. ASSUME HandleRelease PROVE TypeOK'
    <2>1. worker' \in [Workers -> WorkerType]
      BY <1>11, <1>13, <1>r DEF HandleRelease, CloseEncoder, WorkerType
    <2>2. QED
      BY <1>11, <1>13, <1>t, <2>1
         DEF HandleRelease, CloseEncoder, cycleVars, poolVars, reaperVars, TypeOK, Rings, WorkerType
  <1>14. ASSUME NEW w \in Workers, RequestTrim(w) PROVE TypeOK'
    <2>1. worker[w].ring \in Rings
      BY <1>14, <1>t, <1>r DEF RequestTrim, At, Resting, WorkerType, Rings, NoRing
    <2>2. QED
      BY <1>14, <1>t, <2>1 DEF RequestTrim, cycleVars, poolVars, encodeVars, TypeOK, Rings
  <1>15. ASSUME NEW w \in Workers, Settle(w) PROVE TypeOK'
    <2>1. ToReaper(worker[w].letGo \cup {worker[w].ring}) \subseteq Rings
          /\ BackToPool(w) \subseteq RawFrames
      BY <1>r DEF ToReaper, BackToPool, WorkerType, Rings, NoRing
    <2>2. worker' \in [Workers -> WorkerType]
      BY <1>15, <1>r, <1>t DEF Settle, Idle, WorkerType, NoRing, TypeOK
    <2>3. QED
      BY <1>15, <1>t, <2>1, <2>2
         DEF Settle, Stripped, cycleVars, TypeOK, Rings, WorkerType
  <1>16. ASSUME NEW w \in Workers, LeaveLoop(w) PROVE TypeOK'
    <2>1. worker' \in [Workers -> WorkerType]
      BY <1>16, <1>r DEF LeaveLoop, WorkerType
    <2>2. inFlight' \in Seq(Rings) /\ Len(inFlight') <= Latency /\ inter' \in BOOLEAN
      BY <1>11, <1>16, <1>t DEF LeaveLoop, ClosedOnExit, TypeOK
    <2>3. freed' \subseteq Rings
      BY <1>16, <1>t DEF LeaveLoop, TypeOK
    <2>4. QED
      BY <1>16, <1>t, <2>1, <2>2, <2>3
         DEF LeaveLoop, cycleVars, poolVars, TypeOK, Rings, WorkerType
  <1>17. ASSUME StartDecode \/ FinishDecode PROVE TypeOK'
    <2>1. CASE StartDecode
      <3>1. decoding' \in 0..rings
        BY <1>t, <2>1 DEF StartDecode, TypeOK
      <3> QED
        BY <1>t, <2>1, <3>1
           DEF StartDecode, reaperVars, cycleVars, poolVars, encodeVars, TypeOK, Rings
    <2>2. CASE FinishDecode
      <3>1. decoding' \in 0..rings
        BY <1>t, <2>2 DEF FinishDecode, NoRing, TypeOK
      <3>2. decoding \in Rings
        BY <1>t, <2>2 DEF FinishDecode, NoRing, TypeOK, Rings
      <3>3. reap' \subseteq Rings
        BY <1>t, <2>2, <3>2 DEF FinishDecode, ToReaper, TypeOK, Rings
      <3> QED
        BY <1>t, <2>2, <3>1, <3>3
           DEF FinishDecode, cycleVars, poolVars, encodeVars, TypeOK, Rings
    <2>3. QED
      BY <1>17, <2>1, <2>2
  <1>18. ASSUME ReaperStep PROVE TypeOK'
    BY <1>18, <1>t
       DEF ReaperStep, TakeDoomed, FreeDoomed, cycleVars, poolVars, encodeVars, TypeOK, Rings
  <1>19. ASSUME Shutdown PROVE TypeOK'
    BY <1>19, <1>t DEF Shutdown, cycleVars, poolVars, encodeVars, reaperVars, TypeOK, Rings
  <1>20. ASSUME Join PROVE TypeOK'
    <2>1. {queue[i].frame : i \in DOMAIN queue} \subseteq RawFrames
      <3>1. \A i \in DOMAIN queue : queue[i] \in JobType
        BY <1>r
      <3>2. QED
        BY <3>1 DEF JobType
    <2>2. queue' \in Seq([ring : Rings', frame : RawFrames])
      BY <1>20 DEF Join
    <2>3. freed' \subseteq Rings
      BY <1>20, <1>t DEF Join, TypeOK
    <2>4. {ring', filterRing', decoding'} \subseteq 0..rings'
      BY <1>20, <1>t DEF Join, TypeOK, NoRing
    <2>5. QED
      BY <1>20, <1>t, <2>1, <2>2, <2>3, <2>4 DEF Join, TypeOK, Rings
  <1>21. QED
    BY <1>1, <1>2, <1>3, <1>4, <1>5, <1>6, <1>7, <1>8, <1>9, <1>10, <1>12, <1>13, <1>14, <1>15,
       <1>16, <1>17, <1>18, <1>19, <1>20
       DEF Next, GraphicsStep, WorkerStep, EncoderStep

-----------------------------------------------------------------------------
\* One worker writes its own state; the rest of Resting is the graphics thread's.
LEMMA RestingPreserved == CyclesInvariant /\ Next => Resting'
  <1> SUFFICES ASSUME CyclesInvariant, Next PROVE Resting'
    OBVIOUS
  <1>t. TypeOK /\ Resting /\ worker \in [Workers -> WorkerType]
    BY DEF CyclesInvariant, TypeOK, WorkerType
  <1>r. rings \in Nat /\ queue \in Seq(JobType)
    BY <1>t DEF TypeOK, JobType
  <1>1. ASSUME StartCycle PROVE Resting'
    BY <1>1, <1>t, <1>r DEF StartCycle, encodeVars, Resting, NoRing
  <1>2. ASSUME FinishAttach PROVE Resting'
    BY <1>2, <1>t DEF FinishAttach, cycleVars, encodeVars, Resting, NoRing
  <1>3. ASSUME NEW disable \in BOOLEAN, EndCycle(disable) PROVE Resting'
    BY <1>3, <1>t DEF EndCycle, Resting, NoRing
  <1>4. ASSUME NEW f \in RawFrames, AcquireRawFrame(f) PROVE Resting'
    BY <1>4, <1>t DEF AcquireRawFrame, cycleVars, encodeVars, Resting, NoRing
  <1>5. ASSUME SubmitEncode PROVE Resting'
    BY <1>5, <1>t DEF SubmitEncode, cycleVars, Resting, NoRing
  <1>6. ASSUME ReleaseRawFrame PROVE Resting'
    BY <1>6, <1>t DEF ReleaseRawFrame, cycleVars, encodeVars, Resting, NoRing
  <1>7. ASSUME NEW w \in Workers, TakeJob(w) PROVE Resting'
    <2>1. Head(queue).ring \in Rings
      <3>1. Head(queue) \in JobType
        BY <1>7, <1>r, QueueTail DEF TakeJob
      <3>2. QED
        BY <3>1 DEF JobType
    <2>2. Head(queue).ring # NoRing
      BY <1>r, <2>1 DEF Rings, NoRing
    <2>3. QED
      BY <1>7, <1>t, <2>2 DEF TakeJob, cycleVars, poolVars, Resting, WorkerType
  <1>8. ASSUME NEW w \in Workers, Encode(w) PROVE Resting'
    BY <1>8, <1>t DEF Encode, At, cycleVars, poolVars, Resting, WorkerType
  <1>9. ASSUME AdoptInter PROVE Resting'
    BY <1>9, <1>t DEF AdoptInter, cycleVars, poolVars, Resting
  <1>10. ASSUME NEW s \in SUBSET Rings, worker' = Woken(worker, s),
                worker[First].pc # "gone",
                UNCHANGED <<cycleVars, graphics, poolVars, queue, stop>>
         PROVE  Resting'
    <2>1. ASSUME NEW w \in Workers
          PROVE  /\ worker'[w].pc \in {"idle", "gone"} => worker'[w].letGo = {}
                 /\ worker'[w].pc \in {"idle", "gone", "settle"} =>
                       worker'[w].ring = NoRing /\ worker'[w].frame = NoFrame
                 /\ worker'[w].pc \in {"encoding", "sent"} => worker'[w].ring # NoRing
      <3>1. CASE w = First
        BY <1>10, <1>t, <3>1, WokenWorker DEF Resting
      <3>2. CASE w # First
        BY <1>10, <1>t, <3>2, WokenWorker DEF Resting
      <3>3. QED
        BY <3>1, <3>2
    <2>2. QED
      BY <1>10, <1>t, <2>1 DEF cycleVars, poolVars, Resting
  <1>11. ASSUME Receive PROVE Resting'
    <2>1. {Head(inFlight)} \in SUBSET Rings
      BY <1>11, <1>t DEF Receive, TypeOK
    <2>2. worker' = Woken(worker, {Head(inFlight)}) /\ worker[First].pc # "gone"
      BY <1>11 DEF Receive, Woken, At
    <2>3. QED
      BY <1>10, <1>11, <2>1, <2>2 DEF Receive
  <1>12. ToSet(inFlight) \in SUBSET Rings
    BY <1>t DEF TypeOK, ToSet
  <1>13. ASSUME DropInFlight PROVE Resting'
    <2>1. worker' = Woken(worker, ToSet(inFlight)) /\ worker[First].pc # "gone"
      BY <1>13 DEF DropInFlight, Woken, At
    <2>2. QED
      BY <1>10, <1>12, <1>13, <2>1 DEF DropInFlight
  <1>14. ASSUME HandleRelease PROVE Resting'
    BY <1>14, <1>t
       DEF HandleRelease, CloseEncoder, At, cycleVars, poolVars, Resting, WorkerType
  <1>15. ASSUME NEW w \in Workers, RequestTrim(w) PROVE Resting'
    BY <1>15, <1>t DEF RequestTrim, cycleVars, poolVars, encodeVars, Resting
  <1>16. ASSUME NEW w \in Workers, Settle(w) PROVE Resting'
    BY <1>16, <1>t DEF Settle, Idle, cycleVars, Resting, WorkerType
  <1>17. ASSUME NEW w \in Workers, LeaveLoop(w) PROVE Resting'
    BY <1>17, <1>t DEF LeaveLoop, At, cycleVars, poolVars, Resting, WorkerType
  <1>18. ASSUME StartDecode \/ FinishDecode \/ ReaperStep PROVE Resting'
    BY <1>18, <1>t
       DEF StartDecode, FinishDecode, ReaperStep, TakeDoomed, FreeDoomed, cycleVars, poolVars,
           encodeVars, Resting
  <1>19. ASSUME Shutdown PROVE Resting'
    BY <1>19, <1>t DEF Shutdown, cycleVars, poolVars, encodeVars, Resting
  <1>20. ASSUME Join PROVE Resting'
    BY <1>20, <1>t DEF Join, Resting, NoRing
  <1>21. QED
    BY <1>1, <1>2, <1>3, <1>4, <1>5, <1>6, <1>7, <1>8, <1>9, <1>11, <1>13, <1>14, <1>15, <1>16,
       <1>17, <1>18, <1>19, <1>20
       DEF Next, GraphicsStep, WorkerStep, EncoderStep
-----------------------------------------------------------------------------
\* A reference is only ever handed on: to the queue, to a worker, to the
\* encoder, to the reaper. The last one is dropped by the reaper or a teardown.
LEMMA HeldPreserved == CyclesInvariant /\ Next => OnlyReaperFreesRings'
  <1> SUFFICES ASSUME CyclesInvariant, Next, NEW r \in Rings' PROVE Held(r)' \/ r \in freed'
    BY DEF OnlyReaperFreesRings
  <1>t. TypeOK /\ Resting /\ worker \in [Workers -> WorkerType]
    BY DEF CyclesInvariant, TypeOK, WorkerType
  <1>q. rings \in Nat /\ queue \in Seq(JobType) /\ inFlight \in Seq(Rings)
    BY <1>t DEF TypeOK, JobType
  <1>r. r # NoRing
    BY <1>t DEF TypeOK, Rings, NoRing
  <1>h. r \in Rings => Held(r) \/ r \in freed
    BY DEF CyclesInvariant, OnlyReaperFreesRings
  <1>1. ASSUME StartCycle PROVE Held(r)' \/ r \in freed'
    <2>1. CASE r \in Rings
      BY <1>1, <1>h, <1>r, <1>t, <2>1 DEF StartCycle, encodeVars, reaperVars, Held, Resting, NoRing
    <2>2. CASE r \notin Rings
      BY <1>1, <1>q, <2>2 DEF StartCycle, Held, Rings
    <2>3. QED
      BY <2>1, <2>2
  <1> DEFINE Graph == FinishAttach \/ (\E f \in RawFrames : AcquireRawFrame(f)) \/ ReleaseRawFrame
  <1>s. ASSUME rings' = rings, UNCHANGED <<filterRing, ring, decoding, queue, reaperVars>>,
               worker' = worker, inFlight' = inFlight
        PROVE  Held(r)' \/ r \in freed'
    BY <1>h, <1>s DEF Held, Rings, reaperVars
  <1>2. ASSUME Graph PROVE Held(r)' \/ r \in freed'
    BY <1>2, <1>s DEF FinishAttach, AcquireRawFrame, ReleaseRawFrame, cycleVars, encodeVars
  <1>3. ASSUME NEW disable \in BOOLEAN, EndCycle(disable) PROVE Held(r)' \/ r \in freed'
    BY <1>3, <1>h, <1>r DEF EndCycle, HandedOver, Held, Rings
  <1>5. ASSUME SubmitEncode PROVE Held(r)' \/ r \in freed'
    <2>1. [ring |-> filterRing, frame |-> inHand] \in JobType
      BY <1>5, <1>t DEF SubmitEncode, TypeOK, Resting, JobType, Rings, NoRing
    <2>2. \A i \in DOMAIN queue : i \in DOMAIN queue' /\ queue'[i] = queue[i]
      BY <1>5, <1>q, <2>1, QueueAppend DEF SubmitEncode
    <2>3. QED
      BY <1>5, <1>h, <2>2 DEF SubmitEncode, cycleVars, reaperVars, Held, Rings
  <1>7. ASSUME NEW w \in Workers, TakeJob(w) PROVE Held(r)' \/ r \in freed'
    <2>1. /\ Head(queue) = queue[1]
          /\ \A i \in DOMAIN queue : i # 1 => i - 1 \in DOMAIN queue' /\ queue'[i - 1] = queue[i]
      BY <1>7, <1>q, QueueTail DEF TakeJob
    <2>2. worker'[w].ring = queue[1].ring
      BY <1>7, <1>t, <2>1 DEF TakeJob
    <2>3. \A v \in Workers : r = worker[v].ring \/ r \in worker[v].letGo =>
                                r = worker'[v].ring \/ r \in worker'[v].letGo
      BY <1>7, <1>r, <1>t DEF TakeJob, At, Resting
    <2>4. CASE \E i \in DOMAIN queue : queue[i].ring = r
      BY <2>1, <2>2, <2>4 DEF Held
    <2>5. CASE ~ \E i \in DOMAIN queue : queue[i].ring = r
      BY <1>7, <1>h, <2>3, <2>5 DEF TakeJob, cycleVars, reaperVars, Held, Rings
    <2>6. QED
      BY <2>4, <2>5
  <1>8. ASSUME NEW w \in Workers, Encode(w) PROVE Held(r)' \/ r \in freed'
    <2>1. \A v \in Workers : worker'[v].ring = worker[v].ring /\ worker'[v].letGo = worker[v].letGo
      BY <1>8, <1>t DEF Encode, WorkerType
    <2>2. \A x : x \in ToSet(inFlight) => x \in ToSet(inFlight')
      <3>1. CASE inFlight' = inFlight
        BY <3>1
      <3>2. CASE inFlight' = Append(inFlight, worker[w].ring)
        BY <1>q, <3>2 DEF ToSet
      <3>3. QED
        BY <1>8, <3>1, <3>2 DEF Encode
    <2>3. QED
      BY <1>8, <1>h, <2>1, <2>2 DEF Encode, cycleVars, reaperVars, Held, Rings
  <1>9. ASSUME AdoptInter PROVE Held(r)' \/ r \in freed'
    BY <1>9, <1>s DEF AdoptInter, cycleVars
  <1>10. ASSUME NEW s \in SUBSET Rings, worker' = Woken(worker, s),
                ToSet(inFlight) \subseteq ToSet(inFlight') \cup s,
                UNCHANGED <<cycleVars, queue, decoding, reaperVars>>
         PROVE  Held(r)' \/ r \in freed'
    <2>1. First \in Workers /\ s \subseteq worker'[First].letGo
      BY <1>10, <1>t, WokenWorker
    <2>2. \A v \in Workers : /\ worker'[v].ring = worker[v].ring
                            /\ worker[v].letGo \subseteq worker'[v].letGo
      BY <1>10, <1>t, WokenWorker
    <2>3. QED
      BY <1>10, <1>h, <2>1, <2>2 DEF cycleVars, reaperVars, Held, Rings
  <1>11. ASSUME Receive PROVE Held(r)' \/ r \in freed'
    <2>1. {Head(inFlight)} \in SUBSET Rings /\ ToSet(inFlight) \subseteq ToSet(inFlight') \cup {Head(inFlight)}
      <3>1. /\ Head(inFlight) \in Rings
            /\ \A i \in DOMAIN inFlight :
                   i # 1 => i - 1 \in DOMAIN inFlight' /\ inFlight'[i - 1] = inFlight[i]
            /\ Head(inFlight) = inFlight[1]
        BY <1>11, <1>q, QueueTail DEF Receive
      <3>2. \A i \in DOMAIN inFlight : inFlight[i] \in ToSet(inFlight') \cup {Head(inFlight)}
        BY <3>1 DEF ToSet
      <3>3. QED
        BY <3>1, <3>2 DEF ToSet
    <2>2. worker' = Woken(worker, {Head(inFlight)})
      BY <1>11 DEF Receive, Woken
    <2>3. QED
      BY <1>10, <1>11, <2>1, <2>2 DEF Receive
  <1>12. ToSet(inFlight) \in SUBSET Rings
    BY <1>q DEF ToSet
  <1>13. ASSUME DropInFlight PROVE Held(r)' \/ r \in freed'
    BY <1>10, <1>12, <1>13 DEF DropInFlight, Woken
  <1>14. ASSUME HandleRelease PROVE Held(r)' \/ r \in freed'
    <2>1. /\ ToSet(inFlight) \subseteq worker'[First].letGo
          /\ \A v \in Workers : /\ worker'[v].ring = worker[v].ring
                               /\ worker[v].letGo \subseteq worker'[v].letGo
      BY <1>14, <1>t DEF HandleRelease, CloseEncoder, At, Resting, WorkerType
    <2>2. QED
      BY <1>14, <1>h, <2>1
         DEF HandleRelease, CloseEncoder, cycleVars, reaperVars, Held, Rings
  <1>15. ASSUME NEW w \in Workers, RequestTrim(w) PROVE Held(r)' \/ r \in freed'
    BY <1>15, <1>h DEF RequestTrim, cycleVars, encodeVars, Held, Rings
  <1>16. ASSUME NEW w \in Workers, Settle(w) PROVE Held(r)' \/ r \in freed'
    <2>1. \A v \in Workers \ {w} : worker'[v] = worker[v]
      BY <1>16, <1>t DEF Settle
    <2>2. r = worker[w].ring \/ r \in worker[w].letGo => r = ring' \/ r \in reap'
      BY <1>16, <1>r DEF Settle, ToReaper, cycleVars
    <2>3. QED
      BY <1>16, <1>h, <2>1, <2>2 DEF Settle, cycleVars, Held, Rings
  <1>17. ASSUME NEW w \in Workers, LeaveLoop(w) PROVE Held(r)' \/ r \in freed'
    BY <1>17, <1>h DEF LeaveLoop, cycleVars, Rings
  <1>18. ASSUME StartDecode \/ FinishDecode PROVE Held(r)' \/ r \in freed'
    BY <1>18, <1>h, <1>r
       DEF StartDecode, FinishDecode, ToReaper, cycleVars, encodeVars, reaperVars, Held, Rings
  <1>19. ASSUME TakeDoomed PROVE Held(r)' \/ r \in freed'
    BY <1>19, <1>h DEF TakeDoomed, cycleVars, encodeVars, Held, Rings
  <1>20. ASSUME FreeDoomed PROVE Held(r)' \/ r \in freed'
    <2>1. CASE r \in doomed
      BY <1>20, <2>1 DEF FreeDoomed
    <2>2. CASE r \notin doomed
      BY <1>20, <1>h, <2>2 DEF FreeDoomed, cycleVars, encodeVars, Held, Rings
    <2>3. QED
      BY <2>1, <2>2
  <1>21. ASSUME Shutdown PROVE Held(r)' \/ r \in freed'
    BY <1>21, <1>s DEF Shutdown, cycleVars, encodeVars
  <1>22. ASSUME Join PROVE Held(r)' \/ r \in freed'
    BY <1>22, <1>h DEF Join, Rings
  <1>23. QED
    BY <1>1, <1>2, <1>3, <1>5, <1>7, <1>8, <1>9, <1>11, <1>13, <1>14, <1>15, <1>16, <1>17, <1>18,
       <1>19, <1>20, <1>21, <1>22
       DEF Next, GraphicsStep, WorkerStep, EncoderStep, ReaperStep
-----------------------------------------------------------------------------
\* A disabled pipeline has no ring, so no frame of its pool gets storage again.
LEMMA DisabledPreserved == CyclesInvariant /\ Next => DisabledPoolIsEmpty'
  <1> SUFFICES ASSUME CyclesInvariant, Next PROVE released' => freeRaw' \cap sized' = {}
    BY DEF DisabledPoolIsEmpty
  <1>t. TypeOK /\ Resting /\ (released => freeRaw \cap sized = {})
    BY DEF CyclesInvariant, DisabledPoolIsEmpty
  <1>1. ASSUME GraphicsStep PROVE released' => freeRaw' \cap sized' = {}
    BY <1>1, <1>t
       DEF GraphicsStep, StartCycle, FinishAttach, EndCycle, AcquireRawFrame, SubmitEncode,
           ReleaseRawFrame, Stripped, cycleVars, Resting
  <1>2. ASSUME NEW w \in Workers, Settle(w) PROVE released' => freeRaw' \cap sized' = {}
    BY <1>2, <1>t DEF Settle, Stripped, BackToPool, cycleVars
  <1>3. ASSUME NEW w \in Workers, WorkerStep(w), ~Settle(w)
        PROVE  released' => freeRaw' \cap sized' = {}
    BY <1>3, <1>t DEF WorkerStep, TakeJob, Encode, LeaveLoop, HandleRelease, cycleVars, poolVars
  <1>4. ASSUME EncoderStep PROVE released' => freeRaw' \cap sized' = {}
    BY <1>4, <1>t DEF EncoderStep, AdoptInter, Receive, DropInFlight, RequestTrim, cycleVars, poolVars
  <1>5. ASSUME Join PROVE released' => freeRaw' \cap sized' = {}
    <2>1. released => {queue[i].frame : i \in DOMAIN queue} = {}
      BY <1>t DEF Resting
    <2>2. QED
      BY <1>5, <1>t, <2>1 DEF Join
  <1>6. ASSUME StartDecode \/ FinishDecode \/ ReaperStep \/ Shutdown
        PROVE  released' => freeRaw' \cap sized' = {}
    BY <1>6, <1>t
       DEF StartDecode, FinishDecode, ReaperStep, TakeDoomed, FreeDoomed, Shutdown, cycleVars, poolVars
  <1>7. QED
    BY <1>1, <1>2, <1>3, <1>4, <1>5, <1>6 DEF Next

\* A frame moves from one place to the next; no step copies or forgets one.
LEMMA PlacedPreserved == CyclesInvariant /\ Next => Placed'
  <1> SUFFICES ASSUME CyclesInvariant, Next PROVE Placed'
    OBVIOUS
  <1>t. TypeOK /\ Resting /\ Placed /\ worker \in [Workers -> WorkerType] /\ queue \in Seq(JobType)
    BY DEF CyclesInvariant, TypeOK, WorkerType, JobType
  <1>p. freeRaw \subseteq RawFrames /\ resizing \subseteq RawFrames /\ inHand \in RawFrames \cup {NoFrame}
    BY <1>t DEF TypeOK
  <1>u. Unqueued \subseteq RawFrames
    <2>1. \A i \in DOMAIN queue : queue[i] \in JobType
      BY <1>t
    <2>2. QED
      BY <2>1 DEF Unqueued, JobType
  <1>e. Encoded \subseteq RawFrames
    BY <1>t DEF Encoded, WorkerType
  <1>s. ASSUME UNCHANGED <<freeRaw, resizing, inHand, queue>>,
               \A w \in Workers : worker'[w].frame = worker[w].frame
        PROVE  Placed'
    <2>1. Encoded' = Encoded /\ Unqueued' = Unqueued
      BY <1>s DEF Encoded, Unqueued
    <2>2. QED
      BY <1>s, <1>t, <2>1 DEF Placed
  \* The pool, Attach and the graphics thread exchange frames.
  <1>g. ASSUME UNCHANGED <<queue, worker>>, NoFrame \notin freeRaw' \cup resizing',
               freeRaw' \cup resizing' \cup ({inHand'} \ {NoFrame}) = freeRaw \cup resizing \cup ({inHand} \ {NoFrame}),
               freeRaw' \cap resizing' = {}, inHand' \notin freeRaw' \cup resizing'
        PROVE  Placed'
    <2>1. Encoded' = Encoded /\ Unqueued' = Unqueued
      BY <1>g DEF Encoded, Unqueued
    <2>2. QED
      BY <1>g, <1>t, <1>u, <1>e, <2>1 DEF Placed
  <1>1. ASSUME StartCycle PROVE Placed'
    BY <1>1, <1>g, <1>p, <1>t DEF StartCycle, encodeVars, Resting
  <1>2. ASSUME FinishAttach PROVE Placed'
    BY <1>2, <1>g, <1>p, <1>t DEF FinishAttach, encodeVars, Resting
  <1>4. ASSUME NEW f \in RawFrames, AcquireRawFrame(f) PROVE Placed'
    BY <1>4, <1>g, <1>p, <1>t DEF AcquireRawFrame, encodeVars, Resting, Placed
  <1>6. ASSUME ReleaseRawFrame PROVE Placed'
    BY <1>6, <1>g, <1>p, <1>t DEF ReleaseRawFrame, encodeVars, Resting, Placed
  \* The whole queue goes back to the pool.
  <1>d. ASSUME freeRaw' = freeRaw \cup Unqueued, queue' = <<>>, UNCHANGED <<resizing, inHand, worker>>
        PROVE  Placed'
    <2>1. Encoded' = Encoded /\ Unqueued' = {}
      BY <1>d DEF Encoded, Unqueued
    <2>2. QED
      BY <1>d, <1>t, <2>1 DEF Placed
  <1>3. ASSUME NEW disable \in BOOLEAN, EndCycle(disable) PROVE Placed'
    BY <1>3, <1>d DEF EndCycle
  <1>20. ASSUME Join PROVE Placed'
    BY <1>20, <1>d DEF Join, Unqueued
  <1>5. ASSUME SubmitEncode PROVE Placed'
    <2>1. [ring |-> filterRing, frame |-> inHand] \in JobType /\ inHand \in RawFrames
      BY <1>5, <1>t DEF SubmitEncode, TypeOK, Resting, JobType, Rings, NoRing
    <2>2. /\ Len(queue) + 1 \in DOMAIN queue' /\ queue'[Len(queue) + 1].frame = inHand
          /\ \A i \in DOMAIN queue : i \in DOMAIN queue' /\ queue'[i] = queue[i]
          /\ \A i \in DOMAIN queue' : i = Len(queue) + 1 \/ i \in DOMAIN queue
      BY <1>5, <1>t, <2>1, QueueAppend DEF SubmitEncode
    <2>3. Unqueued' = Unqueued \cup {inHand} /\ Encoded' = Encoded
      BY <1>5, <2>2 DEF Unqueued, Encoded, SubmitEncode
    <2>4. \A i, j \in DOMAIN queue' : queue'[i].frame = queue'[j].frame => i = j
      BY <1>t, <2>2 DEF Placed, Unqueued
    <2>5. UNCHANGED <<freeRaw, resizing, worker>> /\ inHand' = NoFrame
      BY <1>5 DEF SubmitEncode
    <2>6. inHand' \notin freeRaw' \cup resizing' \cup Unqueued' \cup Encoded'
      BY <1>p, <1>u, <1>e, <2>1, <2>3, <2>5
    <2>7. /\ inHand \notin freeRaw \cup resizing \cup Unqueued \cup Encoded
          /\ \A f \in Unqueued' : f \notin Encoded'
      BY <1>t, <2>3 DEF Placed
    <2>8. QED
      BY <1>t, <2>3, <2>4, <2>5, <2>6, <2>7 DEF Placed
  <1>7. ASSUME NEW w \in Workers, TakeJob(w) PROVE Placed'
    <2> DEFINE h == queue[1].frame
    <2>1. /\ Head(queue) = queue[1] /\ 1 \in DOMAIN queue /\ queue[1] \in JobType
          /\ \A i \in DOMAIN queue' : i + 1 \in DOMAIN queue /\ queue'[i] = queue[i + 1]
          /\ \A i \in DOMAIN queue : i # 1 => i - 1 \in DOMAIN queue' /\ queue'[i - 1] = queue[i]
          /\ \A i \in DOMAIN queue' : i \in Nat /\ i >= 1
      BY <1>7, <1>t, QueueTail DEF TakeJob
    <2>2. h \in RawFrames /\ h \in Unqueued
      BY <2>1 DEF JobType, Unqueued
    <2>3. Unqueued' = Unqueued \ {h}
      <3>1. ASSUME NEW i \in DOMAIN queue' PROVE queue'[i].frame \in Unqueued \ {h}
        <4>1. i + 1 \in DOMAIN queue /\ i + 1 # 1 /\ queue'[i] = queue[i + 1]
          BY <2>1
        <4>2. QED
          BY <1>t, <2>1, <4>1 DEF Placed, Unqueued
      <3>2. ASSUME NEW i \in DOMAIN queue, queue[i].frame # h PROVE queue[i].frame \in Unqueued'
        BY <2>1, <3>2 DEF Unqueued
      <3>3. QED
        BY <3>1, <3>2 DEF Unqueued
    <2>4. worker[w].frame = NoFrame /\ worker'[w].frame = h
          /\ \A v \in Workers \ {w} : worker'[v] = worker[v]
      BY <1>7, <1>t, <2>1 DEF TakeJob, At, Resting
    <2>5. Encoded' = Encoded \cup {h}
      BY <2>2, <2>4 DEF Encoded
    <2>6. \A i, j \in DOMAIN queue' : queue'[i].frame = queue'[j].frame => i = j
      BY <1>t, <2>1 DEF Placed
    <2>7. \A u, v \in Workers : worker'[u].frame = worker'[v].frame /\ worker'[u].frame # NoFrame => u = v
      BY <1>t, <2>2, <2>4 DEF Placed, Encoded
    <2> HIDE DEF h
    <2>8. QED
      BY <1>7, <1>t, <2>2, <2>3, <2>5, <2>6, <2>7 DEF TakeJob, poolVars, Placed
  <1>8. ASSUME NEW w \in Workers, Encode(w) PROVE Placed'
    BY <1>8, <1>s, <1>t DEF Encode, poolVars, WorkerType
  <1>9. ASSUME AdoptInter PROVE Placed'
    BY <1>9, <1>s DEF AdoptInter, poolVars
  <1>11. ASSUME Receive PROVE Placed'
    <2>1. {Head(inFlight)} \in SUBSET Rings
      BY <1>11, <1>t DEF Receive, TypeOK
    <2>2. worker' = Woken(worker, {Head(inFlight)})
      BY <1>11 DEF Receive, Woken
    <2>3. QED
      BY <1>11, <1>s, <1>t, <2>1, <2>2, WokenWorker DEF Receive, poolVars
  <1>12. ToSet(inFlight) \in SUBSET Rings
    BY <1>t DEF TypeOK, ToSet
  <1>13. ASSUME DropInFlight PROVE Placed'
    <2>1. worker' = Woken(worker, ToSet(inFlight))
      BY <1>13 DEF DropInFlight, Woken
    <2>2. QED
      BY <1>12, <1>13, <1>s, <1>t, <2>1, WokenWorker DEF DropInFlight, poolVars
  <1>14. ASSUME HandleRelease PROVE Placed'
    BY <1>14, <1>s, <1>t DEF HandleRelease, CloseEncoder, poolVars, WorkerType
  <1>15. ASSUME NEW w \in Workers, RequestTrim(w) PROVE Placed'
    BY <1>15, <1>s DEF RequestTrim, poolVars, encodeVars
  <1>16. ASSUME NEW w \in Workers, Settle(w) PROVE Placed'
    <2>1. worker'[w].frame = NoFrame /\ \A v \in Workers \ {w} : worker'[v] = worker[v]
      BY <1>16, <1>t DEF Settle, Idle
    <2>2. Encoded' = Encoded \ {worker[w].frame}
      BY <1>t, <2>1 DEF Encoded, Placed
    <2>3. freeRaw' = freeRaw \cup ({worker[w].frame} \ {NoFrame}) /\ Unqueued' = Unqueued
      BY <1>16 DEF Settle, BackToPool, Unqueued
    <2>4. worker[w].frame \in Encoded \cup {NoFrame}
      BY DEF Encoded
    <2>5. \A u, v \in Workers : worker'[u].frame = worker'[v].frame /\ worker'[u].frame # NoFrame => u = v
      BY <1>t, <2>1 DEF Placed
    <2>6. QED
      BY <1>16, <1>t, <1>p, <2>2, <2>3, <2>4, <2>5 DEF Settle, Placed
  <1>17. ASSUME NEW w \in Workers, LeaveLoop(w) PROVE Placed'
    BY <1>17, <1>s, <1>t DEF LeaveLoop, poolVars, WorkerType
  <1>18. ASSUME StartDecode \/ FinishDecode \/ ReaperStep \/ Shutdown PROVE Placed'
    BY <1>18, <1>s
       DEF StartDecode, FinishDecode, ReaperStep, TakeDoomed, FreeDoomed, Shutdown, poolVars, encodeVars
  <1>21. QED
    BY <1>1, <1>2, <1>3, <1>4, <1>5, <1>6, <1>7, <1>8, <1>9, <1>11, <1>13, <1>14, <1>15, <1>16,
       <1>17, <1>18, <1>20
       DEF Next, GraphicsStep, WorkerStep, EncoderStep
-----------------------------------------------------------------------------
LEMMA InvariantInitially == Init => CyclesInvariant
  <1> SUFFICES ASSUME Init PROVE CyclesInvariant
    OBVIOUS
  <1>1. TypeOK
    <2>1. <<>> \in Seq([ring : Rings, frame : RawFrames]) /\ <<>> \in Seq(Rings) /\ Len(<<>>) <= Latency
      OBVIOUS
    <2>2. Idle \in [pc : {"idle", "encoding", "sent", "settle", "gone"}, ring : 0..0,
                    frame : RawFrames \cup {NoFrame}, letGo : SUBSET Rings]
      BY DEF Idle, NoRing
    <2>3. rings \in 0..MaxRings /\ {ring, filterRing, decoding} \subseteq 0..rings
      BY DEF Init, NoRing
    <2>4. QED
      BY <2>1, <2>2, <2>3 DEF Init, TypeOK
  <1>2. Resting /\ DisabledPoolIsEmpty
    BY DEF Init, Resting, DisabledPoolIsEmpty, Idle, NoRing
  <1>3. Placed
    <2>1. Unqueued = {} /\ Encoded = {}
      BY DEF Init, Unqueued, Encoded, Idle
    <2>2. QED
      BY <2>1 DEF Init, Placed, Idle
  <1>4. OnlyReaperFreesRings
    BY DEF Init, OnlyReaperFreesRings, Rings
  <1>5. QED
    BY <1>1, <1>2, <1>3, <1>4 DEF CyclesInvariant

LEMMA InvariantPreserved == CyclesInvariant /\ [Next]_vars => CyclesInvariant'
  <1> SUFFICES ASSUME CyclesInvariant, [Next]_vars PROVE CyclesInvariant'
    OBVIOUS
  <1>1. CASE Next
    BY <1>1, TypePreserved, RestingPreserved, PlacedPreserved, DisabledPreserved, HeldPreserved
       DEF CyclesInvariant
  <1>2. CASE UNCHANGED vars
    <2>1. UNCHANGED <<ring, filterRing, rings, released, graphics, inHand, resizing, freeRaw, sized,
                      queue, worker, inFlight, inter, closing, decoding, reap, trim, doomed, freed, stop>>
      BY <1>2 DEF vars, cycleVars, poolVars, encodeVars, reaperVars
    <2>2. TypeOK' /\ Resting' /\ DisabledPoolIsEmpty'
      BY <2>1 DEF CyclesInvariant, TypeOK, Resting, DisabledPoolIsEmpty, Rings
    <2>3. Placed'
      BY <2>1 DEF CyclesInvariant, Placed, Unqueued, Encoded
    <2>4. OnlyReaperFreesRings'
      BY <2>1 DEF CyclesInvariant, OnlyReaperFreesRings, Rings, Held
    <2>5. QED
      BY <2>2, <2>3, <2>4 DEF CyclesInvariant
  <1>3. QED
    BY <1>1, <1>2

\* The invariant of the pipeline's cycles: who holds which ring and which frame.
THEOREM CyclesHold == Spec => []CyclesInvariant
  <1>1. QED
    BY InvariantInitially, InvariantPreserved, PTL DEF Spec

\* No ring is freed but by the reaper or a thread of the teardown, whatever the
\* number of cycles, workers and frames in flight (Detach, ReleaseRingsLocked).
THEOREM ReaperTheorem == Spec => []OnlyReaperFreesRings
  <1>1. CyclesInvariant => OnlyReaperFreesRings
    BY DEF CyclesInvariant
  <1>2. QED
    BY <1>1, CyclesHold, PTL

\* One and none are counted right.
LEMMA CountOfOne ==
    ASSUME NEW S, NEW e, e \in S, \A x \in S : x = e
    PROVE  Cardinality(S) = 1
  <1>1. S = {e}
    OBVIOUS
  <1>2. QED
    BY <1>1, FS_Singleton

\* A frame that has a place, and only one, is counted once.
LEMMA PlacedOnce == CyclesInvariant => RawFramesInOnePlace
  <1> SUFFICES ASSUME CyclesInvariant, NEW f \in RawFrames
               PROVE  LET queued  == {i \in DOMAIN queue : queue[i].frame = f}
                          encoded == {w \in Workers : worker[w].frame = f}
                          places  == {p \in {"pool", "resizing", "hand"} :
                                         \/ p = "pool" /\ f \in freeRaw
                                         \/ p = "resizing" /\ f \in resizing
                                         \/ p = "hand" /\ f = inHand}
                      IN  Cardinality(queued) + Cardinality(encoded) + Cardinality(places) = 1
    BY DEF CyclesInvariant, RawFramesInOnePlace
  <1> DEFINE queued  == {i \in DOMAIN queue : queue[i].frame = f}
             encoded == {w \in Workers : worker[w].frame = f}
             places  == {p \in {"pool", "resizing", "hand"} :
                            \/ p = "pool" /\ f \in freeRaw
                            \/ p = "resizing" /\ f \in resizing
                            \/ p = "hand" /\ f = inHand}
  <1>s. SUFFICES Cardinality(queued) + Cardinality(encoded) + Cardinality(places) = 1
    OBVIOUS
  <1>t. Placed /\ f # NoFrame
    BY DEF CyclesInvariant
  <1>0. Cardinality({}) = 0
    BY FS_EmptySet
  <1>1. f \in Unqueued <=> queued # {}
    BY DEF Unqueued
  <1>2. f \in Encoded <=> encoded # {}
    BY <1>t DEF Encoded
  <1>3. f \in freeRaw \cup resizing \cup {inHand} <=> places # {}
    OBVIOUS
  <1>4. CASE f \in Unqueued
    <2>1. encoded = {} /\ places = {}
      BY <1>2, <1>3, <1>4, <1>t DEF Placed
    <2>2. Cardinality(queued) = 1
      <3>1. PICK i : i \in queued
        BY <1>1, <1>4
      <3>2. \A j \in queued : j = i
        BY <1>t, <3>1 DEF Placed
      <3> HIDE DEF queued
      <3>3. QED
        BY <3>1, <3>2, CountOfOne
    <2> HIDE DEF queued, encoded, places
    <2>3. QED
      BY <1>0, <2>1, <2>2
  <1>5. CASE f \in Encoded
    <2>1. queued = {} /\ places = {}
      BY <1>1, <1>3, <1>5, <1>t DEF Placed
    <2>2. Cardinality(encoded) = 1
      <3>1. PICK w : w \in encoded
        BY <1>2, <1>5
      <3>2. \A v \in encoded : v = w
        BY <1>t, <3>1 DEF Placed
      <3> HIDE DEF encoded
      <3>3. QED
        BY <3>1, <3>2, CountOfOne
    <2> HIDE DEF queued, encoded, places
    <2>3. QED
      BY <1>0, <2>1, <2>2
  <1>6. CASE f \in freeRaw \cup resizing \cup {inHand}
    <2>1. queued = {} /\ encoded = {}
      BY <1>1, <1>2, <1>6, <1>t DEF Placed
    <2>2. Cardinality(places) = 1
      <3>1. PICK p : p \in places
        BY <1>3, <1>6
      <3>2. \A q \in places : q = p
        BY <1>t, <3>1 DEF Placed
      <3> HIDE DEF places
      <3>3. QED
        BY <3>1, <3>2, CountOfOne
    <2> HIDE DEF queued, encoded, places
    <2>3. QED
      BY <1>0, <2>1, <2>2
  <1>7. QED
    BY <1>4, <1>5, <1>6, <1>t DEF Placed

\* No raw frame leaks over the end of a cycle and none is handed out twice, for
\* any pool and any workers (AcquireRawFrame, ReturnRawFrameLocked, Detach).
THEOREM RawFramesTheorem == Spec => []RawFramesInOnePlace
  <1>1. QED
    BY PlacedOnce, CyclesHold, PTL
=============================================================================
