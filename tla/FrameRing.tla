------------------------------ MODULE FrameRing ------------------------------
(***************************************************************************)
(* The delay buffer (frame-ring.cpp): a fixed ring of slots, written by    *)
(* the graphics thread, filled by the encode workers and read by the       *)
(* decode worker and by the synchronous path.                              *)
(*                                                                         *)
(* A FrameRing method runs under the ring's mutex, so it is one action.    *)
(* What the callers do outside the mutex is a step of its own: Reserve     *)
(* frees the overwritten payload after unlocking, and an encoder allocates *)
(* before Publish and frees when Publish refuses the payload.              *)
(*                                                                         *)
(* A payload is its arena allocation; what its bytes are (codec, key,      *)
(* chain, seq) is EncodeChain's subject.                                   *)
(***************************************************************************)
EXTENDS RingSelect

CONSTANTS SlotCount,       \* headers_.size()
          Encoders,        \* encode workers
          Readers,         \* threads that can hold a view
          Allocations,     \* arena blocks' pieces
          NoAllocation,    \* an Allocation whose data is null
          NoView,
          MaxCaptures,     \* bound: captures taken
          MaxTime,         \* bound: clock
          MaxBack,         \* slots the display looks back over (8 in the code)
          LateNs           \* how far behind the target a reader jumps

Slots == 0..SlotCount - 1
Times == 0..MaxTime
MaybeAllocation == Allocations \cup {NoAllocation}
View == [index : Slots, generation : Nat, captureNs : Nat, alloc : MaybeAllocation]

ASSUME RingAssumption ==
    /\ SlotCount \in Nat \ {0}
    /\ MaxCaptures \in Nat /\ MaxTime \in Nat /\ MaxBack \in Nat /\ LateNs \in Nat
    /\ NoAllocation \notin Allocations
    /\ NoView \notin View
    /\ IsFiniteSet(Readers)

VARIABLES headers,         \* headers_
          writeIndex,      \* writeIndex_
          buffered,        \* buffered_
          lastCaptureNs,   \* lastCaptureNs_
          nextGeneration,  \* g_nextGeneration
          live,            \* arena allocations in use
          freeing,         \* Reserve's local `previous`, unlocked and not freed yet
          reserved,        \* reservations no encoder has begun
          encoder,         \* what each encode worker holds
          view             \* what each reader has pinned

ringVars == <<headers, writeIndex, buffered, lastCaptureNs, nextGeneration>>
vars == <<ringVars, live, freeing, reserved, encoder, view>>

IdleEncoder == [pc |-> "idle", index |-> 0, generation |-> 0, alloc |-> NoAllocation]

Reservation == [index : Slots, generation : Nat]
Header == [state : SlotState, captureNs : Nat, generation : Nat,
           pins : Nat, alloc : MaybeAllocation]
Encoder == [pc : {"idle", "encoding", "publishing"},
            index : Slots, generation : Nat, alloc : MaybeAllocation]

TypeOK ==
    /\ headers \in [Slots -> Header]
    /\ writeIndex \in Slots
    /\ buffered \in 0..SlotCount
    /\ lastCaptureNs \in Nat
    /\ nextGeneration \in Nat \ {0}
    /\ live \subseteq Allocations
    /\ freeing \in MaybeAllocation
    /\ reserved \subseteq Reservation
    /\ encoder \in [Encoders -> Encoder]
    /\ view \in [Readers -> View \cup {NoView}]

Init ==
    /\ headers = [i \in Slots |-> [state |-> "Free", captureNs |-> 0, generation |-> 0,
                                   pins |-> 0, alloc |-> NoAllocation]]
    /\ writeIndex = 0
    /\ buffered = 0
    /\ lastCaptureNs = 0
    /\ nextGeneration = 1
    /\ live = {}
    /\ freeing = NoAllocation
    /\ reserved = {}
    /\ encoder = [e \in Encoders |-> IdleEncoder]
    /\ view = [r \in Readers |-> NoView]
-----------------------------------------------------------------------------
(* Names with an underscore are the bugs the runs must notice: each takes the *)
(* place of the definition after it, and no property holds with it.           *)

(* The ring in logical order. *)
Oldest == (writeIndex + SlotCount - buffered) % SlotCount
IndexAt(p) == (Oldest + p - 1) % SlotCount
Window == [p \in 1..buffered |-> headers[IndexAt(p)]]

(* The ring's methods, each under its mutex. *)
SlotBusy_IgnoresPins(slot) == slot.state \in Undecided
SlotBusy_IgnoresUndecided(slot) == slot.pins > 0
SlotBusy(slot) == slot.state \in Undecided \/ slot.pins > 0
Later_NoClamp(a, b) == a
Later(a, b) == IF a > b THEN a ELSE b
Staged(slot, state, alloc) ==
    [state |-> state, captureNs |-> slot.captureNs, generation |-> slot.generation,
     pins |-> slot.pins, alloc |-> alloc]
Pinned(slot, pins) ==
    [state |-> slot.state, captureNs |-> slot.captureNs, generation |-> slot.generation,
     pins |-> pins, alloc |-> slot.alloc]

NextSlot_NoWrap(i) == i + 1
NextSlot(i) == (i + 1) % SlotCount

\* False leaves everything as it was: the capture is lost, nothing to model.
Reserve(captureNs) ==
    LET captured == Later(captureNs, lastCaptureNs)
    IN  /\ freeing = NoAllocation
        /\ nextGeneration <= MaxCaptures
        /\ ~SlotBusy(headers[writeIndex])
        /\ freeing' = headers[writeIndex].alloc
        /\ headers' = [headers EXCEPT ![writeIndex] =
                          [state |-> "Reserved", captureNs |-> captured,
                           generation |-> nextGeneration, pins |-> 0, alloc |-> NoAllocation]]
        /\ reserved' = reserved \cup {[index |-> writeIndex, generation |-> nextGeneration]}
        /\ lastCaptureNs' = captured
        /\ nextGeneration' = nextGeneration + 1
        /\ writeIndex' = NextSlot(writeIndex)
        /\ buffered' = IF buffered < SlotCount THEN buffered + 1 ELSE buffered
        /\ UNCHANGED <<live, encoder, view>>

MarkedDropped(index, generation) ==
    IF headers[index].generation = generation /\ headers[index].state \in Undecided
    THEN [headers EXCEPT ![index] = Staged(headers[index], "Dropped", headers[index].alloc)]
    ELSE headers

CanEncode(r) ==
    headers[r.index].generation = r.generation /\ headers[r.index].state = "Reserved"

CanPublish(e) ==
    /\ headers[encoder[e].index].generation = encoder[e].generation
    /\ headers[encoder[e].index].state = "Encoding"

UnchangedIndices == UNCHANGED <<writeIndex, buffered, lastCaptureNs, nextGeneration>>

(* The graphics thread, outside the ring's mutex. *)
FreePrevious_Forgets ==
    /\ freeing # NoAllocation
    /\ freeing' = NoAllocation
    /\ UNCHANGED <<ringVars, live, reserved, encoder, view>>
FreePrevious ==
    /\ freeing # NoAllocation
    /\ live' = live \ {freeing}
    /\ freeing' = NoAllocation
    /\ UNCHANGED <<ringVars, reserved, encoder, view>>

\* Its readback failed, no raw frame was free, or its cycle was torn down.
DropReservation(r) ==
    /\ r \in reserved
    /\ headers' = MarkedDropped(r.index, r.generation)
    /\ reserved' = reserved \ {r}
    /\ UnchangedIndices
    /\ UNCHANGED <<live, freeing, encoder, view>>

(* An encode worker. *)
BeginEncode(e, r) ==
    /\ encoder[e].pc = "idle"
    /\ r \in reserved
    /\ reserved' = reserved \ {r}
    /\ IF CanEncode(r)
       THEN /\ headers' = [headers EXCEPT ![r.index] =
                              Staged(headers[r.index], "Encoding", headers[r.index].alloc)]
            /\ encoder' = [encoder EXCEPT ![e] = [pc |-> "encoding", index |-> r.index,
                              generation |-> r.generation, alloc |-> NoAllocation]]
       ELSE UNCHANGED <<headers, encoder>>
    /\ UnchangedIndices
    /\ UNCHANGED <<live, freeing, view>>

\* The codec refused the frame, or the arena is full.
DropEncoding(e) ==
    /\ encoder[e].pc = "encoding"
    /\ headers' = MarkedDropped(encoder[e].index, encoder[e].generation)
    /\ encoder' = [encoder EXCEPT ![e] = IdleEncoder]
    /\ UnchangedIndices
    /\ UNCHANGED <<live, freeing, reserved, view>>

AllocatePayload(e, a) ==
    /\ encoder[e].pc = "encoding"
    /\ a \in Allocations \ live
    /\ live' = live \cup {a}
    /\ encoder' = [encoder EXCEPT ![e] = [pc |-> "publishing", index |-> encoder[e].index,
                      generation |-> encoder[e].generation, alloc |-> a]]
    /\ UNCHANGED <<ringVars, freeing, reserved, view>>

\* Refused: the encoder still owns the allocation and frees it.
Publish(e) ==
    /\ encoder[e].pc = "publishing"
    /\ IF CanPublish(e)
       THEN /\ headers' = [headers EXCEPT ![encoder[e].index] =
                              Staged(headers[encoder[e].index], "Ready", encoder[e].alloc)]
            /\ live' = live
       ELSE /\ headers' = headers
            /\ live' = live \ {encoder[e].alloc}
    /\ encoder' = [encoder EXCEPT ![e] = IdleEncoder]
    /\ UnchangedIndices
    /\ UNCHANGED <<freeing, reserved, view>>

(* A reader. *)
Pin(r, p) ==
    /\ view[r] = NoView
    /\ p # 0
    /\ headers' = [headers EXCEPT ![IndexAt(p)] =
                      Pinned(headers[IndexAt(p)], headers[IndexAt(p)].pins + 1)]
    /\ view' = [view EXCEPT ![r] = [index |-> IndexAt(p),
                   generation |-> headers[IndexAt(p)].generation,
                   captureNs |-> headers[IndexAt(p)].captureNs,
                   alloc |-> headers[IndexAt(p)].alloc]]
    /\ UnchangedIndices
    /\ UNCHANGED <<live, freeing, reserved, encoder>>

PinNextForDecode(r, afterNs, targetNs, windowEndNs) ==
    Pin(r, NextForDecode(Window, afterNs, targetNs, windowEndNs, LateNs, MaxBack))

PinNextInRange(r, afterNs, untilNs) == Pin(r, NextInRange(Window, afterNs, untilNs))

PinForDisplay(r, targetNs) == Pin(r, SelectForDisplay(Window, targetNs, MaxBack))

Unpin(r) ==
    LET v == view[r]
    IN  /\ v # NoView
        /\ headers' = IF headers[v.index].generation = v.generation /\ headers[v.index].pins > 0
                      THEN [headers EXCEPT ![v.index] =
                               Pinned(headers[v.index], headers[v.index].pins - 1)]
                      ELSE headers
        /\ view' = [view EXCEPT ![r] = NoView]
        /\ UnchangedIndices
        /\ UNCHANGED <<live, freeing, reserved, encoder>>
-----------------------------------------------------------------------------
GraphicsStep == (\E t \in Times : Reserve(t)) \/ FreePrevious
EncoderStep(e) ==
    \/ \E r \in reserved : BeginEncode(e, r)
    \/ DropEncoding(e)
    \/ \E a \in Allocations : AllocatePayload(e, a)
    \/ Publish(e)
ReaderStep(r) ==
    \/ \E afterNs, targetNs, windowEndNs \in Times :
           targetNs <= windowEndNs /\ PinNextForDecode(r, afterNs, targetNs, windowEndNs)
    \/ \E afterNs, untilNs \in Times : PinNextInRange(r, afterNs, untilNs)
    \/ \E targetNs \in Times : PinForDisplay(r, targetNs)
    \/ Unpin(r)

Next ==
    \/ GraphicsStep
    \/ \E r \in reserved : DropReservation(r)
    \/ \E e \in Encoders : EncoderStep(e)
    \/ \E r \in Readers : ReaderStep(r)

Spec == Init /\ [][Next]_vars
-----------------------------------------------------------------------------
(* Properties. *)
Encoding(e) == encoder[e].pc # "idle"
HoldersOf(slotIndex) == {r \in Readers : view[r] # NoView /\ view[r].index = slotIndex}

\* What a reader has pinned stays as it was pinned until Unpin: the slot is not
\* reused, its payload is neither replaced nor freed, and the pin count is the
\* number of readers on the slot (FillViewLocked, Unpin and Reserve's test of pins).
PinnedFramesStay ==
    /\ \A r \in Readers : view[r] # NoView =>
           LET slot == headers[view[r].index]
           IN  /\ slot.state = "Ready"
               /\ slot.generation = view[r].generation
               /\ slot.captureNs = view[r].captureNs
               /\ slot.alloc = view[r].alloc
               /\ slot.alloc \in live \ {freeing}
    /\ \A i \in Slots : headers[i].pins = Cardinality(HoldersOf(i))

\* Every allocation in use has exactly one owner -- the slot that stores it,
\* the encoder about to publish it, or Reserve's `previous` -- so none leaks
\* and none is freed twice (what Publish and Reserve promise of ownership).
AllocationOwnedOnce ==
    /\ \A a \in Allocations : a \in live <=>
           \/ \E i \in Slots : headers[i].alloc = a
           \/ \E e \in Encoders : encoder[e].alloc = a
           \/ freeing = a
    /\ \A i, j \in Slots : headers[i].alloc = headers[j].alloc =>
           i = j \/ headers[i].alloc = NoAllocation
    /\ \A e, f \in Encoders : encoder[e].alloc = encoder[f].alloc =>
           e = f \/ encoder[e].alloc = NoAllocation
    /\ \A i \in Slots, e \in Encoders : headers[i].alloc = encoder[e].alloc =>
           headers[i].alloc = NoAllocation
    /\ \A i \in Slots : headers[i].alloc = freeing => freeing = NoAllocation
    /\ \A e \in Encoders : encoder[e].alloc = freeing => freeing = NoAllocation

\* Where a payload can be: in a Ready slot, or with an encoder that publishes.
PayloadPlaces ==
    /\ \A i \in Slots : headers[i].alloc # NoAllocation <=> headers[i].state = "Ready"
    /\ \A e \in Encoders : encoder[e].alloc # NoAllocation <=> encoder[e].pc = "publishing"

\* A capture still undecided has exactly one holder that will decide it
\* (otherwise its slot would block the writer for good once the ring wraps),
\* and nobody else decides it meanwhile: a holder always finds the slot as it
\* left it, so Publish never refuses and a finished encode is never lost.
UndecidedIsHeld ==
    /\ \A i \in Slots :
           /\ headers[i].state = "Reserved" =>
                  [index |-> i, generation |-> headers[i].generation] \in reserved
           /\ headers[i].state = "Encoding" =>
                  \E e \in Encoders : Encoding(e) /\ encoder[e].index = i
    /\ \A r \in reserved : CanEncode(r)
    /\ \A e \in Encoders : Encoding(e) => CanPublish(e)
    /\ \A e, f \in Encoders :
           Encoding(e) /\ Encoding(f) /\ encoder[e].index = encoder[f].index => e = f

\* The inductive invariant: what each reader, encoder and reservation holds is
\* still as it left it, and every payload has one place.
RingInvariant ==
    TypeOK /\ PinnedFramesStay /\ AllocationOwnedOnce /\ PayloadPlaces /\ UndecidedIsHeld

\* SelectForDisplay shows the newest Ready frame at or before the target (a
\* repeat of an older one at worst, never one from the future), unless more
\* than MaxBack captures in a row were not Ready.
DisplaySelectionRight ==
    \A targetNs \in Times :
        LET due   == {p \in 1..buffered : Window[p].captureNs <= targetNs}
            shown == SelectForDisplay(Window, targetNs, MaxBack)
            ready == {p \in due : IsReady(Window[p])}
        IN  IF shown = 0
            THEN \A p \in ready : Cardinality({q \in due : q > p}) > MaxBack
            ELSE shown \in ready /\ \A p \in ready : p <= shown

\* Unless it jumps because it is late, decode-ahead goes through the captures
\* in order: what it passes over between its cursor and the frame it pins was
\* dropped, or was already due and still not encoded. A frame of the future
\* that is still encoding is waited for, never lost (PinNextForDecode).
DecodeAheadSkipsNothing ==
    \A afterNs, targetNs \in Times : \A windowEndNs \in targetNs..MaxTime :
        LET p == NextForDecode(Window, afterNs, targetNs, windowEndNs, LateNs, MaxBack)
        IN  p # 0 =>
              /\ Window[p].captureNs > afterNs
              /\ Window[p].captureNs <= windowEndNs
              /\ \/ afterNs + LateNs < targetNs /\ Window[p].captureNs <= targetNs
                 \/ \A q \in 1..p - 1 : Window[q].captureNs > afterNs =>
                        \/ Window[q].state = "Dropped"
                        \/ Window[q].state \in Undecided /\ Window[q].captureNs <= targetNs

(* What the ring promises, on its window: see DelayWindow. *)
AbstractStatus(state) == IF state \in Undecided THEN "pending" ELSE state
AbstractWindow ==
    [p \in 1..buffered |-> [captureNs |-> Window[p].captureNs, pins |-> Window[p].pins,
                            status |-> AbstractStatus(Window[p].state)]]
Promise == INSTANCE DelayWindow WITH Capacity <- SlotCount, Times <- Times, window <- AbstractWindow

\* What is shown and what is decoded next are the right frames, at any time the
\* ring is asked. The state is well typed.
SelectionsRight == TypeOK /\ DisplaySelectionRight /\ DecodeAheadSkipsNothing

\* The ring of slots, indices and generations implements the window of
\* captures: only the oldest capture is ever given up, never while it is
\* undecided or pinned, a decided capture stays as it is, and times never
\* decrease, which the binary searches rely on (Reserve's clamp and indices,
\* BeginEncode, Publish, MarkDropped, the pins).
ImplementsDelayWindow == Promise!Spec
=============================================================================
