------------------------------ MODULE DecodedPool ------------------------------
(***************************************************************************)
(* The playback side of the pipeline: DrawDelayed of video-delay-filter.cpp*)
(* with AcquireForDisplay and PrimeDecode, and DecodeLoop with its pool of *)
(* decoded frames, through pauses of rendering and restarts of the ring.   *)
(* Every frame can be decoded on its own here (DecodeChain has the chains);*)
(* time is counted in capture intervals.                                   *)
(*                                                                         *)
(* A step is one critical section of mutex_ or one call of the ring. The   *)
(* ring a frame really came from is a history variable of its own, next to *)
(* the epoch the code goes by.                                             *)
(***************************************************************************)
EXTENDS RingSelect

CONSTANTS Delay,         \* effectiveDelaySeconds_
          SlotCount,     \* slots of a ring
          Lookahead,     \* lookaheadFrames
          Stale,         \* kStaleIntervals
          Slack,         \* how much younger than the delay the first frame may be
          Prime,         \* kDecodePrimeWindowNs
          MaxBack,       \* kDisplayMaxBack and kDecodeJumpBack
          Broken,        \* captures whose packet no decoder accepts
          MaxNow,        \* bound on the clock
          MaxCycles      \* bound on the rings made

ASSUME PoolAssumption ==
    /\ {Delay, SlotCount, Lookahead, MaxNow, MaxCycles} \subseteq Nat \ {0}
    /\ {Stale, Slack, Prime, MaxBack} \subseteq Nat
    /\ Broken \subseteq 1..MaxNow

VARIABLES now,           \* the clock
          windows,       \* the window of every ring made so far
          attached,      \* ring_: the last of them is attached
          epoch,         \* epoch_
          captureCell,   \* lastCaptureCell_
          graphics,      \* Render, between its read of the ring and mutex_
          shown,         \* lastShownCaptureNs_, and the ring it came from
          target,        \* targetNs_
          lastShown,     \* lastShownNs_ of the pipeline
          lastAcquire,   \* lastAcquireNs_
          pool,          \* the Ready entries of decoded_
          decoder,       \* DecodeLoop: where it is, with which ring and frame
          cursor,        \* cursorNs and cursorEpoch
          woken          \* wakeSerial_ moved since the decoder read it

ringVars == <<now, windows, attached, captureCell>>
viewVars == <<graphics, shown>>
askVars == <<target, lastShown, lastAcquire>>
decodeVars == <<decoder, cursor>>
vars == <<ringVars, epoch, viewVars, askVars, pool, decodeVars, woken>>

Cycles == 1..Len(windows)
This == Len(windows)
Interval == 1
Forever == MaxNow
Slot == [captureNs : 1..MaxNow, state : Undecided \cup Settled]
Frame == [captureNs : 1..MaxNow, ring : 1..MaxCycles, epoch : 0..2 * MaxCycles]
Nowhere == [captureNs |-> 0, ring |-> 0]
AtTop == [pc |-> "top", ring |-> 0, target |-> 0, epoch |-> 0, captureNs |-> 0]
NotRendering == [pc |-> "idle", target |-> 0, due |-> 0]

PoolTypeOK ==
    /\ now \in 1..MaxNow /\ captureCell \in 0..MaxNow
    /\ windows \in Seq(Seq(Slot)) /\ This <= MaxCycles
    /\ \A c \in Cycles : Len(windows[c]) <= SlotCount
    /\ attached \in BOOLEAN /\ epoch \in 0..2 * MaxCycles
    /\ graphics \in [pc : {"idle", "acquire"}, target : 0..MaxNow, due : 0..MaxNow]
    /\ shown.captureNs \in 0..MaxNow /\ shown.ring \in 0..MaxCycles
    /\ {target, lastShown, lastAcquire} \subseteq 0..MaxNow
    /\ pool \subseteq Frame /\ Cardinality(pool) <= Lookahead
    /\ decoder.pc \in {"top", "decode", "finish", "asleep", "dozing"}
    /\ cursor.ns \in 0..MaxNow /\ cursor.epoch \in 0..epoch
    /\ woken \in BOOLEAN

Init ==
    /\ now = 1 /\ windows = <<>> /\ attached = FALSE /\ captureCell = 0
    /\ epoch = 0
    /\ graphics = NotRendering /\ shown = Nowhere
    /\ target = 0 /\ lastShown = 0 /\ lastAcquire = 0
    /\ pool = {}
    /\ decoder = AtTop /\ cursor = [ns |-> 0, epoch |-> 0]
    /\ woken = FALSE
-----------------------------------------------------------------------------
(* Names with an underscore are the bugs the runs must notice: each takes  *)
(* the place of the definition after it.                                   *)

(* Time passes; a pause is a time without Render. *)
Tick ==
    /\ now < MaxNow
    /\ now' = now + 1
    /\ UNCHANGED <<windows, attached, captureCell, epoch, viewVars, askVars, pool, decodeVars, woken>>

(* The graphics thread: cycles. *)
NextEpoch_Same == epoch
NextEpoch == epoch + 1
\* Detach, under mutex_.
Detach ==
    /\ epoch' = NextEpoch
    /\ pool' = {}
    /\ target' = 0 /\ lastShown' = 0 /\ lastAcquire' = 0
    /\ woken' = TRUE

\* EnsureRingSized: a ring attached (Attach detaches first).
StartCycle ==
    /\ graphics.pc = "idle" /\ ~attached /\ This < MaxCycles
    /\ windows' = Append(windows, <<>>) /\ attached' = TRUE
    /\ Detach
    /\ UNCHANGED <<now, captureCell, viewVars, decodeVars>>

\* StopCycle, with InvalidatePlaybackCache. The ring lives on in the decode
\* worker's hands, if it is decoding.
StopCycle ==
    /\ graphics.pc = "idle" /\ attached
    /\ attached' = FALSE
    /\ Detach
    /\ captureCell' = 0
    /\ shown' = Nowhere
    /\ windows' = IF decoder.ring = This THEN windows ELSE [windows EXCEPT ![This] = <<>>]
    /\ UNCHANGED <<now, graphics, decodeVars>>

(* The graphics thread: Render, up to the lock of AcquireForDisplay. *)
\* CaptureFrame: a slot, unless the one it needs is still undecided.
Captured(window) ==
    LET slot == [captureNs |-> now, state |-> "Encoding"]
        full == Len(window) = SlotCount
    IN  IF captureCell = now \/ (full /\ Head(window).state \in Undecided) THEN window
        ELSE Append(IF full THEN Tail(window) ELSE window, slot)

CandidateNs(window, ns) ==
    LET p == SelectForDisplay(window, ns, MaxBack)
    IN  IF p = 0 THEN 0 ELSE window[p].captureNs

Publishes_Silent(ns) == target' = ns /\ UNCHANGED woken
Publishes(ns) == target' = ns /\ woken' = TRUE

\* DrawDelayed: still filling, about to be filled, or a frame is due.
Render ==
    LET window  == Captured(windows[This])
        ageNs   == now - Delay
        oldest  == IF window = <<>> THEN 0 ELSE window[1].captureNs
        filling == oldest - ageNs
        Ask(ns) == graphics' = [pc |-> "acquire", target |-> ns, due |-> CandidateNs(window, ns)]
    IN  /\ graphics.pc = "idle" /\ attached
        /\ windows' = [windows EXCEPT ![This] = window]
        /\ captureCell' = now
        /\ IF ageNs <= 0 \/ window = <<>> \/ filling > Max({Slack, Prime})
           THEN UNCHANGED <<graphics, target, woken>>
           ELSE IF filling > Slack
           THEN /\ UNCHANGED graphics
                /\ IF target = oldest THEN UNCHANGED <<target, woken>> ELSE Publishes(oldest)
           ELSE /\ Ask(IF filling > 0 THEN oldest ELSE ageNs)
                /\ UNCHANGED <<target, woken>>
        /\ UNCHANGED <<now, attached, epoch, shown, lastShown, lastAcquire, pool, decodeVars>>

\* AcquireForDisplay, under mutex_: of the entries of this cycle newer than
\* what is on screen, the newest that is due, and none older stays.
Resumed == lastAcquire # 0 /\ now > lastAcquire + Stale
TooOld_Never(best, due) == FALSE
TooOld(best, due) == Resumed /\ due > best + Stale
Usable(frame, ns) == frame.epoch = epoch /\ frame.captureNs > ns
IsDue_Ahead(frame) == frame.captureNs <= graphics.target + Interval
IsDue(frame) == frame.captureNs <= graphics.target
Acquire ==
    LET usable == {f \in pool : Usable(f, shown.captureNs)}
        dueNow == {f \in usable : IsDue(f)}
        best   == CHOOSE f \in dueNow : \A g \in dueNow : g.captureNs <= f.captureNs
    IN  /\ graphics.pc = "acquire"
        /\ Publishes(graphics.target)
        /\ lastShown' = shown.captureNs /\ lastAcquire' = now
        /\ IF dueNow = {} THEN pool' = usable /\ UNCHANGED shown
           ELSE IF TooOld(best.captureNs, graphics.due)
           THEN pool' = usable \ dueNow /\ UNCHANGED shown
           ELSE /\ pool' = {f \in usable : f.captureNs > best.captureNs}
                /\ shown' = [captureNs |-> best.captureNs, ring |-> best.ring]
        /\ graphics' = NotRendering
        /\ UNCHANGED <<ringVars, epoch, decodeVars>>

(* The encoders: a capture is stored or dropped. *)
Settle(c, p, state) ==
    /\ p \in DOMAIN windows[c] /\ windows[c][p].state \in Undecided
    /\ windows' = [windows EXCEPT ![c][p].state = state]
    /\ woken' = TRUE
    /\ UNCHANGED <<now, attached, captureCell, epoch, viewVars, askVars, pool, decodeVars>>

(* The decode worker. *)
\* The top of its loop, under mutex_: sleep until woken (asleep) or for at most
\* an interval (dozing), or take an entry for the next frame.
Synced == IF cursor.epoch = epoch THEN cursor ELSE [ns |-> 0, epoch |-> epoch]
Full(frames) == Cardinality(frames) >= Lookahead
Look ==
    LET usable == {f \in pool : Usable(f, lastShown)}
    IN  /\ decoder.pc = "top"
        /\ cursor' = Synced
        /\ woken' = FALSE
        /\ IF ~attached \/ target = 0
           THEN decoder' = [AtTop EXCEPT !.pc = "asleep"] /\ UNCHANGED pool
           ELSE /\ pool' = usable
                /\ decoder' = IF Full(usable) THEN [AtTop EXCEPT !.pc = "dozing"]
                              ELSE [AtTop EXCEPT !.pc = "decode", !.ring = This,
                                                 !.target = target, !.epoch = epoch]
        /\ UNCHANGED <<ringVars, epoch, viewVars, askVars>>

\* PinNextForDecode and the decode, without the lock.
Decode ==
    LET window == windows[decoder.ring]
        p      == NextForDecode(window, cursor.ns, decoder.target, Forever, Interval, MaxBack)
    IN  /\ decoder.pc = "decode"
        /\ decoder' = IF p = 0 THEN [AtTop EXCEPT !.pc = "dozing"]
                      ELSE [decoder EXCEPT !.pc = "finish", !.captureNs = window[p].captureNs]
        /\ UNCHANGED <<ringVars, epoch, viewVars, askVars, pool, cursor, woken>>

\* Back under mutex_: the entry is Ready if the decode worked, for this cycle.
Decoded == decoder.captureNs \notin Broken
Finish ==
    /\ decoder.pc = "finish"
    /\ cursor' = [cursor EXCEPT !.ns = decoder.captureNs]
    /\ pool' = IF Decoded /\ epoch = decoder.epoch
               THEN pool \cup {[captureNs |-> decoder.captureNs, ring |-> decoder.ring,
                                epoch |-> decoder.epoch]}
               ELSE pool
    /\ decoder' = AtTop
    /\ UNCHANGED <<ringVars, epoch, viewVars, askVars, woken>>

WakeUp ==
    /\ decoder.pc = "dozing" \/ (decoder.pc = "asleep" /\ woken)
    /\ decoder' = AtTop
    /\ UNCHANGED <<ringVars, epoch, viewVars, askVars, pool, cursor, woken>>
-----------------------------------------------------------------------------
DecodeStep == Look \/ Decode \/ Finish \/ WakeUp
RenderStep == Render \/ Acquire

Next ==
    \/ Tick
    \/ StartCycle \/ StopCycle
    \/ RenderStep
    \/ \E c \in Cycles, p \in 1..SlotCount, state \in Settled : Settle(c, p, state)
    \/ DecodeStep

\* OBS goes on rendering, and the decode worker goes on. Neither the clock, the
\* encoders nor another cycle are counted on.
Fairness == WF_vars(RenderStep) /\ WF_vars(DecodeStep)

Spec == Init /\ [][Next]_vars
FairSpec == Spec /\ Fairness
-----------------------------------------------------------------------------
(* Properties. *)

\* What appears on screen is a frame of the ring attached now, whenever the
\* decode of an old ring's frame ends and however often the ring restarted
\* (epoch_, its checks in DecodeLoop and AcquireForDisplay, Detach).
\* The state is well typed.
ShownIsOfThisCycle ==
    /\ PoolTypeOK
    /\ shown.ring # 0 => shown.ring = This

\* Within a cycle the picture only moves forward, and never ahead of the delay.
ShownAdvances ==
    [][shown' # shown /\ shown' # Nowhere =>
           /\ shown'.captureNs > shown.captureNs
           /\ shown'.captureNs <= graphics.target]_vars

\* After a pause of rendering no frame decoded before it is shown that is far
\* older than the one due (AcquireForDisplay, codec-pipeline.hpp:312-321).
NoFrameFromBeforeThePause ==
    [][Resumed /\ shown' # shown /\ shown' # Nowhere
          => graphics.due <= shown'.captureNs + Stale]_vars

\* The picture only moves forward, through pauses too.
ShownInOrder == ShownAdvances /\ NoFrameFromBeforeThePause

\* A frame that is due and that the decoder has not passed gets on screen while
\* it is due, however the pool, the lookahead, a pause and failed decodes of
\* other frames came before it.
Passed == IF decoder.pc = "finish" /\ decoder.epoch = epoch THEN decoder.captureNs ELSE Synced.ns
Waits(ns) ==
    /\ attached /\ now > Delay
    /\ CandidateNs(windows[This], now - Delay) = ns
    /\ Passed < ns
DueFrameIsShown ==
    \A ns \in (1..MaxNow - Delay) \ Broken :
        Waits(ns) ~> \/ shown.captureNs >= ns
                     \/ ~attached
                     \/ CandidateNs(windows[This], now - Delay) # ns
=============================================================================
