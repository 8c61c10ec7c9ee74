------------------------------ MODULE DecodeChain ------------------------------
(***************************************************************************)
(* The decode worker (DecodeLoop, DecodePinned and StartFromKey of         *)
(* codec-pipeline.cpp) on the ring that EncodeChain fills: decode-ahead in *)
(* capture order, jumps when it is late, restarts from a key, catch-up,    *)
(* decoders that fail or are replaced.                                     *)
(*                                                                         *)
(* A pin only lasts the copy of the packet, so a ring call and the decode  *)
(* that follows it are one step; two ring calls are two steps, and the     *)
(* ring moves on in between. Frames of the intra codecs are always         *)
(* decodable and have decoders of their own: only the inter decoder's      *)
(* state is modelled.                                                      *)
(***************************************************************************)
EXTENDS EncodeChain

CONSTANTS JumpBack,      \* kDecodeJumpBack
          DecodeTime     \* one decode, in capture intervals

VARIABLES targetNs,      \* targetNs_, the time shown now
          at,            \* where DecodeLoop is: idle, plan or catchUp
          cursorNs,      \* its local: the last capture handled
          cursor,        \* ctx.cursors of the inter codec
          reference,     \* what the decoder really holds: its last packet
          waiting,       \* waitingForKey
          decodeEpoch,   \* cursorEpoch
          landed,        \* StartFromKey: the frame it landed on,
          planNs,        \* the time it plans for,
          dueNs,         \* the frame due,
          afterNs        \* and the last one caught up

planVars == <<landed, planNs, dueNs, afterNs>>
decoderVars == <<cursor, reference>>
decodeVars == <<targetNs, at, cursorNs, decoderVars, waiting, decodeEpoch, planVars>>
vars == <<encodeVars, decodeVars>>

\* A new or flushed decoder references nothing.
Nothing == [capture |-> 0, key |-> FALSE, ref |-> 0]
Interval == 1
Forever == MaxCaptures

DecodeTypeOK ==
    /\ EncodeTypeOK
    /\ targetNs \in Nat
    /\ at \in {"idle", "plan", "catchUp"}
    /\ cursorNs \in 0..captured /\ waiting \in BOOLEAN /\ decodeEpoch \in 0..epoch
    /\ cursor \in [valid : BOOLEAN, chain : Nat, seq : Nat]
    /\ reference \in [capture : 0..captured, key : BOOLEAN, ref : 0..captured]
    /\ {landed, planNs, dueNs, afterNs} \subseteq Nat

Init ==
    /\ EncodeInit
    /\ targetNs = 0 /\ at = "idle" /\ cursorNs = 0
    /\ cursor = NoCursor /\ reference = Nothing /\ waiting = FALSE /\ decodeEpoch = 0
    /\ landed = 0 /\ planNs = 0 /\ dueNs = 0 /\ afterNs = 0
-----------------------------------------------------------------------------
(* DecodePinned on the slot pinned, with the decoder's answer. *)
CanDecode_AnySeq(slot) == slot.key \/ (cursor.valid /\ slot.chain = cursor.chain)
CanDecode(slot) == Decodable(slot, cursor)

Forgotten_KeepsCursor == reference' = Nothing /\ UNCHANGED cursor
Forgotten == cursor' = NoCursor /\ reference' = Nothing
\* The locals of StartFromKey go when it returns.
NoPlan == landed' = 0 /\ planNs' = 0 /\ dueNs' = 0 /\ afterNs' = 0
Decodes(slot, ok) ==
    IF slot.codec # "inter" THEN UNCHANGED decoderVars
    ELSE IF ok
    THEN /\ cursor' = [valid |-> TRUE, chain |-> slot.chain, seq |-> slot.seq]
         /\ reference' = [capture |-> slot.captureNs, key |-> slot.key, ref |-> slot.ref]
    ELSE Forgotten

(* The graphics thread: AcquireForDisplay publishes the time to show. *)
Show(ns) ==
    /\ ns \in targetNs + 1..captured
    /\ targetNs' = ns
    /\ UNCHANGED <<encodeVars, at, cursorNs, decoderVars, waiting, decodeEpoch, planVars>>

\* Detach resets the target; the decoder finds the new epoch in DecodeLoop.
Attach == NewCycle /\ targetNs' = 0
          /\ UNCHANGED <<at, cursorNs, decoderVars, waiting, decodeEpoch, planVars>>

\* A new epoch: flushed, from the beginning. Whatever it was doing in the old
\* ring is thrown away.
SyncEpoch ==
    /\ decodeEpoch # epoch
    /\ decodeEpoch' = epoch
    /\ at' = "idle" /\ cursorNs' = 0 /\ waiting' = FALSE
    /\ Forgotten /\ NoPlan
    /\ UNCHANGED <<encodeVars, targetNs>>

\* SyncDecodersLocked: the hardware or idle decoder gives way to another one.
ReplaceDecoder ==
    /\ at = "idle" /\ decodeEpoch = epoch
    /\ reference # Nothing
    /\ Forgotten
    /\ UNCHANGED <<encodeVars, targetNs, at, cursorNs, waiting, decodeEpoch, planVars>>

Starting == cursorNs = 0
Late == ~Starting /\ cursorNs + Interval < targetNs
NextSlot == window[NextForDecode(window, cursorNs, targetNs, Forever, Interval, JumpBack)]
HasNext ==
    /\ at = "idle" /\ decodeEpoch = epoch /\ targetNs # 0
    /\ NextForDecode(window, cursorNs, targetNs, Forever, Interval, JumpBack) # 0

DecodeNext(ok) ==
    /\ HasNext /\ CanDecode(NextSlot)
    /\ Decodes(NextSlot, ok)
    /\ cursorNs' = NextSlot.captureNs
    /\ waiting' = (waiting /\ ~(ok /\ NextSlot.key))
    /\ UNCHANGED <<encodeVars, targetNs, at, decodeEpoch, planVars>>

\* A P-frame without its reference, while skipping to the next key already.
SkipNext ==
    /\ waiting /\ ~Starting /\ ~Late
    /\ HasNext /\ ~CanDecode(NextSlot)
    /\ cursorNs' = Max({cursorNs, NextSlot.captureNs})
    /\ UNCHANGED <<encodeVars, targetNs, at, decoderVars, waiting, decodeEpoch, planVars>>

StartFromKey ==
    /\ ~waiting \/ Starting \/ Late
    /\ HasNext /\ ~CanDecode(NextSlot)
    /\ landed' = NextSlot.captureNs
    /\ planNs' = IF Starting \/ Late THEN targetNs ELSE NextSlot.captureNs
    /\ at' = "plan"
    /\ UNCHANGED <<encodeVars, targetNs, cursorNs, decoderVars, waiting, decodeEpoch,
                   dueNs, afterNs>>

\* StartFromKey gave up: the view holds until the next key.
WaitForKey(ns) ==
    /\ waiting' = TRUE /\ at' = "idle"
    /\ cursorNs' = Max({ns, landed})
    /\ NoPlan

\* FrameRing::PlanDecodeStart under the ring's mutex, and the choice.
Due == SelectForDisplay(window, planNs, JumpBack)
Plan == PlanDecodeStart(window, Due)
MustWait == \/ Plan.catchUp = 0
            \/ ChooseDecodeStart(Plan, Due, DecodeTime, Interval) = "WaitForKey"
JustBefore_Not(ns) == ns
JustBefore(ns) == ns - 1
PlanStart ==
    /\ at = "plan" /\ decodeEpoch = epoch
    /\ IF Due = 0 THEN WaitForKey(cursorNs)
       ELSE IF MustWait THEN WaitForKey(window[Due].captureNs)
       ELSE /\ at' = "catchUp"
            /\ dueNs' = window[Due].captureNs
            /\ afterNs' = JustBefore(window[Plan.keyPos].captureNs)
            /\ UNCHANGED <<cursorNs, waiting, landed, planNs>>
    /\ UNCHANGED <<encodeVars, targetNs, decoderVars, decodeEpoch>>

\* One turn of the catch-up: the next packet, unshown, or the frame due.
CatchUpPos == NextInRange(window, afterNs, dueNs)
CatchUp(ok) ==
    LET slot    == window[CatchUpPos]
        atDue   == slot.captureNs >= dueNs
        decoded == CanDecode(slot) /\ ok
    IN  /\ at = "catchUp" /\ decodeEpoch = epoch /\ CatchUpPos # 0
        /\ IF CanDecode(slot) THEN Decodes(slot, ok) ELSE UNCHANGED decoderVars
        /\ IF atDue /\ decoded
           THEN at' = "idle" /\ cursorNs' = dueNs /\ waiting' = FALSE /\ NoPlan
           ELSE IF ~atDue /\ (decoded \/ slot.codec # "inter")
           THEN afterNs' = slot.captureNs
                /\ UNCHANGED <<at, cursorNs, waiting, landed, planNs, dueNs>>
           ELSE WaitForKey(Max({cursorNs, dueNs}))
        /\ UNCHANGED <<encodeVars, targetNs, decodeEpoch>>

CatchUpGone ==
    /\ at = "catchUp" /\ decodeEpoch = epoch /\ CatchUpPos = 0
    /\ WaitForKey(Max({cursorNs, dueNs}))
    /\ UNCHANGED <<encodeVars, targetNs, decoderVars, decodeEpoch>>

DecodeStep ==
    \/ SyncEpoch
    \/ ReplaceDecoder
    \/ \E ok \in BOOLEAN : DecodeNext(ok)
    \/ SkipNext
    \/ StartFromKey
    \/ PlanStart
    \/ \E ok \in BOOLEAN : CatchUp(ok)
    \/ CatchUpGone

Next ==
    \/ EncodeNext /\ epoch' = epoch /\ UNCHANGED decodeVars
    \/ Attach
    \/ \E ns \in 1..MaxCaptures : Show(ns)
    \/ DecodeStep

Spec == Init /\ [][Next]_vars
-----------------------------------------------------------------------------
(* Properties. *)

\* No P-frame is ever decoded unless the decoder holds the very packet it
\* references, whatever was lost, skipped, jumped over or replaced on either
\* side (invariant I2 of storage-codec.hpp).
NeverWithoutReference ==
    [][reference' # reference => \/ reference' = Nothing
                                 \/ reference'.key
                                 \/ reference'.ref = reference.capture]_vars

\* The cursor tells the decoder apart what it can decode from what it cannot:
\* of the P-frames in the ring it accepts exactly those that reference the
\* packet decoded last. One too many is a broken picture, one too few a picture
\* that freezes until the next key (ringselect::Decodable and the resets of
\* ctx.cursors, against the chains and seqs the encoder wrote).
CursorAcceptsExactly ==
    decodeEpoch = epoch =>
        \A p \in InterFrames : ~window[p].key =>
            (CanDecode(window[p]) <=> reference # Nothing /\ window[p].ref = reference.capture)

\* A restart is planned exactly when there is one: every packet the frame due
\* depends on, back to its key, is still in the ring, and catchUp counts them
\* (invariant I5, ringselect::PlanDecodeStart).
RefOf(p) == {q \in InterFrames : ~window[p].key /\ window[q].captureNs = window[p].ref}
Chained(ps) == \A p \in ps : window[p].key \/ (RefOf(p) # {} /\ RefOf(p) \subseteq ps)
RestartFound ==
    \A due \in InterFrames :
        LET plan == PlanDecodeStart(window, due)
            runs == {ps \in SUBSET InterFrames :
                        /\ due \in ps /\ Max(ps) = due /\ Chained(ps)
                        /\ Cardinality({p \in ps : window[p].key}) = 1
                        /\ \A p \in ps : p = due \/ \E q \in ps : p \in RefOf(q)}
        IN  IF plan.found
            THEN runs # {} /\ \A ps \in runs : /\ plan.catchUp = Cardinality(ps) - 1
                                               /\ plan.keyPos = Min(ps)
            ELSE runs = {}

\* The catch-up reaches the frame due unless a decode fails or the ring
\* overwrote a packet of it meanwhile: every packet it meets is decodable.
CatchUpNeverStuck ==
    at = "catchUp" /\ decodeEpoch = epoch /\ CatchUpPos # 0 /\ afterNs >= window[1].captureNs =>
        \/ CanDecode(window[CatchUpPos])
        \/ window[CatchUpPos].codec # "inter"

\* What a restart waits for is no worse than what it had: a key due now is
\* shown, not skipped to wait for the next one (frame-ring.hpp:188-190,
\* "whatever shows a fresh frame sooner").
KeyDueIsNotSkipped ==
    [][at = "plan" /\ Due # 0 /\ waiting' /\ at' = "idle" /\ decodeEpoch = epoch
          => ~window[Due].key]_vars

\* The decoder decodes what it can, all of it and nothing else: the cursor tells
\* the P-frames it may take, a restart starts where one can, and the catch-up it
\* plans gets there. The state of both workers is well typed.
DecodesWhatItCan == DecodeTypeOK /\ CursorAcceptsExactly /\ RestartFound /\ CatchUpNeverStuck
=============================================================================
