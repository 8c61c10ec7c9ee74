------------------------------ MODULE HwCodec ------------------------------
(***************************************************************************)
(* hw-storage-codec.cpp: one hardware encoder and one hardware decoder     *)
(* over FFmpeg, from the probe that checks them to the pipeline's frames.  *)
(* What FFmpeg does with a frame is the environment: it may hold a packet  *)
(* back until the next frame is in, give parameter sets with the first key *)
(* only, and, as a fault, fail or hand packets out in another order.       *)
(***************************************************************************)
EXTENDS Integers, Sequences, SequencesExt

CONSTANTS
    ProbeFrames, SecondKey,   \* kProbeFrames, and the second frame sent as a key
    QuickFrames,              \* kQuickProbeFrames
    QueueSize,                \* frames FFmpeg takes before it answers EAGAIN
    PictureCache,             \* kPictureCacheSize
    NoSeq,                    \* UINT64_MAX
    MaxSent, MaxFaults        \* bounds: frames of the pipeline, faults

VARIABLES
    hwEncoder,   \* HwEncoder: pending, the pts of the next frame, its flags; whether it has sets to copy
    ffmpeg,      \* [queue, hold, firstOnly, faults]: frames inside, packets it holds back
    hwProbe,     \* where the setup or the pipeline is with it, and what the probe has seen
    hwEntry,     \* the registry's entry: [ok, copy]
    hwDecoder,   \* HwDecoder: its context, its flags, and the free pictures of its pool
    handed       \* the last packet the pipeline was handed

hwCodecVars == <<hwEncoder, ffmpeg, hwProbe, hwEntry, hwDecoder, handed>>

NewHwEncoder(copy) ==
    [pending |-> <<>>, next |-> 0, broken |-> FALSE, draining |-> FALSE, copy |-> copy, sets |-> FALSE]
NewProbe(quick) == [phase |-> "probe", quick |-> quick, sent |-> 0, packets |-> <<>>]
NewHwDecoder(ctx) ==
    [ctx |-> ctx, openFailed |-> FALSE, broken |-> FALSE, free |-> <<>>, out |-> [size \in {0, 1} |-> 0]]
NothingHanded == [seq |-> NoSeq, of |-> NoSeq, key |-> FALSE, sets |-> TRUE]

HwCodecInit ==
    /\ hwEncoder = NewHwEncoder(FALSE)
    /\ ffmpeg \in [queue : {<<>>}, hold : {0, 1}, firstOnly : BOOLEAN, first : {TRUE}, faults : {0}]
    /\ hwProbe = NewProbe(FALSE)
    /\ hwEntry = [ok |-> FALSE, copy |-> FALSE]
    /\ hwDecoder = NewHwDecoder("none")
    /\ handed = NothingHanded

-----------------------------------------------------------------------------
(* The encoder. *)

\* HwEncoder::Send: the frame goes in, `of` the pipeline or of the probe (NoSeq); a key carries parameter sets, or only the first does.
HwSend(of, seq, forceKey) ==
    /\ ~hwEncoder.broken /\ ~hwEncoder.draining
    /\ Len(ffmpeg.queue) < QueueSize                     \* otherwise Busy: the capture is dropped
    /\ hwEncoder' = [hwEncoder EXCEPT !.next = @ + 1,
                         !.pending = Append(@, [pts |-> hwEncoder.next, seq |-> seq, discard |-> FALSE])]
    /\ ffmpeg' = [ffmpeg EXCEPT !.first = FALSE,
                      !.queue = Append(@, [pts |-> hwEncoder.next, of |-> of, key |-> forceKey,
                                           sets |-> forceKey /\ (~ffmpeg.firstOnly \/ ffmpeg.first)])]

\* avcodec_send_frame or avcodec_receive_packet fails.
HwBreaks ==
    /\ ffmpeg.faults < MaxFaults /\ hwProbe.phase \in {"probe", "pipeline"} /\ ~hwEncoder.broken
    /\ hwEncoder' = [hwEncoder EXCEPT !.broken = TRUE]
    /\ ffmpeg' = [ffmpeg EXCEPT !.faults = @ + 1]
    /\ UNCHANGED <<hwProbe, hwEntry, hwDecoder, handed>>

\* The fault: two packets come out the other way round.
Reorders ==
    /\ ffmpeg.faults < MaxFaults /\ Len(ffmpeg.queue) >= 2 /\ hwProbe.phase \in {"probe", "pipeline"}
    /\ ffmpeg' = [ffmpeg EXCEPT !.faults = @ + 1,
                      !.queue = <<@[2], @[1]>> \o SubSeq(@, 3, Len(@))]
    /\ UNCHANGED <<hwEncoder, hwProbe, hwEntry, hwDecoder, handed>>

\* There is a packet for HwEncoder::Receive to take.
Out == /\ ~hwEncoder.broken /\ hwEncoder.pending # <<>> /\ ffmpeg.queue # <<>>
       /\ Len(ffmpeg.queue) > ffmpeg.hold \/ hwEncoder.draining

OutPacket == Head(ffmpeg.queue)
FrontEntry == Head(hwEncoder.pending)
InOrder == FrontEntry.pts = OutPacket.pts
Discarded == FrontEntry.discard /\ InOrder

\* A key without its parameter sets gets a copy of those seen first.
CarriesSets == OutPacket.sets \/ (hwEncoder.copy /\ hwEncoder.sets)

TakeOut ==
    /\ ffmpeg' = [ffmpeg EXCEPT !.queue = Tail(@)]
    /\ hwEncoder' = [hwEncoder EXCEPT
           !.pending = IF InOrder THEN Tail(@) ELSE @,
           !.sets = @ \/ (hwEncoder.copy /\ ~Discarded /\ OutPacket.key /\ OutPacket.sets)]

\* What Receive returns: the seq it was sent as, or none for a pts out of order.
Received == [seq |-> IF InOrder THEN FrontEntry.seq ELSE NoSeq, of |-> OutPacket.of,
             key |-> OutPacket.key, sets |-> OutPacket.key => CarriesSets]

\* Mutant: the probe leaves what is in flight as if it were the pipeline's.
DiscardInFlight_Nothing(pending) == pending

\* What is in flight now is the probe's.
DiscardInFlight(pending) == [i \in DOMAIN pending |-> [pending[i] EXCEPT !.discard = TRUE]]

\* Drain: the packets still inside come out, until none is left or its deadline.
Drain ==
    /\ hwProbe.phase = "pipeline" /\ ~hwEncoder.draining /\ ~hwEncoder.broken /\ hwEncoder.pending # <<>>
    /\ hwEncoder' = [hwEncoder EXCEPT !.draining = TRUE]
    /\ UNCHANGED <<ffmpeg, hwProbe, hwEntry, hwDecoder, handed>>

-----------------------------------------------------------------------------
(* The probe, on the setup thread. *)

Probed == IF hwProbe.quick THEN QuickFrames ELSE ProbeFrames

\* ProbeEncode sends one frame more than it checks, keys at 0 and at the second key.
ProbeSend ==
    /\ hwProbe.phase = "probe" /\ hwProbe.sent <= Probed
    /\ HwSend(NoSeq, hwProbe.sent, hwProbe.sent \in {0, SecondKey})
    /\ hwProbe' = [hwProbe EXCEPT !.sent = @ + 1]
    /\ UNCHANGED <<hwEntry, hwDecoder, handed>>

\* It collects the packets of those it checks; one out of order fails it.
ProbeCollect ==
    /\ hwProbe.phase = "probe" /\ Out
    /\ Len(hwProbe.packets) < Probed
    /\ TakeOut
    /\ hwProbe' = IF Received.seq = Len(hwProbe.packets)
                  THEN [hwProbe EXCEPT !.packets = Append(@, Received)]
                  ELSE [hwProbe EXCEPT !.phase = "closed"]
    /\ UNCHANGED <<hwEntry, hwDecoder, handed>>

\* Cancelled between two steps, a timeout, or an encoder that fails.
ProbeGivesUp ==
    /\ hwProbe.phase \in {"probe", "decode"}
    /\ hwProbe' = [hwProbe EXCEPT !.phase = "closed"]
    /\ UNCHANGED <<hwEncoder, ffmpeg, hwEntry, hwDecoder, handed>>

\* Probe, once the packets are there.  The first frame, forced, must be a key that carries its sets.
ProbeChecks ==
    /\ hwProbe.phase = "probe" /\ hwProbe.sent = Probed + 1 /\ Len(hwProbe.packets) = Probed
    /\ hwEncoder' = [hwEncoder EXCEPT !.pending = DiscardInFlight(@)]
    /\ hwProbe' = [hwProbe EXCEPT !.sent = 0, !.phase =
                       IF ~hwProbe.packets[1].key \/ ~hwProbe.packets[1].sets THEN "closed"
                       ELSE IF hwProbe.quick THEN "pipeline"
                       ELSE IF ~hwProbe.packets[SecondKey + 1].key THEN "closed" ELSE "decode"]
    /\ UNCHANGED <<ffmpeg, hwEntry, hwDecoder, handed>>

\* The hardware decoder shows every frame of the probe, and again from the second key after a flush.
\* Setup then remembers what works; keys without sets get those of the first.
ProbeDecodes ==
    /\ hwProbe.phase = "decode"
    /\ LET copy == ~hwProbe.packets[SecondKey + 1].sets
       IN  /\ hwEncoder' = [hwEncoder EXCEPT !.copy = @ \/ copy, !.sets = @ \/ copy]
           /\ hwEntry' = [ok |-> TRUE, copy |-> hwEntry.copy \/ copy]
    /\ hwProbe' = [hwProbe EXCEPT !.phase = "pipeline"]
    /\ hwDecoder' = NewHwDecoder("open")
    /\ UNCHANGED <<ffmpeg, handed>>

\* Setup again, at another size: a quick probe of an encoder that worked, a full one otherwise.
Reopen ==
    /\ hwProbe.phase = "closed"
    /\ hwEncoder' = NewHwEncoder(hwEntry.copy)
    /\ ffmpeg' = [ffmpeg EXCEPT !.queue = <<>>, !.first = TRUE]
    /\ hwProbe' = NewProbe(hwEntry.ok)
    /\ hwDecoder' = NewHwDecoder("none")
    /\ UNCHANGED <<hwEntry, handed>>

-----------------------------------------------------------------------------
(* The pipeline: EncodeOne, ReceiveReady, CloseEncoder, DecodeOne. *)

PipelineSend ==
    /\ hwProbe.phase = "pipeline" /\ hwProbe.sent < MaxSent
    /\ \E forceKey \in IF hwProbe.sent = 0 THEN {TRUE} ELSE BOOLEAN :
         HwSend(hwProbe.sent, hwProbe.sent, forceKey)
    /\ hwProbe' = [hwProbe EXCEPT !.sent = @ + 1]
    /\ UNCHANGED <<hwEntry, hwDecoder, handed>>

\* The probe's packet is thrown away; one out of order closes the encoder.
PipelineReceive ==
    /\ hwProbe.phase = "pipeline" /\ Out
    /\ TakeOut
    /\ handed' = IF Discarded THEN handed ELSE Received
    /\ hwProbe' = IF InOrder THEN hwProbe ELSE [hwProbe EXCEPT !.phase = "closed"]
    /\ UNCHANGED <<hwEntry, hwDecoder>>

\* Drained, past the deadline, or failed: what is in flight is given up.
PipelineCloses ==
    /\ hwProbe.phase = "pipeline"
    /\ hwProbe' = [hwProbe EXCEPT !.phase = "closed"]
    /\ hwEncoder' = [hwEncoder EXCEPT !.pending = <<>>]
    /\ UNCHANGED <<ffmpeg, hwEntry, hwDecoder, handed>>

\* PicturePool::Get: the newest free picture of that size; those of another size met on the way go.
\* The pipeline gives a picture back when the next one is shown.
PictureFor(size) ==
    LET i == SelectLastInSeq(hwDecoder.free, LAMBDA s : s = size)
    IN  hwDecoder' = [hwDecoder EXCEPT !.out[size] = @ + 1,
                          !.free = SubSeq(@, 1, IF i = 0 THEN 0 ELSE i - 1)]

PictureReturns ==
    /\ \E size \in {0, 1} :
         /\ hwDecoder.out[size] > 0
         /\ hwDecoder' = [hwDecoder EXCEPT !.out[size] = @ - 1,
                              !.free = IF Len(@) < PictureCache THEN Append(@, size) ELSE @]
    /\ UNCHANGED <<hwEncoder, ffmpeg, hwProbe, hwEntry, handed>>

\* HwDecoder::Decode opens the context at the first packet.  A failure to open leaves nothing allocated
\* and is not tried again; FFmpeg failing on a packet of ours, or on a download, breaks it for good.
Decode ==
    /\ hwProbe.phase = "pipeline" /\ ~hwDecoder.broken
    /\ \/ /\ hwDecoder.ctx = "none" /\ ~hwDecoder.openFailed
          /\ hwDecoder' = [hwDecoder EXCEPT !.openFailed = TRUE, !.broken = TRUE]
       \/ /\ hwDecoder.ctx = "none" /\ ~hwDecoder.openFailed
          /\ hwDecoder' = [hwDecoder EXCEPT !.ctx = "open"]
       \/ /\ hwDecoder.ctx = "open"
          /\ hwDecoder' = [hwDecoder EXCEPT !.broken = TRUE]
       \/ /\ hwDecoder.ctx = "open" /\ hwDecoder.out[0] + hwDecoder.out[1] < MaxSent
          /\ \E size \in {0, 1} : PictureFor(size)
    /\ UNCHANGED <<hwEncoder, ffmpeg, hwProbe, hwEntry, handed>>

HwCodecNext ==
    \/ HwBreaks \/ Reorders \/ Drain
    \/ ProbeSend \/ ProbeCollect \/ ProbeGivesUp \/ ProbeChecks \/ ProbeDecodes \/ Reopen
    \/ PipelineSend \/ PipelineReceive \/ PipelineCloses \/ Decode \/ PictureReturns

-----------------------------------------------------------------------------
\* What the pipeline is handed as packet `seq` is the packet of its frame `seq`, or it is told that the
\* order broke: never the probe's last frame, however late that comes out.  Every key it is handed starts
\* a fresh decoder, also from an encoder that gives its parameter sets only once, in the probe.
PacketsAreThePipelines ==
    /\ Len(hwDecoder.free) <= PictureCache
    /\ handed.seq # NoSeq => handed.seq = handed.of
    /\ handed.key => handed.sets
=============================================================================
