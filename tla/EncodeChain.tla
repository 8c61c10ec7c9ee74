------------------------------ MODULE EncodeChain ------------------------------
(***************************************************************************)
(* The encode worker that may own an inter-frame encoder (worker 0 of      *)
(* codec-pipeline.cpp), with its bitstream bookkeeping (ChainTracker and   *)
(* InFlightQueue of storage-codec.hpp) and the packets it leaves in the    *)
(* ring: chains, seqs, keys, packets lost after their encode, encoders     *)
(* adopted, retired and failing, and new cycles.                           *)
(*                                                                         *)
(* The ring is its window in logical order (FrameRing shows why a slot     *)
(* stays put while it is undecided); captures are numbered, and a          *)
(* capture's number is its time. A packet also records ref, the capture    *)
(* its bitstream really references: the code does not know it, the         *)
(* properties compare what the code does with it.                          *)
(***************************************************************************)
EXTENDS RingSelect, SequencesExt

CONSTANTS SlotCount,     \* slots of the ring
          MaxCaptures,   \* bound: captures taken
          MaxEpochs,     \* bound: cycles (Attach)
          MaxFaults,     \* bound: faults of the encoder
          Latency        \* frames an asynchronous encoder holds at most

ASSUME ChainAssumption ==
    /\ SlotCount \in Nat \ {0} /\ MaxCaptures \in Nat
    /\ MaxEpochs \in Nat \ {0} /\ MaxFaults \in Nat /\ Latency \in Nat \ {0}

VARIABLES window,        \* the ring of this cycle, oldest first
          captured,      \* captures so far
          epoch,         \* epoch_
          epochStart,    \* captures taken before this cycle
          queue,         \* queue_: captures to encode
          job,           \* the EncodeOne under way: capture and epoch
          pc,            \* where the worker is
          encoder,       \* ctx.encoder: none, intra (the bridge) or inter
          chain,         \* ctx.chain
          chainEpoch,    \* ctx.chainEpoch
          nextChain,     \* g_nextChainId
          inFlight,      \* ctx.inFlight
          bitstream,     \* packets inside the encoder, in Send order
          lastSent,      \* the capture the encoder took last, 0 in a new session
          faults         \* faults so far

chainVars == <<chain, chainEpoch, nextChain>>
codecVars == <<encoder, inFlight, bitstream, lastSent, faults>>
ringVars == <<captured, epoch, epochStart, queue>>
encodeVars == <<window, ringVars, job, pc, codecVars, chainVars>>

NoChain == 0
NoJob == [capture |-> 0, epoch |-> 0]
Codecs == {"raw", "mjpeg", "inter"}
Tracker == [chain : Nat, nextSeq : Nat, wantKey : BOOLEAN, broken : BOOLEAN]
Slot == [captureNs : 1..captured, state : SlotState \ {"Free"}, codec : Codecs,
         key : BOOLEAN, chain : Nat, seq : Nat, ref : Nat]

EncodeTypeOK ==
    /\ window \in Seq(Slot) /\ Len(window) <= SlotCount
    /\ captured \in Nat /\ epoch \in 1..MaxEpochs /\ epochStart \in 0..captured
    /\ queue \in Seq(1..captured)
    /\ job \in [capture : 0..captured, epoch : 0..epoch]
    /\ pc \in {"idle", "retire", "choose", "send", "receive"}
    /\ encoder \in {"none", "intra", "inter"}
    /\ chain \in Tracker /\ chainEpoch \in 0..epoch /\ nextChain \in Nat \ {0}
    /\ inFlight \in Seq([capture : 1..captured, epoch : 1..epoch, chain : Nat, seq : Nat])
    /\ bitstream \in Seq([seq : Nat, key : BOOLEAN, ref : 0..captured])
    /\ lastSent \in 0..captured /\ faults \in 0..MaxFaults

EncodeInit ==
    /\ window = <<>> /\ captured = 0 /\ epoch = 1 /\ epochStart = 0 /\ queue = <<>>
    /\ job = NoJob /\ pc = "idle" /\ encoder = "none"
    /\ chain = [chain |-> NoChain, nextSeq |-> 0, wantKey |-> TRUE, broken |-> FALSE]
    /\ chainEpoch = 0 /\ nextChain = 1
    /\ inFlight = <<>> /\ bitstream = <<>> /\ lastSent = 0 /\ faults = 0
-----------------------------------------------------------------------------
(* ChainTracker. Names with an underscore are the bugs the runs must       *)
(* notice: each takes the place of the definition after it.                *)
Started_SameChain(id) == [chain |-> 1, nextSeq |-> 0, wantKey |-> TRUE, broken |-> FALSE]
Started(id) == [chain |-> id, nextSeq |-> 0, wantKey |-> TRUE, broken |-> FALSE]
CommitSend(c, forcedKey) ==
    [c EXCEPT !.nextSeq = @ + 1, !.wantKey = @ /\ ~forcedKey]
ShouldStore_All(c, key) == TRUE
ShouldStore(c, key) == ~c.broken \/ key
OnStored(c, key) == [c EXCEPT !.broken = @ /\ ~key]
OnLost_NoKey(c) == [c EXCEPT !.broken = TRUE]
OnLost(c) == [c EXCEPT !.broken = TRUE, !.wantKey = TRUE]
RequestKey(c) == [c EXCEPT !.wantKey = TRUE]

(* What the ring holds for a capture of cycle e; nothing of an older cycle *)
(* is read any more.                                                       *)
SlotOf(c) == CHOOSE slot \in ToSet(window) : slot.captureNs = c
Put(c, e, slot) ==
    IF e = epoch
    THEN [p \in DOMAIN window |-> IF window[p].captureNs = c THEN slot ELSE window[p]]
    ELSE window
Encode(slot) == [slot EXCEPT !.state = "Encoding"]
Drop_Nothing(slot) == slot
Drop(slot) == [slot EXCEPT !.state = "Dropped"]
StoreIntra(slot, codec) ==
    [slot EXCEPT !.state = "Ready", !.codec = codec, !.key = TRUE,
                 !.chain = IF codec = "raw" THEN NoChain ELSE chain.chain,
                 !.seq = IF codec = "raw" THEN 0 ELSE chain.nextSeq]
StorePacket(slot, sent, packet) ==
    [slot EXCEPT !.state = "Ready", !.codec = "inter", !.key = packet.key,
                 !.chain = sent.chain, !.seq = packet.seq, !.ref = packet.ref]

\* A job whose frame failed is stored raw, or dropped if the arena is full.
Fallback(c, e) ==
    \/ window' = Put(c, e, StoreIntra(SlotOf(c), "raw"))
    \/ window' = Put(c, e, Drop(SlotOf(c)))

(* The graphics thread: FrameRing::Reserve and SubmitEncode. A capture whose *)
(* readback failed, or for which no raw frame is free, is dropped instead.   *)
Capture(submitted) ==
    /\ captured < MaxCaptures
    /\ Len(window) = SlotCount => window[1].state \in Settled
    /\ captured' = captured + 1
    /\ window' = Append(IF Len(window) = SlotCount THEN Tail(window) ELSE window,
                        [captureNs |-> captured', codec |-> "raw", key |-> FALSE,
                         state |-> IF submitted THEN "Reserved" ELSE "Dropped",
                         chain |-> NoChain, seq |-> 0, ref |-> 0])
    /\ queue' = IF submitted THEN Append(queue, captured') ELSE queue
    /\ UNCHANGED <<epoch, epochStart, job, pc, codecVars, chainVars>>

\* Attach: another ring; the jobs of the old one are thrown away.
NewCycle ==
    /\ epoch < MaxEpochs /\ captured > epochStart
    /\ epoch' = epoch + 1
    /\ epochStart' = captured
    /\ window' = <<>> /\ queue' = <<>>
    /\ UNCHANGED <<captured, job, pc, codecVars, chainVars>>

(* The worker: EncodeLoop takes a job or finds the inter encoder unwanted. *)
\* retire: not wanted any more (an intra target, a yield) or of another size.
TakeJob(retire) ==
    /\ pc = "idle" /\ queue # <<>>
    /\ retire => encoder = "inter"
    /\ job' = [capture |-> Head(queue), epoch |-> epoch]
    /\ queue' = Tail(queue)
    /\ window' = Put(Head(queue), epoch, Encode(SlotOf(Head(queue))))
    /\ pc' = IF retire THEN "retire" ELSE "choose"
    /\ UNCHANGED <<captured, epoch, epochStart, codecVars, chainVars>>

RetireIdle ==
    /\ pc = "idle" /\ encoder = "inter"
    /\ pc' = "retire"
    /\ UNCHANGED <<window, ringVars, job, codecVars, chainVars>>

\* DropInFlight: every capture still in the encoder is lost.
DropInFlight ==
    LET lost == {inFlight[i].capture : i \in {j \in DOMAIN inFlight : inFlight[j].epoch = epoch}}
    IN  window' = [p \in DOMAIN window |->
                      IF window[p].captureNs \in lost THEN Drop(window[p]) ELSE window[p]]

\* The end of RetireInter: what did not come out in time is lost.
FinishRetire ==
    /\ pc = "retire"
    /\ DropInFlight
    /\ encoder' = "none" /\ inFlight' = <<>> /\ bitstream' = <<>> /\ lastSent' = 0
    /\ pc' = IF job = NoJob THEN "idle" ELSE "choose"
    /\ UNCHANGED <<ringVars, job, faults, chainVars>>

\* CloseEncoder on Disable: nothing is drained.
CloseEncoder ==
    /\ pc = "idle" /\ encoder # "none"
    /\ DropInFlight
    /\ encoder' = "none" /\ inFlight' = <<>> /\ bitstream' = <<>> /\ lastSent' = 0
    /\ UNCHANGED <<ringVars, job, pc, faults, chainVars>>

\* ChooseInterEncoder, then the chain: another session or cycle starts one.
\* resized: the intra encoder is replaced by one of the frame's size.
RestartsChain(fresh) == fresh \/ chainEpoch # job.epoch
ChooseEncoder(adopt, resized) ==
    LET fresh == encoder = "none" \/ adopt \/ resized
    IN  /\ pc = "choose"
        /\ adopt => encoder # "inter"
        /\ resized => encoder = "intra"
        /\ encoder' = IF adopt THEN "inter" ELSE IF encoder = "none" THEN "intra" ELSE encoder
        /\ lastSent' = IF fresh THEN 0 ELSE lastSent
        /\ IF RestartsChain(fresh)
           THEN /\ chain' = Started(nextChain)
                /\ nextChain' = nextChain + 1
                /\ chainEpoch' = job.epoch
           ELSE UNCHANGED chainVars
        /\ pc' = "send"
        /\ UNCHANGED <<window, ringVars, job, inFlight, bitstream, faults>>

\* The intra encoder: its packet comes out at once, usable or not.
SendIntra ==
    /\ pc = "send" /\ encoder = "intra"
    /\ \/ window' = Put(job.capture, job.epoch, StoreIntra(SlotOf(job.capture), "mjpeg"))
       \/ Fallback(job.capture, job.epoch)
    /\ chain' = CommitSend(chain, chain.wantKey)
    /\ pc' = "idle" /\ job' = NoJob
    /\ UNCHANGED <<ringVars, codecVars, chainEpoch, nextChain>>

\* natural: the encoder makes it a key although none was asked for.
SendInter(natural) ==
    LET key == chain.wantKey \/ natural
    IN  /\ pc = "send" /\ encoder = "inter"
        /\ Len(bitstream) < Latency
        /\ inFlight' = Append(inFlight, [capture |-> job.capture, epoch |-> job.epoch,
                                         chain |-> chain.chain, seq |-> chain.nextSeq])
        /\ bitstream' = Append(bitstream, [seq |-> chain.nextSeq, key |-> key,
                                           ref |-> IF key THEN 0 ELSE lastSent])
        /\ lastSent' = job.capture
        /\ chain' = CommitSend(chain, chain.wantKey)
        /\ pc' = "receive" /\ job' = NoJob
        /\ UNCHANGED <<window, ringVars, encoder, faults, chainEpoch, nextChain>>

\* Busy: the capture never enters the bitstream.
SendBusy ==
    /\ pc = "send" /\ encoder = "inter"
    /\ window' = Put(job.capture, job.epoch, Drop(SlotOf(job.capture)))
    /\ pc' = "idle" /\ job' = NoJob
    /\ UNCHANGED <<ringVars, codecVars, chainVars>>

SendFails ==
    /\ pc = "send"
    /\ Fallback(job.capture, job.epoch)
    /\ chain' = IF encoder = "inter" THEN RequestKey(chain) ELSE chain
    /\ pc' = "idle" /\ job' = NoJob
    /\ UNCHANGED <<ringVars, codecVars, chainEpoch, nextChain>>

Receiving == pc \in {"idle", "receive", "retire"} /\ bitstream # <<>>
InOrder == inFlight # <<>> /\ Head(inFlight).seq = Head(bitstream).seq

\* StorePacket: a packet that matches the oldest frame in flight is stored,
\* lost (its bytes unusable, the arena full) or left out, an orphan.
Receive(lost) ==
    LET sent    == Head(inFlight)
        packet  == Head(bitstream)
        tracked == sent.chain = chain.chain
        stored  == ~lost /\ (tracked => ShouldStore(chain, packet.key))
    IN  /\ Receiving /\ InOrder
        /\ window' = IF stored
                     THEN Put(sent.capture, sent.epoch, StorePacket(SlotOf(sent.capture), sent, packet))
                     ELSE Put(sent.capture, sent.epoch, Drop(SlotOf(sent.capture)))
        /\ chain' = IF ~tracked THEN chain
                    ELSE IF lost THEN OnLost(chain)
                    ELSE IF stored THEN OnStored(chain, packet.key) ELSE chain
        /\ inFlight' = Tail(inFlight) /\ bitstream' = Tail(bitstream)
        /\ UNCHANGED <<ringVars, job, pc, encoder, lastSent, faults, chainEpoch, nextChain>>

EndReceive ==
    /\ pc = "receive"
    /\ bitstream # <<>> => InOrder
    /\ pc' = "idle"
    /\ UNCHANGED <<window, ringVars, job, codecVars, chainVars>>

\* FailInter: a packet out of order, an error of the encoder or a stall.
FailInter ==
    /\ pc \in {"idle", "receive"} /\ encoder = "inter"
    /\ \/ bitstream # <<>> /\ ~InOrder /\ faults' = faults
       \/ Len(inFlight) >= 2 /\ bitstream = <<>> /\ faults' = faults
       \/ faults < MaxFaults /\ faults' = faults + 1
    /\ DropInFlight
    /\ encoder' = "none" /\ inFlight' = <<>> /\ bitstream' = <<>> /\ lastSent' = 0
    /\ pc' = "idle"
    /\ UNCHANGED <<ringVars, job, chainVars>>

(* The encoder, external: it may swallow a packet it owed. *)
LosePacket ==
    /\ faults < MaxFaults
    /\ bitstream # <<>>
    /\ bitstream' = Tail(bitstream)
    /\ faults' = faults + 1
    /\ UNCHANGED <<window, ringVars, job, pc, encoder, inFlight, lastSent, chainVars>>

EncodeNext ==
    \/ \E submitted \in BOOLEAN : Capture(submitted)
    \/ NewCycle
    \/ \E retire \in BOOLEAN : TakeJob(retire)
    \/ RetireIdle
    \/ FinishRetire
    \/ CloseEncoder
    \/ \E adopt, resized \in BOOLEAN : ChooseEncoder(adopt, resized)
    \/ SendIntra
    \/ \E natural \in BOOLEAN : SendInter(natural)
    \/ SendBusy
    \/ SendFails
    \/ \E lost \in BOOLEAN : Receive(lost)
    \/ EndReceive
    \/ FailInter
    \/ LosePacket
-----------------------------------------------------------------------------
(* Properties. *)
InterFrames == {p \in DOMAIN window : IsReady(window[p]) /\ window[p].codec = "inter"}

\* No P-frame is in the ring unless the packet its bitstream references was
\* stored there too and was not dropped: what the decoder meets next in the
\* chain is what the encoder referenced (invariant I3 of storage-codec.hpp).
NoOrphanStored ==
    \A p \in InterFrames : ~window[p].key =>
        LET ref == window[p].ref
        IN  /\ ref > epochStart
            /\ ref >= window[1].captureNs =>
                   \E q \in InterFrames : window[q].captureNs = ref

\* A chain broken by a lost packet is being mended: the next frame will be
\* forced to a key, or a key is already inside the encoder. Otherwise the
\* packets would be dropped as orphans, the picture frozen, until the encoder
\* makes a key of its own (ChainTracker::OnLost, CommitSend).
BrokenChainMends ==
    chain.broken /\ encoder = "inter" =>
        \/ chain.wantKey
        \/ \E i \in DOMAIN bitstream : bitstream[i].key
        \/ bitstream # <<>> /\ ~InOrder
        \/ Len(inFlight) > Len(bitstream)

\* Two frames are consecutive in their chain exactly when the later one's
\* bitstream references the earlier one, and inside a chain the packets follow
\* the order of the captures: chain and seq tell the decoder the truth across
\* losses, retries, encoders and cycles (invariants I1 and I2). The packet
\* referenced is there, and a chain that lost one mends.
SeqTellsReference ==
    /\ NoOrphanStored /\ BrokenChainMends
    /\ \A p, q \in InterFrames :
        /\ ~window[q].key =>
               (window[q].ref = window[p].captureNs <=>
                   window[q].chain = window[p].chain /\ window[q].seq = window[p].seq + 1)
        /\ p < q /\ window[p].chain = window[q].chain => window[p].seq < window[q].seq

\* Every undecided capture of the ring has one holder that will decide it: the
\* queue, the job under way or the frames in flight, each in capture order
\* (EncodeOne, StorePacket, DropInFlight on every way out).
UndecidedIsHeldOnce ==
    LET inEncoder == [i \in DOMAIN inFlight |-> inFlight[i].capture]
        underWay  == IF job = NoJob THEN <<>> ELSE <<job.capture>>
        holders   == inEncoder \o underWay \o queue
    IN  /\ \A i, j \in DOMAIN holders : i < j => holders[i] < holders[j]
        /\ \A p \in DOMAIN window :
               window[p].state \in Undecided <=> window[p].captureNs \in ToSet(holders)
=============================================================================
