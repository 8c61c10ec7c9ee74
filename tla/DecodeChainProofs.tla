-------------------------- MODULE DecodeChainProofs --------------------------
(***************************************************************************)
(* Proofs about DecodeChain and the EncodeChain under it, for every ring,  *)
(* latency of the encoder, cost of a decode, and bound on captures,        *)
(* cycles and faults.                                                      *)
(*                                                                         *)
(* The argument runs from the encoder to the decoder. Captures are held,   *)
(* in order, by the frames in flight, the job and the queue; so what is    *)
(* sent, and what is stored, comes later than all that was sent and        *)
(* stored before (HoldersInOrder, ChainsInOrder). The packets still in the *)
(* encoder belong to the frames sent last, and each P-frame among them     *)
(* references the frame sent right before it (PacketsFollow), which is in  *)
(* flight, or was received and is then a frame of the ring unless its loss *)
(* broke the chain. A P-frame that is stored therefore has its reference   *)
(* in the ring and is the only one that comes next after it in its chain   *)
(* (KnownFollow). The frame the decoder holds may have left the ring, so   *)
(* it is one of the frames Known.                                          *)
(***************************************************************************)
EXTENDS DecodeChain, WellFoundedInduction, TLAPS

-----------------------------------------------------------------------------
(* What is selected from a window is a Ready slot of it. *)

\* A nonempty set of naturals has a least element: < is well founded.
LEMMA NonemptyHasLeast ==
    ASSUME NEW S, S \subseteq Nat, S # {}
    PROVE  \E m \in S : \A n \in S : m <= n
<1> DEFINE R == {p \in Nat \X Nat : p[1] < p[2]}
<1>1. IsWellFoundedOn(R, Nat)
  BY NatLessThanWellFounded, Zenon DEF OpToRel
<1>2. PICK x \in S : \A y \in S : ~(<<y, x>> \in R)
  BY <1>1, WFMin, Zenon
<1>3. ASSUME NEW y \in S PROVE x <= y
  <2>1. <<y, x>> \notin R
    BY <1>2
  <2>2. ~(y < x)
    BY <2>1
  <2> QED BY <2>2
<1> QED
  BY <1>3

\* A nonempty subset of 1..n has a maximum.
LEMMA MaxInSet ==
    ASSUME NEW n \in Nat, NEW S, S \subseteq 1..n, S # {}
    PROVE  Max(S) \in S /\ \A x \in S : x <= Max(S)
<1> DEFINE T == {n - x : x \in S}
<1>1. PICK m \in T : \A t \in T : m <= t
  <2>0. ASSUME NEW x \in S PROVE n - x \in Nat
    OBVIOUS
  <2>1. T \subseteq Nat
    BY <2>0
  <2>2. T # {}
    OBVIOUS
  <2> HIDE DEF T
  <2> QED BY <2>1, <2>2, NonemptyHasLeast
<1>2. PICK x \in S : m = n - x
  OBVIOUS
<1>3. ASSUME NEW y \in S PROVE x >= y
  <2>1. n - y \in T
    OBVIOUS
  <2>2. m <= n - y
    BY <2>1, <1>1
  <2> QED BY <2>2, <1>2
<1> QED
  BY <1>3 DEF Max

\* A nonempty set of naturals has a minimum.
LEMMA MinInSet ==
    ASSUME NEW S, S \subseteq Nat, S # {}
    PROVE  Min(S) \in S /\ \A x \in S : Min(S) <= x
  BY NonemptyHasLeast DEF Min

\* What SelectForDisplay returns is a Ready slot of the window, or none.
LEMMA DisplayIsReady ==
    ASSUME NEW w, Len(w) \in Nat, NEW aimNs, NEW maxBack
    PROVE  LET p == SelectForDisplay(w, aimNs, maxBack)
           IN  p # 0 => p \in 1..Len(w) /\ IsReady(w[p])
<1> DEFINE due   == LastAtOrBefore(w, aimNs)
           ready == {p \in 1..Len(w) : due - maxBack <= p /\ p <= due /\ IsReady(w[p])}
<1>1. SelectForDisplay(w, aimNs, maxBack) = IF ready = {} THEN 0 ELSE Max(ready)
  BY Zenon DEF SelectForDisplay
<1>2. ready # {} => Max(ready) \in ready
  <2>1. ready \subseteq 1..Len(w)
    OBVIOUS
  <2> HIDE DEF ready
  <2> QED BY <2>1, MaxInSet
<1> QED
  BY <1>1, <1>2

\* So is what PinNextInRange pins.
LEMMA RangeIsReady ==
    ASSUME NEW w, Len(w) \in Nat, NEW sinceNs, NEW untilNs
    PROVE  LET p == NextInRange(w, sinceNs, untilNs)
           IN  p # 0 => p \in 1..Len(w) /\ IsReady(w[p])
<1> DEFINE ready == {p \in 1..Len(w) :
                        /\ p > LastAtOrBefore(w, sinceNs)
                        /\ IsReady(w[p])
                        /\ sinceNs < w[p].captureNs /\ w[p].captureNs <= untilNs}
<1>1. NextInRange(w, sinceNs, untilNs) = IF ready = {} THEN 0 ELSE Min(ready)
  BY Zenon DEF NextInRange
<1>2. ready # {} => Min(ready) \in ready
  <2>1. ready \subseteq Nat
    OBVIOUS
  <2> HIDE DEF ready
  <2> QED BY <2>1, MinInSet
<1> QED
  BY <1>1, <1>2

\* And what PinNextForDecode pins.
LEMMA DecodeIsReady ==
    ASSUME NEW w, Len(w) \in Nat, NEW sinceNs, NEW aimNs, NEW windowEndNs, NEW lateNs, NEW maxBack
    PROVE  LET p == NextForDecode(w, sinceNs, aimNs, windowEndNs, lateNs, maxBack)
           IN  p # 0 => p \in 1..Len(w) /\ IsReady(w[p])
<1> DEFINE jump == IF sinceNs + lateNs < aimNs
                   THEN SelectForDisplay(w, aimNs, maxBack) ELSE 0
           stops == {p \in 1..Len(w) :
                        /\ p > LastAtOrBefore(w, sinceNs)
                        /\ ~PassedOver(w[p], aimNs, windowEndNs)}
           next == IF stops = {} THEN 0 ELSE Min(stops)
<1>1. NextForDecode(w, sinceNs, aimNs, windowEndNs, lateNs, maxBack) =
          IF jump # 0 /\ w[jump].captureNs > sinceNs THEN jump
          ELSE IF next # 0 /\ IsReady(w[next]) /\ w[next].captureNs <= windowEndNs
               THEN next ELSE 0
  BY Zenon DEF NextForDecode
<1>2. jump # 0 => jump \in 1..Len(w) /\ IsReady(w[jump])
  BY DisplayIsReady
<1>3. next # 0 => next \in 1..Len(w)
  <2>1. stops \subseteq Nat /\ stops \subseteq 1..Len(w)
    OBVIOUS
  <2> HIDE DEF stops
  <2> QED BY <2>1, MinInSet
<1> HIDE DEF jump, next
<1> QED
  BY <1>1, <1>2, <1>3

-----------------------------------------------------------------------------
(* The inductive invariant. *)

AnySlot == [captureNs : Nat, state : SlotState, codec : Codecs, key : BOOLEAN, chain : Nat, seq : Nat,
            ref : Nat]
Sent == [capture : Nat, epoch : Nat, chain : Nat, seq : Nat]
Packet == [seq : Nat, key : BOOLEAN, ref : Nat]

\* The shapes, and where the worker has a job.
WorkerTypes ==
    /\ window \in Seq(AnySlot) /\ queue \in Seq(Nat)
    /\ inFlight \in Seq(Sent) /\ bitstream \in Seq(Packet)
    /\ captured \in Nat /\ epoch \in Nat \ {0} /\ epochStart \in Nat
    /\ job \in [capture : Nat, epoch : Nat]
    /\ encoder \in {"none", "intra", "inter"} /\ chain \in Tracker
    /\ chainEpoch \in Nat /\ nextChain \in Nat \ {0} /\ lastSent \in Nat
    /\ pc \in {"idle", "retire", "choose", "send", "receive"}
    /\ pc \in {"choose", "send"} => job # NoJob
    /\ pc \in {"idle", "receive"} => job = NoJob
    /\ encoder # "inter" => inFlight = <<>> /\ bitstream = <<>>

\* Captures the ring does not hold any more; the window is the rest, one slot each.
Gone == captured - Len(window)
RingInOrder ==
    /\ epochStart <= Gone
    /\ \A p \in DOMAIN window : window[p].captureNs = Gone + p

\* The holders of captures, each later than those before it.
HoldersInOrder ==
    /\ \A i, j \in DOMAIN inFlight : i < j => inFlight[i].capture < inFlight[j].capture
    /\ \A i \in DOMAIN inFlight :
          /\ inFlight[i].capture \in 1..captured
          /\ job # NoJob => inFlight[i].capture < job.capture
          /\ \A k \in DOMAIN queue : inFlight[i].capture < queue[k]
    /\ job # NoJob => job.capture \in 1..captured /\ \A k \in DOMAIN queue : job.capture < queue[k]
    /\ \A k \in DOMAIN queue : queue[k] \in 1..captured
    /\ \A k, l \in DOMAIN queue : k < l => queue[k] < queue[l]

\* A holder of this cycle has its capture in the ring, undecided; the others are of older cycles.
Holds(c) ==
    \/ \E i \in DOMAIN inFlight : inFlight[i].capture = c
    \/ job # NoJob /\ job.capture = c
    \/ \E k \in DOMAIN queue : queue[k] = c
HoldersAreTheUndecided ==
    /\ \A p \in DOMAIN window : window[p].state \in Undecided <=> Holds(window[p].captureNs)
    /\ \A c \in 1..captured : Holds(c) /\ c > epochStart => c > Gone
    /\ \A k \in DOMAIN queue : queue[k] > epochStart
    /\ job.epoch <= epoch /\ (job # NoJob => (job.epoch = epoch <=> job.capture > epochStart))
    /\ \A i \in DOMAIN inFlight : inFlight[i].epoch <= epoch
                                  /\ (inFlight[i].epoch = epoch <=> inFlight[i].capture > epochStart)

\* Chains are numbered in the order they start, one for a session of the encoder in a cycle.
ChainsInOrder ==
    /\ chain.chain < nextChain /\ chainEpoch <= epoch
    /\ job # NoJob => chainEpoch <= job.epoch
    /\ pc = "send" => chainEpoch = job.epoch
    /\ \A i \in DOMAIN inFlight :
          /\ inFlight[i].epoch <= chainEpoch /\ inFlight[i].chain <= chain.chain
          /\ inFlight[i].epoch = chainEpoch <=> inFlight[i].chain = chain.chain
          /\ inFlight[i].chain = chain.chain => inFlight[i].seq < chain.nextSeq
    /\ \A i, j \in DOMAIN inFlight : i < j =>
          /\ inFlight[i].chain <= inFlight[j].chain
          /\ inFlight[i].chain = inFlight[j].chain => inFlight[i].seq < inFlight[j].seq

\* The packets not yet received are of the frames sent last; Lost of them were swallowed.
Lost == Len(inFlight) - Len(bitstream)
\* A reference is to what was sent before.
SentBefore ==
    /\ Len(bitstream) <= Len(inFlight)
    /\ \A i \in DOMAIN bitstream :
          bitstream[i].seq = inFlight[Lost + i].seq /\ bitstream[i].ref < inFlight[Lost + i].capture
    /\ lastSent <= captured
    /\ job # NoJob => lastSent < job.capture
    /\ \A k \in DOMAIN queue : lastSent < queue[k]

\* The inter frames anyone still knows: those of the ring and the one the decoder has.
Frame(slot) == [captureNs |-> slot.captureNs, chain |-> slot.chain, seq |-> slot.seq]
Held == IF cursor.valid /\ decodeEpoch = epoch
        THEN {[captureNs |-> reference.capture, chain |-> cursor.chain, seq |-> cursor.seq]} ELSE {}
Frames == {window[p] : p \in InterFrames}
Known == {Frame(f) : f \in Frames} \cup Held

\* They are of this cycle, from before the frames in flight, and in order.
Placed(k) ==
    /\ k.captureNs \in epochStart + 1..captured /\ k.chain < nextChain
    /\ job # NoJob => k.captureNs < job.capture
    /\ \A n \in DOMAIN queue : k.captureNs < queue[n]
    /\ k.chain = chain.chain => k.seq < chain.nextSeq
    /\ \A i \in DOMAIN inFlight :
          /\ k.captureNs < inFlight[i].capture
          /\ k.chain = inFlight[i].chain => k.seq < inFlight[i].seq
Agree(k, l) ==
    /\ k.captureNs = l.captureNs => k.chain = l.chain /\ k.seq = l.seq
    /\ k.captureNs < l.captureNs /\ k.chain = l.chain => k.seq < l.seq
KnownInOrder ==
    /\ \A k \in Known : Placed(k)
    /\ \A k, l \in Known : Agree(k, l)

\* A P-frame that references r is the next one of its chain after r.
NextAfter(r, c, s) == \A k \in Known : k.captureNs = r <=> k.chain = c /\ k.seq + 1 = s
\* The ring has r, or had.
InRing(r) == r > epochStart /\ (r > Gone => \E f \in Frames : f.captureNs = r)
KnownFollow ==
    \A f \in Frames : ~f.key =>
        /\ f.ref < f.captureNs /\ InRing(f.ref)
        /\ NextAfter(f.ref, f.chain, f.seq)

\* A packet in flight, or the next one sent, follows the frame sent before it; when that one was
\* received already, it is known unless it broke the chain.
Follows(r, c, s, j) ==
    IF j > 1 THEN inFlight[j - 1].capture = r /\ inFlight[j - 1].chain = c /\ inFlight[j - 1].seq + 1 = s
    ELSE (~chain.broken => InRing(r)) /\ NextAfter(r, c, s)
PacketFollows(i) ==
    LET sent == inFlight[Lost + i]
    IN  ~bitstream[i].key /\ sent.epoch = epoch => Follows(bitstream[i].ref, sent.chain, sent.seq, Lost + i)
NextFollows ==
    ~chain.wantKey /\ encoder = "inter" /\ chainEpoch = epoch =>
        Follows(lastSent, chain.chain, chain.nextSeq, Len(inFlight) + 1)
PacketsFollow == NextFollows /\ \A i \in DOMAIN bitstream : PacketFollows(i)

\* A broken chain is the one everything in flight belongs to, and a key is on its way or will be forced.
BrokenIsMended ==
    chain.broken /\ encoder = "inter" =>
        /\ \A i \in DOMAIN inFlight : inFlight[i].chain = chain.chain
        /\ chain.wantKey \/ Lost > 0 \/ \E i \in DOMAIN bitstream : bitstream[i].key

\* The decoder's cursor is the packet it holds.
CursorIsReference ==
    /\ cursor \in [valid : BOOLEAN, chain : Nat, seq : Nat]
    /\ reference \in [capture : Nat, key : BOOLEAN, ref : Nat]
    /\ decodeEpoch \in Nat /\ decodeEpoch <= epoch
    /\ cursor.valid <=> reference # Nothing

RingSound == WorkerTypes /\ RingInOrder /\ HoldersInOrder /\ HoldersAreTheUndecided
ChainInvariant ==
    /\ RingSound
    /\ ChainsInOrder /\ SentBefore /\ KnownInOrder /\ KnownFollow /\ PacketsFollow /\ BrokenIsMended
    /\ CursorIsReference
-----------------------------------------------------------------------------
(* The ring: where a capture's slot is. *)

LEMMA SlotPlace ==
    ASSUME WorkerTypes, RingInOrder, NEW c \in Gone + 1..captured
    PROVE  /\ c - Gone \in 1..Len(window) /\ window[c - Gone].captureNs = c
           /\ \A p \in 1..Len(window) : window[p].captureNs = c => p = c - Gone
           /\ SlotOf(c) = window[c - Gone]
<1>0. /\ Len(window) \in Nat /\ DOMAIN window = 1..Len(window) /\ Gone \in Nat /\ captured \in Nat
      /\ \A p \in 1..Len(window) : window[p].captureNs = Gone + p
  BY DEF WorkerTypes, RingInOrder, Gone
<1>1. c - Gone \in 1..Len(window)
  BY <1>0 DEF Gone
<1>2. window[c - Gone].captureNs = c /\ \A p \in 1..Len(window) : window[p].captureNs = c => p = c - Gone
  BY <1>0, <1>1
<1>3. ToSet(window) = {window[p] : p \in 1..Len(window)}
  BY <1>0 DEF ToSet, Range
<1>4. SlotOf(c) = window[c - Gone]
  BY <1>1, <1>2, <1>3 DEF SlotOf
<1> QED
  BY <1>1, <1>2, <1>4

\* Another slot for a capture of this cycle.
Replaced(c, slot) ==
    /\ c \in Gone + 1..captured /\ slot \in AnySlot /\ slot.captureNs = c
    /\ window' = [window EXCEPT ![c - Gone] = slot]

LEMMA PutReplaces ==
    ASSUME WorkerTypes, RingInOrder, NEW c \in Gone + 1..captured, NEW slot \in AnySlot, slot.captureNs = c,
           window' = Put(c, epoch, slot)
    PROVE  Replaced(c, slot)
<1>1. /\ c - Gone \in 1..Len(window) /\ window[c - Gone].captureNs = c
      /\ \A p \in 1..Len(window) : window[p].captureNs = c => p = c - Gone
  BY SlotPlace
<1>2. window' = [p \in DOMAIN window |-> IF window[p].captureNs = c THEN slot ELSE window[p]]
  BY DEF Put
<1>3. DOMAIN window = 1..Len(window) /\ window = [p \in DOMAIN window |-> window[p]]
  BY DEF WorkerTypes
<1>4. window' = [window EXCEPT ![c - Gone] = slot]
  BY <1>1, <1>2, <1>3
<1> QED
  BY <1>4 DEF Replaced

LEMMA PutOfOlder ==
    ASSUME NEW c, NEW e, NEW slot, e # epoch
    PROVE  Put(c, e, slot) = window
BY DEF Put

LEMMA AfterReplaced ==
    ASSUME WorkerTypes, RingInOrder, NEW c, NEW slot, Replaced(c, slot), captured' = captured, epochStart' = epochStart
    PROVE  /\ window' \in Seq(AnySlot) /\ Len(window') = Len(window) /\ DOMAIN window' = 1..Len(window)
           /\ Gone' = Gone /\ RingInOrder'
           /\ \A p \in 1..Len(window) : window'[p] = IF p = c - Gone THEN slot ELSE window[p]
<1>0. /\ Len(window) \in Nat /\ DOMAIN window = 1..Len(window) /\ window \in Seq(AnySlot) /\ Gone \in Nat
  BY DEF WorkerTypes, RingInOrder, Gone
<1>1. c - Gone \in 1..Len(window)
  BY SlotPlace DEF Replaced
<1>2. window' \in Seq(AnySlot) /\ Len(window') = Len(window) /\ DOMAIN window' = 1..Len(window)
      /\ \A p \in 1..Len(window) : window'[p] = IF p = c - Gone THEN slot ELSE window[p]
  <2>1. slot \in AnySlot /\ window' = [window EXCEPT ![c - Gone] = slot]
    BY DEF Replaced
  <2>2. \A p \in 1..Len(window) : window[p] \in AnySlot
    BY <1>0
  <2> HIDE DEF AnySlot
  <2> QED
    BY <1>0, <1>1, <2>1, <2>2
<1>3. Gone' = Gone
  BY <1>2 DEF Gone
<1>4. RingInOrder'
  BY <1>0, <1>1, <1>2, <1>3 DEF RingInOrder, Replaced
<1> QED
  BY <1>2, <1>3, <1>4

\* What is held in this cycle is in the ring.
LEMMA HolderInRing ==
    ASSUME RingSound, NEW c, Holds(c), c > epochStart
    PROVE  c \in Gone + 1..captured /\ window[c - Gone].state \in Undecided
<1>1. c \in 1..captured
  BY DEF Holds, HoldersInOrder, RingSound
<1>2. c > Gone
  BY <1>1 DEF HoldersAreTheUndecided, RingSound
<1>3. c \in Gone + 1..captured
  BY <1>1, <1>2 DEF WorkerTypes, RingInOrder, Gone, RingSound
<1>4. window[c - Gone].captureNs = c /\ c - Gone \in DOMAIN window
  BY <1>3, SlotPlace DEF WorkerTypes, RingSound
<1> QED
  BY <1>3, <1>4 DEF HoldersAreTheUndecided, RingSound

\* The slot of a capture that is held.
LEMMA HeldSlot ==
    ASSUME RingSound, NEW c, Holds(c), c > epochStart
    PROVE  SlotOf(c) \in AnySlot /\ SlotOf(c).captureNs = c /\ SlotOf(c).state \in Undecided
<1>1. c \in Gone + 1..captured /\ window[c - Gone].state \in Undecided
  BY HolderInRing
<1>2. c - Gone \in 1..Len(window) /\ window[c - Gone].captureNs = c /\ SlotOf(c) = window[c - Gone]
  BY <1>1, SlotPlace DEF RingSound
<1> HIDE DEF AnySlot
<1>3. window \in Seq(AnySlot)
  BY DEF RingSound, WorkerTypes
<1> QED
  BY <1>1, <1>2, <1>3

\* The captures of S are decided, nothing else in the ring changes.
Settles(S) ==
    /\ window' \in Seq(AnySlot) /\ Len(window') = Len(window)
    /\ \A p \in 1..Len(window) :
          /\ window'[p].captureNs = window[p].captureNs
          /\ window[p].captureNs \in S => window[p].state \in Undecided /\ window'[p].state \in Settled
          /\ window[p].captureNs \notin S => window'[p] = window[p]

LEMMA PutSettles ==
    ASSUME RingSound, NEW c, Holds(c), NEW e, e = epoch <=> c > epochStart, NEW slot, window' = Put(c, e, slot),
           captured' = captured, epochStart' = epochStart,
           e = epoch => slot \in AnySlot /\ slot.captureNs = c /\ slot.state \in Settled
    PROVE  Settles({c}) /\ \A p \in 1..Len(window) : window[p].captureNs = c => window'[p] = slot
<1>0. /\ window \in Seq(AnySlot) /\ DOMAIN window = 1..Len(window) /\ Len(window) \in Nat
      /\ Gone \in Nat /\ captured \in Nat /\ epochStart \in Nat /\ epochStart <= Gone
      /\ \A p \in 1..Len(window) : window[p].captureNs = Gone + p
  BY DEF RingSound, WorkerTypes, RingInOrder, Gone
<1>1. CASE e = epoch
  <2>1. c \in Gone + 1..captured /\ window[c - Gone].state \in Undecided
    BY <1>1, HolderInRing
  <2>2. Replaced(c, slot)
    BY <1>1, <2>1, PutReplaces DEF RingSound
  <2>3. /\ window' \in Seq(AnySlot) /\ Len(window') = Len(window)
        /\ \A p \in 1..Len(window) : window'[p] = IF p = c - Gone THEN slot ELSE window[p]
    BY <2>2, AfterReplaced DEF RingSound
  <2>4. slot.captureNs = c /\ slot.state \in Settled
    BY <1>1
  <2>5. c \in Nat
    BY <1>0, <2>1
  <2>6. \A p \in 1..Len(window) : window[p].captureNs = c <=> p = c - Gone
    BY <1>0, <2>1, <2>5
  <2> HIDE DEF AnySlot
  <2> QED
    BY <1>0, <2>1, <2>3, <2>4, <2>6 DEF Settles
<1>2. CASE e # epoch
  <2>1. window' = window
    BY <1>2, PutOfOlder
  <2>2. c \in Nat /\ c <= epochStart
    BY <1>2, <1>0 DEF RingSound, HoldersInOrder, Holds
  <2>3. \A p \in 1..Len(window) : window[p].captureNs # c
    BY <1>0, <2>2
  <2> HIDE DEF AnySlot
  <2> QED
    BY <1>0, <2>1, <2>3 DEF Settles
<1> QED
  BY <1>1, <1>2

\* The frames of the ring when only captures that become no frame are decided.
LEMMA FramesKept ==
    ASSUME RingSound, NEW S, Settles(S), captured' = captured, epochStart' = epochStart,
           \A p \in 1..Len(window) : window[p].captureNs \in S => ~IsReady(window'[p]) \/ window'[p].codec # "inter"
    PROVE  Frames' = Frames /\ Gone' = Gone /\ RingInOrder'
<1>v. window' \in Seq(AnySlot) /\ Len(window') = Len(window)
  BY DEF Settles
<1>w. DOMAIN window' = 1..Len(window)
  BY <1>v
<1>0. /\ DOMAIN window = 1..Len(window) /\ Len(window) \in Nat /\ DOMAIN window' = 1..Len(window)
      /\ Gone \in Nat /\ captured \in Nat /\ epochStart \in Nat /\ epochStart <= Gone
      /\ \A p \in 1..Len(window) : window[p].captureNs = Gone + p
  BY <1>w DEF RingSound, WorkerTypes, RingInOrder, Gone
<1>1. Gone' = Gone
  BY DEF Gone, Settles
<1>2. RingInOrder'
  BY <1>0, <1>1 DEF RingInOrder, Settles
<1>3. \A p \in 1..Len(window) : p \in InterFrames' <=> p \in InterFrames
  BY <1>0 DEF InterFrames, Settles, IsReady, Undecided
<1>4. InterFrames' = InterFrames
  <2>1. InterFrames \subseteq 1..Len(window) /\ InterFrames' \subseteq 1..Len(window)
    BY <1>0 DEF InterFrames
  <2> QED BY <1>3, <2>1
<1>5. \A p \in InterFrames : window'[p] = window[p]
  BY <1>0 DEF InterFrames, Settles, IsReady, Undecided
<1> QED
  BY <1>1, <1>2, <1>4, <1>5 DEF Frames

\* And when one becomes a frame.
LEMMA FrameAdded ==
    ASSUME RingSound, NEW c, c \in Gone + 1..captured, NEW slot, Settles({c}),
           captured' = captured, epochStart' = epochStart, IsReady(slot), slot.codec = "inter",
           \A p \in 1..Len(window) : window[p].captureNs = c => window'[p] = slot
    PROVE  Frames' = Frames \cup {slot} /\ Gone' = Gone /\ RingInOrder'
<1>v. window' \in Seq(AnySlot) /\ Len(window') = Len(window)
  BY DEF Settles
<1>w. DOMAIN window' = 1..Len(window)
  BY <1>v
<1>0. /\ DOMAIN window = 1..Len(window) /\ Len(window) \in Nat /\ DOMAIN window' = 1..Len(window)
      /\ Gone \in Nat /\ captured \in Nat /\ epochStart \in Nat /\ epochStart <= Gone
      /\ \A p \in 1..Len(window) : window[p].captureNs = Gone + p
  BY <1>w DEF RingSound, WorkerTypes, RingInOrder, Gone
<1>1. Gone' = Gone
  BY DEF Gone, Settles
<1>2. RingInOrder'
  BY <1>0, <1>1 DEF RingInOrder, Settles
<1>a. c - Gone \in 1..Len(window) /\ window[c - Gone].captureNs = c
      /\ \A p \in 1..Len(window) : window[p].captureNs = c => p = c - Gone
  BY SlotPlace DEF RingSound
<1>b. window'[c - Gone] = slot
  BY <1>a
<1>3. \A p \in 1..Len(window) : p \in InterFrames' <=> p \in InterFrames \/ p = c - Gone
  BY <1>0, <1>a, <1>b DEF InterFrames, Settles, IsReady, Undecided
<1>4. InterFrames' = InterFrames \cup {c - Gone}
  <2>1. InterFrames \subseteq 1..Len(window) /\ InterFrames' \subseteq 1..Len(window)
    BY <1>0 DEF InterFrames
  <2> QED BY <1>3, <2>1, <1>a
<1>5. \A p \in InterFrames : window'[p] = window[p]
  BY <1>0, <1>a DEF InterFrames, Settles, IsReady, Undecided
<1> QED
  BY <1>1, <1>2, <1>4, <1>5, <1>b DEF Frames
-----------------------------------------------------------------------------
(* What the steps of the encode worker do to the ring and to the holders.  *)

\* The job is decided without the inter encoder.
JobDone ==
    /\ pc = "send" /\ job' = NoJob /\ pc' = "idle"
    /\ UNCHANGED <<ringVars, codecVars, chainEpoch, nextChain>>
    /\ chain' \in Tracker /\ chain'.chain = chain.chain /\ chain'.broken = chain.broken
    /\ chain'.nextSeq >= chain.nextSeq
    /\ encoder = "inter" => chain'.nextSeq = chain.nextSeq /\ (chain.wantKey => chain'.wantKey)
    /\ \E slot : /\ window' = Put(job.capture, job.epoch, slot)
                 /\ job.epoch = epoch => /\ slot \in AnySlot /\ slot.captureNs = job.capture
                                         /\ slot.state \in Settled
                                         /\ ~IsReady(slot) \/ slot.codec # "inter"

\* The encoder goes, and with it all it holds.
Flushed ==
    /\ DropInFlight
    /\ encoder' = "none" /\ inFlight' = <<>> /\ bitstream' = <<>> /\ lastSent' = 0
    /\ pc' = IF job = NoJob THEN "idle" ELSE "choose"
    /\ UNCHANGED <<ringVars, job, chainVars>>

LEMMA FlushSteps ==
    ASSUME WorkerTypes, FinishRetire \/ CloseEncoder \/ FailInter
    PROVE  Flushed
<1>1. CASE FinishRetire
  BY <1>1 DEF FinishRetire, Flushed
<1>2. CASE CloseEncoder
  BY <1>2 DEF CloseEncoder, Flushed, WorkerTypes
<1>3. CASE FailInter
  BY <1>3 DEF FailInter, Flushed, WorkerTypes
<1> QED
  BY <1>1, <1>2, <1>3

\* What the tracker's operations keep and change.
LEMMA TrackerSteps ==
    ASSUME NEW c \in Tracker
    PROVE  /\ CommitSend(c, c.wantKey) \in Tracker /\ CommitSend(c, c.wantKey).chain = c.chain
           /\ CommitSend(c, c.wantKey).broken = c.broken /\ CommitSend(c, c.wantKey).nextSeq = c.nextSeq + 1
           /\ ~CommitSend(c, c.wantKey).wantKey
           /\ RequestKey(c) \in Tracker /\ RequestKey(c).chain = c.chain /\ RequestKey(c).broken = c.broken
           /\ RequestKey(c).nextSeq = c.nextSeq /\ RequestKey(c).wantKey
           /\ OnLost(c) \in Tracker /\ OnLost(c).chain = c.chain /\ OnLost(c).broken
           /\ OnLost(c).nextSeq = c.nextSeq /\ OnLost(c).wantKey
           /\ \A key \in BOOLEAN :
                 /\ OnStored(c, key) \in Tracker /\ OnStored(c, key).chain = c.chain
                 /\ OnStored(c, key).nextSeq = c.nextSeq /\ OnStored(c, key).wantKey = c.wantKey
                 /\ OnStored(c, key).broken <=> c.broken /\ ~key
<1>1. c.chain \in Nat /\ c.nextSeq \in Nat /\ c.wantKey \in BOOLEAN /\ c.broken \in BOOLEAN
  BY DEF Tracker
<1>2. c = [chain |-> c.chain, nextSeq |-> c.nextSeq, wantKey |-> c.wantKey, broken |-> c.broken]
  BY DEF Tracker
<1> DEFINE n == c.nextSeq + 1
           w == c.wantKey /\ ~c.wantKey
<1>3. CommitSend(c, c.wantKey) = [chain |-> c.chain, nextSeq |-> n, wantKey |-> w, broken |-> c.broken]
  <2>1. CommitSend(c, c.wantKey) = [c EXCEPT !.nextSeq = n, !.wantKey = w]
    BY Zenon DEF CommitSend
  <2> HIDE DEF n, w
  <2> QED
    BY <1>2, <2>1
<1>4. RequestKey(c) = [chain |-> c.chain, nextSeq |-> c.nextSeq, wantKey |-> TRUE, broken |-> c.broken]
  <2> DEFINE t == TRUE
  <2>1. RequestKey(c) = [c EXCEPT !.wantKey = t]
    BY Zenon DEF RequestKey
  <2> HIDE DEF t
  <2>2. RequestKey(c) = [chain |-> c.chain, nextSeq |-> c.nextSeq, wantKey |-> t, broken |-> c.broken]
    BY <1>2, <2>1
  <2> QED
    BY <2>2 DEF t
<1>5. OnLost(c) = [chain |-> c.chain, nextSeq |-> c.nextSeq, wantKey |-> TRUE, broken |-> TRUE]
  <2> DEFINE t == TRUE
  <2>1. OnLost(c) = [c EXCEPT !.broken = t, !.wantKey = t]
    BY Zenon DEF OnLost
  <2> HIDE DEF t
  <2>2. OnLost(c) = [chain |-> c.chain, nextSeq |-> c.nextSeq, wantKey |-> t, broken |-> t]
    BY <1>2, <2>1
  <2> QED
    BY <2>2 DEF t
<1>6. ASSUME NEW key \in BOOLEAN
      PROVE  OnStored(c, key) = [chain |-> c.chain, nextSeq |-> c.nextSeq,
                                 wantKey |-> c.wantKey, broken |-> c.broken /\ ~key]
  <2> DEFINE b == c.broken /\ ~key
  <2>1. OnStored(c, key) = [c EXCEPT !.broken = b]
    BY Zenon DEF OnStored
  <2> HIDE DEF b
  <2>2. OnStored(c, key) = [chain |-> c.chain, nextSeq |-> c.nextSeq, wantKey |-> c.wantKey, broken |-> b]
    BY <1>2, <2>1
  <2> QED
    BY <2>2 DEF b
<1>8. /\ CommitSend(c, c.wantKey) \in Tracker /\ CommitSend(c, c.wantKey).chain = c.chain
      /\ CommitSend(c, c.wantKey).broken = c.broken /\ CommitSend(c, c.wantKey).nextSeq = c.nextSeq + 1
      /\ ~CommitSend(c, c.wantKey).wantKey
  <2>1. n \in Nat /\ w \in BOOLEAN /\ ~w
    BY <1>1
  <2>2. n = c.nextSeq + 1
    OBVIOUS
  <2> HIDE DEF n, w
  <2> QED
    BY <1>1, <1>3, <2>1, <2>2 DEF Tracker
<1>9. /\ RequestKey(c) \in Tracker /\ RequestKey(c).chain = c.chain /\ RequestKey(c).broken = c.broken
      /\ RequestKey(c).nextSeq = c.nextSeq /\ RequestKey(c).wantKey
  BY <1>1, <1>4 DEF Tracker
<1>10. /\ OnLost(c) \in Tracker /\ OnLost(c).chain = c.chain /\ OnLost(c).broken
       /\ OnLost(c).nextSeq = c.nextSeq /\ OnLost(c).wantKey
  BY <1>1, <1>5 DEF Tracker
<1>11. \A key \in BOOLEAN :
          /\ OnStored(c, key) \in Tracker /\ OnStored(c, key).chain = c.chain
          /\ OnStored(c, key).nextSeq = c.nextSeq /\ OnStored(c, key).wantKey = c.wantKey
          /\ OnStored(c, key).broken <=> c.broken /\ ~key
  <2> SUFFICES ASSUME NEW key \in BOOLEAN
               PROVE  /\ OnStored(c, key) \in Tracker /\ OnStored(c, key).chain = c.chain
                      /\ OnStored(c, key).nextSeq = c.nextSeq /\ OnStored(c, key).wantKey = c.wantKey
                      /\ OnStored(c, key).broken <=> c.broken /\ ~key
    OBVIOUS
  <2> DEFINE b == c.broken /\ ~key
  <2>1. b \in BOOLEAN /\ (b <=> c.broken /\ ~key)
    BY <1>1
  <2>2. OnStored(c, key) = [chain |-> c.chain, nextSeq |-> c.nextSeq, wantKey |-> c.wantKey, broken |-> b]
    BY <1>6
  <2> HIDE DEF b
  <2> QED
    BY <1>1, <2>1, <2>2 DEF Tracker
<1> QED
  BY <1>8, <1>9, <1>10, <1>11

\* The slots a job can leave.
LEMMA JobSlots ==
    ASSUME NEW slot \in AnySlot, chain \in Tracker
    PROVE  /\ Drop(slot) \in AnySlot /\ Drop(slot).captureNs = slot.captureNs /\ Drop(slot).state = "Dropped"
           /\ \A codec \in {"raw", "mjpeg"} :
                 LET s == StoreIntra(slot, codec)
                 IN  s \in AnySlot /\ s.captureNs = slot.captureNs /\ s.state = "Ready" /\ s.codec # "inter"
<1>1. slot = [captureNs |-> slot.captureNs, state |-> slot.state, codec |-> slot.codec, key |-> slot.key,
              chain |-> slot.chain, seq |-> slot.seq, ref |-> slot.ref]
  BY DEF AnySlot
<1>2. Drop(slot) = [captureNs |-> slot.captureNs, state |-> "Dropped", codec |-> slot.codec, key |-> slot.key,
                    chain |-> slot.chain, seq |-> slot.seq, ref |-> slot.ref]
  BY <1>1 DEF Drop
<1>3. Drop(slot) \in AnySlot /\ Drop(slot).captureNs = slot.captureNs /\ Drop(slot).state = "Dropped"
  BY <1>2 DEF AnySlot, SlotState, Settled
<1>4. ASSUME NEW codec \in {"raw", "mjpeg"}
      PROVE  LET s == StoreIntra(slot, codec)
             IN  s \in AnySlot /\ s.captureNs = slot.captureNs /\ s.state = "Ready" /\ s.codec # "inter"
  <2> DEFINE c == IF codec = "raw" THEN NoChain ELSE chain.chain
             n == IF codec = "raw" THEN 0 ELSE chain.nextSeq
  <2>1. c \in Nat /\ n \in Nat
    BY DEF Tracker, NoChain
  <2>2. StoreIntra(slot, codec) = [slot EXCEPT !.state = "Ready", !.codec = codec, !.key = TRUE,
                                               !.chain = c, !.seq = n]
    BY DEF StoreIntra
  <2> HIDE DEF c, n
  <2>3. StoreIntra(slot, codec) = [captureNs |-> slot.captureNs, state |-> "Ready", codec |-> codec,
                                   key |-> TRUE, chain |-> c, seq |-> n, ref |-> slot.ref]
    BY <1>1, <2>2
  <2> QED
    BY <2>1, <2>3 DEF AnySlot, SlotState, Settled, Codecs
<1> QED
  BY <1>3, <1>4

LEMMA JobSteps ==
    ASSUME RingSound, SendIntra \/ SendBusy \/ SendFails
    PROVE  JobDone
<1> DEFINE Left(slot) ==
        /\ window' = Put(job.capture, job.epoch, slot)
        /\ job.epoch = epoch => /\ slot \in AnySlot /\ slot.captureNs = job.capture
                                /\ slot.state \in Settled
                                /\ ~IsReady(slot) \/ slot.codec # "inter"
           old == SlotOf(job.capture)
<1>1. job # NoJob /\ Holds(job.capture) /\ (job.epoch = epoch => job.capture > epochStart) /\ chain \in Tracker
  BY DEF SendIntra, SendBusy, SendFails, RingSound, WorkerTypes, HoldersAreTheUndecided, Holds
<1>2. job.epoch = epoch => old \in AnySlot /\ old.captureNs = job.capture
  BY <1>1, HeldSlot
<1>3. window' = Put(job.capture, job.epoch, Drop(old)) => Left(Drop(old))
  <2>1. CASE job.epoch = epoch
    BY <1>1, <1>2, <2>1, JobSlots DEF Settled, IsReady
  <2>2. CASE job.epoch # epoch
    BY <2>2
  <2> QED
    BY <2>1, <2>2
<1>4. \A codec \in {"raw", "mjpeg"} :
          window' = Put(job.capture, job.epoch, StoreIntra(old, codec)) => Left(StoreIntra(old, codec))
  <2>1. CASE job.epoch = epoch
    BY <1>1, <1>2, <2>1, JobSlots DEF Settled, IsReady
  <2>2. CASE job.epoch # epoch
    BY <2>2
  <2> QED
    BY <2>1, <2>2
<1>5. Fallback(job.capture, job.epoch) => \E slot : Left(slot)
  <2> HIDE DEF Left
  <2> QED
    BY <1>3, <1>4 DEF Fallback
<1>6. \E slot : Left(slot)
  <2> HIDE DEF Left
  <2>1. window' = Put(job.capture, job.epoch, StoreIntra(old, "mjpeg")) => \E slot : Left(slot)
    BY <1>4
  <2> QED
    BY <1>3, <1>5, <2>1 DEF SendIntra, SendBusy, SendFails
<1>8. /\ CommitSend(chain, chain.wantKey) \in Tracker /\ RequestKey(chain) \in Tracker
      /\ CommitSend(chain, chain.wantKey).chain = chain.chain
      /\ CommitSend(chain, chain.wantKey).broken = chain.broken
      /\ CommitSend(chain, chain.wantKey).nextSeq = chain.nextSeq + 1
      /\ RequestKey(chain).chain = chain.chain /\ RequestKey(chain).broken = chain.broken
      /\ RequestKey(chain).nextSeq = chain.nextSeq /\ RequestKey(chain).wantKey
  BY <1>1, TrackerSteps
<1>9. chain.nextSeq \in Nat
  BY <1>1 DEF Tracker
<1>10. /\ chain' \in Tracker /\ chain'.chain = chain.chain /\ chain'.broken = chain.broken
       /\ chain'.nextSeq >= chain.nextSeq
       /\ encoder = "inter" => chain'.nextSeq = chain.nextSeq /\ (chain.wantKey => chain'.wantKey)
  <2>1. CASE SendIntra
    BY <2>1, <1>8, <1>9 DEF SendIntra
  <2>2. CASE SendBusy
    BY <2>2, <1>1, <1>9 DEF SendBusy, chainVars
  <2>3. CASE SendFails
    BY <2>3, <1>1, <1>8, <1>9 DEF SendFails
  <2> QED
    BY <2>1, <2>2, <2>3
<1>11. /\ pc = "send" /\ job' = NoJob /\ pc' = "idle"
       /\ UNCHANGED <<ringVars, codecVars, chainEpoch, nextChain>>
  BY DEF SendIntra, SendBusy, SendFails, chainVars
<1> QED
  BY <1>6, <1>10, <1>11 DEF JobDone
-----------------------------------------------------------------------------
(* The ring and the holders stay sound.                                    *)

LEMMA Released ==
    ASSUME RingSound, NEW S, Settles(S), RingInOrder', Gone' = Gone,
           captured' = captured, epoch' = epoch, epochStart' = epochStart, queue' = queue,
           job' = job \/ job' = NoJob,
           \A i \in DOMAIN inFlight' :
              \/ \E j \in DOMAIN inFlight : inFlight'[i] = inFlight[j]
              \/ job # NoJob /\ inFlight'[i].capture = job.capture /\ inFlight'[i].epoch = job.epoch,
           \A c : Holds(c)' <=> Holds(c) /\ c \notin S
    PROVE  HoldersAreTheUndecided'
<1>0. HoldersAreTheUndecided /\ DOMAIN window = 1..Len(window) /\ epoch \in Nat
  BY DEF RingSound, WorkerTypes
<1>1. window' \in Seq(AnySlot) /\ Len(window') = Len(window)
  BY DEF Settles
<1>2. DOMAIN window' = 1..Len(window)
  BY <1>1
<1>3. (\A p \in DOMAIN window : window[p].state \in Undecided <=> Holds(window[p].captureNs))'
  <2> SUFFICES ASSUME NEW p \in 1..Len(window)
               PROVE  (window[p].state \in Undecided <=> Holds(window[p].captureNs))'
    BY <1>2
  <2>1. PICK c : c = window[p].captureNs
    OBVIOUS
  <2>2. (window[p].captureNs)' = c
    BY <2>1 DEF Settles
  <2>3. window[p].state \in Undecided <=> Holds(c)
    BY <1>0, <2>1 DEF HoldersAreTheUndecided
  <2>4. Holds(window[p].captureNs)' <=> Holds(c)'
    BY <2>2 DEF Holds
  <2>5. CASE c \in S
    BY <2>1, <2>4, <2>5 DEF Settles, Settled, Undecided
  <2>6. CASE c \notin S
    BY <2>1, <2>3, <2>4, <2>6 DEF Settles
  <2> QED
    BY <2>5, <2>6
<1>4. \A c \in 1..captured' : Holds(c)' /\ c > epochStart' => c > Gone'
  BY <1>0 DEF HoldersAreTheUndecided
<1>5. \A k \in DOMAIN queue' : queue'[k] > epochStart'
  BY <1>0 DEF HoldersAreTheUndecided
<1>6. job'.epoch <= epoch' /\ (job' # NoJob => (job'.epoch = epoch' <=> job'.capture > epochStart'))
  <2>1. CASE job' = job
    BY <1>0, <2>1 DEF HoldersAreTheUndecided
  <2>2. CASE job' = NoJob
    BY <1>0, <2>2 DEF NoJob
  <2> QED
    BY <2>1, <2>2
<1>7. \A i \in DOMAIN inFlight' : inFlight'[i].epoch <= epoch'
                                  /\ (inFlight'[i].epoch = epoch' <=> inFlight'[i].capture > epochStart')
  BY <1>0 DEF HoldersAreTheUndecided
<1> QED
  BY <1>3, <1>4, <1>5, <1>6, <1>7 DEF HoldersAreTheUndecided

LEMMA JobDoneSound ==
    ASSUME RingSound, JobDone
    PROVE  RingSound' /\ Frames' = Frames /\ Gone' = Gone
<1> DEFINE S == {job.capture}
<1>0. PICK slot : /\ window' = Put(job.capture, job.epoch, slot)
                  /\ job.epoch = epoch => /\ slot \in AnySlot /\ slot.captureNs = job.capture
                                          /\ slot.state \in Settled
                                          /\ ~IsReady(slot) \/ slot.codec # "inter"
  BY DEF JobDone
<1>1. /\ captured' = captured /\ epoch' = epoch /\ epochStart' = epochStart /\ queue' = queue
      /\ job # NoJob /\ job' = NoJob /\ pc' = "idle" /\ inFlight' = inFlight /\ bitstream' = bitstream
      /\ encoder' = encoder /\ lastSent' = lastSent /\ chain' \in Tracker
      /\ chainEpoch' = chainEpoch /\ nextChain' = nextChain
  BY DEF JobDone, ringVars, codecVars, RingSound, WorkerTypes
<1>2. Holds(job.capture) /\ (job.epoch = epoch <=> job.capture > epochStart)
  BY <1>1 DEF RingSound, HoldersAreTheUndecided, Holds
<1> HIDE DEF S
<1>3. Settles(S) /\ \A p \in 1..Len(window) : window[p].captureNs = job.capture => window'[p] = slot
  <2>1. Settles({job.capture})
        /\ \A p \in 1..Len(window) : window[p].captureNs = job.capture => window'[p] = slot
    <3>1. job.epoch = epoch => slot \in AnySlot /\ slot.captureNs = job.capture /\ slot.state \in Settled
      BY <1>0
    <3>2. window' = Put(job.capture, job.epoch, slot)
      BY <1>0
    <3>3. captured' = captured /\ epochStart' = epochStart
      BY <1>1
    <3>4. PICK c, e : c = job.capture /\ e = job.epoch
      OBVIOUS
    <3>5. /\ Holds(c) /\ (e = epoch <=> c > epochStart) /\ window' = Put(c, e, slot)
          /\ e = epoch => slot \in AnySlot /\ slot.captureNs = c /\ slot.state \in Settled
      BY <1>2, <3>1, <3>2, <3>4
    <3>6. Settles({c}) /\ \A p \in 1..Len(window) : window[p].captureNs = c => window'[p] = slot
      BY <3>3, <3>5, PutSettles
    <3> QED
      BY <3>4, <3>6
  <2> QED
    BY <2>1 DEF S
<1>4. \A p \in 1..Len(window) : window[p].captureNs \in S => ~IsReady(window'[p]) \/ window'[p].codec # "inter"
  <2> SUFFICES ASSUME NEW p \in 1..Len(window), window[p].captureNs = job.capture
               PROVE  ~IsReady(window'[p]) \/ window'[p].codec # "inter"
    BY DEF S
  <2>1. window'[p] = slot
    BY <1>3
  <2>2. job.capture > epochStart
    <3>1. window[p].captureNs = Gone + p /\ epochStart <= Gone /\ Gone \in Int /\ epochStart \in Nat
      BY DEF RingSound, RingInOrder, WorkerTypes, Gone
    <3> QED
      BY <3>1
  <2> QED
    BY <1>0, <1>2, <2>1, <2>2
<1>5. Frames' = Frames /\ Gone' = Gone /\ RingInOrder'
  BY <1>1, <1>3, <1>4, FramesKept
<1>6. WorkerTypes'
  <2>1. window' \in Seq(AnySlot) /\ job' \in [capture : Nat, epoch : Nat]
    BY <1>1, <1>3 DEF Settles, NoJob
  <2>2. WorkerTypes
    BY DEF RingSound
  <2> QED
    BY <1>1, <2>1, <2>2 DEF WorkerTypes
<1>7. HoldersInOrder'
  BY <1>1 DEF RingSound, HoldersInOrder
<1>8. \A c : Holds(c)' <=> Holds(c) /\ c \notin S
  <2> SUFFICES ASSUME NEW c
               PROVE  Holds(c)' <=> Holds(c) /\ c # job.capture
    BY DEF S
  <2>1. HoldersInOrder /\ job.capture \in Nat
    BY DEF RingSound, WorkerTypes
  <2>2. (\A i \in DOMAIN inFlight : inFlight[i].capture # job.capture) /\ \A k \in DOMAIN queue : queue[k] # job.capture
    BY <1>1, <2>1 DEF HoldersInOrder
  <2> QED
    BY <1>1, <2>2 DEF Holds
<1>9. HoldersAreTheUndecided'
  BY <1>1, <1>3, <1>5, <1>8, Released
<1> QED
  BY <1>5, <1>6, <1>7, <1>9 DEF RingSound

LEMMA FlushedSound ==
    ASSUME RingSound, Flushed
    PROVE  RingSound' /\ Frames' = Frames /\ Gone' = Gone
<1> DEFINE S == {inFlight[i].capture : i \in DOMAIN inFlight}
           lost == {inFlight[i].capture : i \in {j \in DOMAIN inFlight : inFlight[j].epoch = epoch}}
<1>0. /\ window \in Seq(AnySlot) /\ DOMAIN window = 1..Len(window) /\ Len(window) \in Nat
      /\ Gone \in Int /\ epochStart \in Nat /\ epochStart <= Gone /\ chain \in Tracker
      /\ \A p \in 1..Len(window) : window[p].captureNs = Gone + p
  BY DEF RingSound, WorkerTypes, RingInOrder, Gone
<1>1. /\ captured' = captured /\ epoch' = epoch /\ epochStart' = epochStart /\ queue' = queue
      /\ job' = job /\ inFlight' = <<>> /\ bitstream' = <<>> /\ chain' = chain
      /\ encoder' = "none" /\ lastSent' = 0 /\ pc' = (IF job = NoJob THEN "idle" ELSE "choose")
      /\ chainEpoch' = chainEpoch /\ nextChain' = nextChain
  BY DEF Flushed, ringVars, chainVars
<1>2. window' = [p \in DOMAIN window |-> IF window[p].captureNs \in lost THEN Drop(window[p]) ELSE window[p]]
  BY DEF Flushed, DropInFlight
<1>3. \A p \in 1..Len(window) : window[p].captureNs \in lost <=> window[p].captureNs \in S
  <2> SUFFICES ASSUME NEW p \in 1..Len(window), NEW i \in DOMAIN inFlight, window[p].captureNs = inFlight[i].capture
               PROVE  inFlight[i].epoch = epoch
    OBVIOUS
  <2>1. inFlight[i].capture > epochStart
    BY <1>0
  <2> QED
    BY <2>1 DEF RingSound, HoldersAreTheUndecided
<1>4. \A p \in 1..Len(window) : window[p].captureNs \in S => window[p].state \in Undecided
  <2> SUFFICES ASSUME NEW p \in 1..Len(window), NEW i \in DOMAIN inFlight, window[p].captureNs = inFlight[i].capture
               PROVE  window[p].state \in Undecided
    OBVIOUS
  <2>1. Holds(window[p].captureNs)
    BY DEF Holds
  <2> QED
    BY <1>0, <2>1 DEF RingSound, HoldersAreTheUndecided
<1> HIDE DEF S, lost
<1>5. \A p \in 1..Len(window) : /\ window[p] \in AnySlot /\ Drop(window[p]) \in AnySlot
                                /\ Drop(window[p]).captureNs = window[p].captureNs
                                /\ Drop(window[p]).state = "Dropped"
  BY <1>0, JobSlots
<1>6. /\ window' \in Seq(AnySlot) /\ Len(window') = Len(window)
      /\ \A p \in 1..Len(window) : window'[p] = IF window[p].captureNs \in S THEN Drop(window[p]) ELSE window[p]
  <2> HIDE DEF AnySlot
  <2>1. \A p \in 1..Len(window) : window'[p] = IF window[p].captureNs \in S THEN Drop(window[p]) ELSE window[p]
    BY <1>0, <1>2, <1>3
  <2>2. \A p \in 1..Len(window) : window'[p] \in AnySlot
    BY <1>5, <2>1
  <2>3. window' = [p \in 1..Len(window) |-> window'[p]]
    BY <1>0, <1>2
  <2>4. window' \in [1..Len(window) -> AnySlot]
    BY <2>2, <2>3
  <2>5. window' \in Seq(AnySlot) /\ Len(window') = Len(window)
    BY <1>0, <2>4
  <2> QED
    BY <2>1, <2>5
<1>7. Settles(S)
  BY <1>4, <1>5, <1>6 DEF Settles, Settled
<1>8. Frames' = Frames /\ Gone' = Gone /\ RingInOrder'
  <2>1. \A p \in 1..Len(window) : window[p].captureNs \in S => ~IsReady(window'[p]) \/ window'[p].codec # "inter"
    BY <1>5, <1>6 DEF IsReady
  <2> QED
    BY <1>1, <1>7, <2>1, FramesKept
<1>9. WorkerTypes'
  <2>1. WorkerTypes
    BY DEF RingSound
  <2>2. inFlight' \in Seq(Sent) /\ bitstream' \in Seq(Packet)
    BY <1>1
  <2> QED
    BY <1>1, <1>6, <2>1, <2>2 DEF WorkerTypes
<1>10. HoldersInOrder'
  BY <1>1 DEF RingSound, HoldersInOrder
<1>11. \A c : Holds(c)' <=> Holds(c) /\ c \notin S
  <2> SUFFICES ASSUME NEW c
               PROVE  Holds(c)' <=> Holds(c) /\ c \notin S
    OBVIOUS
  <2>1. c \in S <=> \E i \in DOMAIN inFlight : inFlight[i].capture = c
    BY DEF S
  <2>2. \A i \in DOMAIN inFlight : (job # NoJob => inFlight[i].capture # job.capture)
                                   /\ \A k \in DOMAIN queue : inFlight[i].capture # queue[k]
    BY DEF RingSound, HoldersInOrder, WorkerTypes
  <2>3. ~\E i \in DOMAIN inFlight' : inFlight'[i].capture = c
    BY <1>1
  <2> QED
    BY <1>1, <2>1, <2>2, <2>3 DEF Holds
<1>12. HoldersAreTheUndecided'
  <2>1. \A i \in DOMAIN inFlight' : \E j \in DOMAIN inFlight : inFlight'[i] = inFlight[j]
    BY <1>1
  <2> QED
    BY <1>1, <1>7, <1>8, <1>11, <2>1, Released
<1> QED
  BY <1>8, <1>9, <1>10, <1>12 DEF RingSound

\* A packet is stored.
Stored(lost) == ~lost /\ (Head(inFlight).chain = chain.chain => ShouldStore(chain, Head(bitstream).key))

\* The frame a packet becomes.
IsPacket(f, sent, packet) ==
    /\ f.captureNs = sent.capture /\ f.chain = sent.chain
    /\ f.seq = packet.seq /\ f.key = packet.key /\ f.ref = packet.ref

LEMMA PacketSlot ==
    ASSUME NEW slot \in AnySlot, NEW sent \in Sent, NEW packet \in Packet
    PROVE  LET s == StorePacket(slot, sent, packet)
           IN  /\ s \in AnySlot /\ s.captureNs = slot.captureNs /\ s.state = "Ready" /\ s.codec = "inter"
               /\ s.chain = sent.chain /\ s.seq = packet.seq /\ s.key = packet.key /\ s.ref = packet.ref
<1> DEFINE k == packet.key
           c == sent.chain
           n == packet.seq
           r == packet.ref
<1>1. slot = [captureNs |-> slot.captureNs, state |-> slot.state, codec |-> slot.codec, key |-> slot.key,
              chain |-> slot.chain, seq |-> slot.seq, ref |-> slot.ref]
  BY DEF AnySlot
<1>2. StorePacket(slot, sent, packet) = [slot EXCEPT !.state = "Ready", !.codec = "inter", !.key = k,
                                                     !.chain = c, !.seq = n, !.ref = r]
  BY DEF StorePacket
<1>3. k \in BOOLEAN /\ c \in Nat /\ n \in Nat /\ r \in Nat
  BY DEF Sent, Packet
<1> HIDE DEF k, c, n, r
<1>4. StorePacket(slot, sent, packet) = [captureNs |-> slot.captureNs, state |-> "Ready", codec |-> "inter",
                                         key |-> k, chain |-> c, seq |-> n, ref |-> r]
  BY <1>1, <1>2
<1>5. LET s == StorePacket(slot, sent, packet)
      IN  /\ s \in AnySlot /\ s.captureNs = slot.captureNs /\ s.state = "Ready" /\ s.codec = "inter"
          /\ s.chain = c /\ s.seq = n /\ s.key = k /\ s.ref = r
  BY <1>3, <1>4 DEF AnySlot, SlotState, Settled, Codecs
<1> QED
  BY <1>5 DEF k, c, n, r

LEMMA ReceiveSound ==
    ASSUME RingSound, NEW lost \in BOOLEAN, Receive(lost)
    PROVE  /\ RingSound' /\ Gone' = Gone
           /\ Stored(lost) /\ Head(inFlight).epoch = epoch =>
                  \E f : Frames' = Frames \cup {f} /\ IsPacket(f, Head(inFlight), Head(bitstream))
           /\ ~(Stored(lost) /\ Head(inFlight).epoch = epoch) => Frames' = Frames
<1> DEFINE sent   == Head(inFlight)
           packet == Head(bitstream)
           S      == {sent.capture}
           old    == SlotOf(sent.capture)
           slot   == IF Stored(lost) THEN StorePacket(old, sent, packet) ELSE Drop(old)
<1>1. /\ captured' = captured /\ epoch' = epoch /\ epochStart' = epochStart /\ queue' = queue
      /\ job' = job /\ pc' = pc /\ encoder' = encoder /\ lastSent' = lastSent
      /\ chainEpoch' = chainEpoch /\ nextChain' = nextChain
      /\ inFlight # <<>> /\ bitstream # <<>> /\ inFlight' = Tail(inFlight) /\ bitstream' = Tail(bitstream)
  <2>1. Receiving /\ InOrder /\ inFlight' = Tail(inFlight) /\ bitstream' = Tail(bitstream)
        /\ UNCHANGED <<ringVars, job, pc, encoder, lastSent, faults, chainEpoch, nextChain>>
    BY Zenon DEF Receive
  <2> QED
    BY <2>1 DEF Receiving, InOrder, ringVars
<1>2. WorkerTypes
  BY DEF RingSound
<1>3. /\ Len(inFlight) \in Nat \ {0} /\ DOMAIN inFlight = 1..Len(inFlight) /\ sent = inFlight[1] /\ sent \in Sent
      /\ Len(bitstream) \in Nat \ {0} /\ packet \in Packet
      /\ Len(inFlight') = Len(inFlight) - 1 /\ DOMAIN inFlight' = 1..Len(inFlight) - 1
      /\ \A i \in 1..Len(inFlight) - 1 : inFlight'[i] = inFlight[i + 1]
      /\ inFlight' \in Seq(Sent) /\ bitstream' \in Seq(Packet)
  <2> HIDE DEF sent, packet
  <2>1. inFlight \in Seq(Sent) /\ inFlight # <<>> /\ bitstream \in Seq(Packet) /\ bitstream # <<>>
    BY <1>1, <1>2 DEF WorkerTypes
  <2> HIDE DEF Sent, Packet
  <2>2. /\ Len(inFlight) \in Nat \ {0} /\ DOMAIN inFlight = 1..Len(inFlight) /\ Head(inFlight) = inFlight[1]
        /\ Head(inFlight) \in Sent /\ Len(Tail(inFlight)) = Len(inFlight) - 1 /\ Tail(inFlight) \in Seq(Sent)
        /\ DOMAIN Tail(inFlight) = 1..Len(inFlight) - 1
        /\ \A i \in 1..Len(inFlight) - 1 : Tail(inFlight)[i] = inFlight[i + 1]
    BY <2>1
  <2>3. Len(bitstream) \in Nat \ {0} /\ Head(bitstream) \in Packet /\ Tail(bitstream) \in Seq(Packet)
    BY <2>1
  <2> QED
    BY <1>1, <2>2, <2>3 DEF sent, packet
<1>4. Holds(sent.capture) /\ (sent.epoch = epoch <=> sent.capture > epochStart)
  BY <1>3 DEF RingSound, HoldersAreTheUndecided, Holds
<1>5. sent.epoch = epoch => old \in AnySlot /\ old.captureNs = sent.capture
  BY <1>4, HeldSlot
<1>6. sent.epoch = epoch => /\ slot \in AnySlot /\ slot.captureNs = sent.capture /\ slot.state \in Settled
                            /\ Stored(lost) => /\ slot.codec = "inter" /\ IsReady(slot)
                                               /\ IsPacket(slot, sent, packet)
                            /\ ~Stored(lost) => ~IsReady(slot)
  <2> SUFFICES ASSUME sent.epoch = epoch
               PROVE  /\ slot \in AnySlot /\ slot.captureNs = sent.capture /\ slot.state \in Settled
                      /\ Stored(lost) => slot.codec = "inter" /\ IsReady(slot) /\ IsPacket(slot, sent, packet)
                      /\ ~Stored(lost) => ~IsReady(slot)
    OBVIOUS
  <2>1. chain \in Tracker
    BY <1>2 DEF WorkerTypes
  <2> HIDE DEF sent, packet, old
  <2>2. CASE Stored(lost)
    BY <1>3, <1>5, <2>2, PacketSlot DEF Settled, IsReady, IsPacket
  <2>3. CASE ~Stored(lost)
    BY <1>5, <2>1, <2>3, JobSlots DEF Settled, IsReady
  <2> QED
    BY <2>2, <2>3
<1>7. window' = Put(sent.capture, sent.epoch, slot)
  BY DEF Receive, Stored
<1> HIDE DEF sent, packet, old, slot
<1>8. /\ Settles({sent.capture})
      /\ \A p \in 1..Len(window) : window[p].captureNs = sent.capture => window'[p] = slot
  <2>1. sent.epoch = epoch => slot \in AnySlot /\ slot.captureNs = sent.capture /\ slot.state \in Settled
    BY <1>6
  <2>2. captured' = captured /\ epochStart' = epochStart
    BY <1>1
  <2> QED
    BY <1>4, <1>7, <2>1, <2>2, PutSettles
<1>9. /\ Gone' = Gone /\ RingInOrder'
      /\ Stored(lost) /\ sent.epoch = epoch => \E f : Frames' = Frames \cup {f} /\ IsPacket(f, sent, packet)
      /\ ~(Stored(lost) /\ sent.epoch = epoch) => Frames' = Frames
  <2>1. captured' = captured /\ epochStart' = epochStart
    BY <1>1
  <2>2. CASE Stored(lost) /\ sent.epoch = epoch
    <3>1. sent.capture \in Gone + 1..captured
      BY <1>4, <2>2, HolderInRing
    <3>2. slot.codec = "inter" /\ IsReady(slot) /\ IsPacket(slot, sent, packet)
      BY <1>6, <2>2
    <3>3. Frames' = Frames \cup {slot} /\ Gone' = Gone /\ RingInOrder'
      BY <1>8, <2>1, <3>1, <3>2, FrameAdded
    <3> QED
      BY <2>2, <3>2, <3>3
  <2>3. CASE ~(Stored(lost) /\ sent.epoch = epoch)
    <3>1. \A p \in 1..Len(window) :
             window[p].captureNs \in {sent.capture} => ~IsReady(window'[p]) \/ window'[p].codec # "inter"
      <4> SUFFICES ASSUME NEW p \in 1..Len(window), window[p].captureNs = sent.capture
                   PROVE  ~IsReady(window'[p])
        OBVIOUS
      <4>1. window[p].captureNs = Gone + p /\ epochStart <= Gone /\ Gone \in Int /\ epochStart \in Nat
        BY <1>2 DEF RingSound, RingInOrder, WorkerTypes, Gone
      <4>2. sent.epoch = epoch
        BY <1>4, <4>1
      <4> QED
        BY <1>6, <1>8, <2>3, <4>2
    <3> QED
      BY <1>8, <2>1, <2>3, <3>1, FramesKept
  <2> QED
    BY <2>2, <2>3
<1>10. chain' \in Tracker
  <2>1. chain \in Tracker /\ packet.key \in BOOLEAN
    BY <1>2, <1>3 DEF WorkerTypes, Packet
  <2> QED
    BY <2>1, TrackerSteps DEF Receive, packet
<1>11. WorkerTypes'
  <2>1. window' \in Seq(AnySlot)
    BY <1>8 DEF Settles
  <2>2. encoder # "inter" => FALSE
    BY <1>1, <1>2 DEF WorkerTypes
  <2> QED
    BY <1>1, <1>2, <1>3, <1>10, <2>1, <2>2 DEF WorkerTypes
<1>12. HoldersInOrder'
  BY <1>1, <1>3 DEF RingSound, HoldersInOrder
<1>13. \A c : Holds(c)' <=> Holds(c) /\ c \notin {sent.capture}
  <2> SUFFICES ASSUME NEW c
               PROVE  Holds(c)' <=> Holds(c) /\ c # sent.capture
    OBVIOUS
  <2>1. /\ \A i \in 2..Len(inFlight) : inFlight[i].capture # sent.capture
        /\ job # NoJob => job.capture # sent.capture
        /\ \A k \in DOMAIN queue : queue[k] # sent.capture
    <3>1. HoldersInOrder /\ captured \in Nat
      BY <1>2 DEF RingSound, WorkerTypes
    <3>2. /\ \A i \in 1..Len(inFlight) : inFlight[i].capture \in Nat
          /\ job # NoJob => job.capture \in Nat
          /\ \A k \in DOMAIN queue : queue[k] \in Nat
      <4>1. \A n \in 1..captured : n \in Nat
        BY <3>1
      <4>2. /\ \A i \in DOMAIN inFlight : inFlight[i].capture \in 1..captured
            /\ job # NoJob => job.capture \in 1..captured
            /\ \A k \in DOMAIN queue : queue[k] \in 1..captured
        BY <3>1 DEF HoldersInOrder
      <4> QED
        BY <1>3, <4>1, <4>2
    <3>3. \A i \in 2..Len(inFlight) : inFlight[1].capture < inFlight[i].capture
      BY <1>3, <3>1 DEF HoldersInOrder
    <3>4. (job # NoJob => inFlight[1].capture < job.capture) /\ \A k \in DOMAIN queue : inFlight[1].capture < queue[k]
      BY <1>3, <3>1 DEF HoldersInOrder
    <3> QED
      BY <1>3, <3>2, <3>3, <3>4
  <2>2. (\E i \in DOMAIN inFlight' : inFlight'[i].capture = c) <=> \E i \in 2..Len(inFlight) : inFlight[i].capture = c
    <3>1. ASSUME NEW i \in 2..Len(inFlight), inFlight[i].capture = c
          PROVE  \E j \in DOMAIN inFlight' : inFlight'[j].capture = c
      <4>1. i - 1 \in 1..Len(inFlight) - 1 /\ inFlight'[i - 1] = inFlight[i]
        BY <1>3
      <4> QED
        BY <1>3, <3>1, <4>1
    <3>2. ASSUME NEW j \in DOMAIN inFlight', inFlight'[j].capture = c
          PROVE  \E i \in 2..Len(inFlight) : inFlight[i].capture = c
      <4>1. j + 1 \in 2..Len(inFlight) /\ inFlight'[j] = inFlight[j + 1]
        BY <1>3
      <4> QED
        BY <3>2, <4>1
    <3> QED
      BY <3>1, <3>2
  <2>3. (\E i \in DOMAIN inFlight : inFlight[i].capture = c)
           <=> c = sent.capture \/ \E i \in 2..Len(inFlight) : inFlight[i].capture = c
    BY <1>3
  <2> QED
    BY <1>1, <2>1, <2>2, <2>3 DEF Holds
<1>14. HoldersAreTheUndecided'
  <2>1. \A i \in DOMAIN inFlight' : \E j \in DOMAIN inFlight : inFlight'[i] = inFlight[j]
    BY <1>3
  <2> QED
    BY <1>1, <1>8, <1>9, <1>13, <2>1, Released
<1> QED
  BY <1>9, <1>11, <1>12, <1>14 DEF RingSound, sent, packet

LEMMA TakeJobSound ==
    ASSUME RingSound, NEW retire \in BOOLEAN, TakeJob(retire)
    PROVE  RingSound' /\ Frames' = Frames /\ Gone' = Gone
<1> DEFINE c == Head(queue)
           slot == Encode(SlotOf(c))
<1>w. WorkerTypes
  BY DEF RingSound
<1>1. /\ captured' = captured /\ epoch' = epoch /\ epochStart' = epochStart
      /\ job = NoJob /\ job' = [capture |-> Head(queue), epoch |-> epoch] /\ queue # <<>> /\ queue' = Tail(queue)
      /\ inFlight' = inFlight /\ bitstream' = bitstream /\ chain' = chain
      /\ encoder' = encoder /\ lastSent' = lastSent /\ pc' \in {"retire", "choose"}
      /\ chainEpoch' = chainEpoch /\ nextChain' = nextChain
  BY <1>w DEF TakeJob, codecVars, chainVars, WorkerTypes
<1>2. /\ window \in Seq(AnySlot) /\ DOMAIN window = 1..Len(window) /\ Len(window) \in Nat
      /\ Gone \in Int /\ epochStart \in Nat /\ epochStart <= Gone /\ captured \in Nat /\ epoch \in Nat \ {0}
      /\ \A p \in 1..Len(window) : window[p].captureNs = Gone + p
  BY DEF RingSound, WorkerTypes, RingInOrder, Gone
<1>3. /\ queue \in Seq(Nat) /\ Len(queue) \in Nat \ {0} /\ DOMAIN queue = 1..Len(queue) /\ c = queue[1]
      /\ Tail(queue) \in Seq(Nat) /\ DOMAIN Tail(queue) = 1..Len(queue) - 1
      /\ \A k \in 1..Len(queue) - 1 : Tail(queue)[k] = queue[k + 1]
  BY <1>1, <1>w DEF WorkerTypes
<1>4. c \in 1..captured /\ c > epochStart /\ Holds(c)
  BY <1>3 DEF RingSound, HoldersInOrder, HoldersAreTheUndecided, Holds
<1>5. c \in Gone + 1..captured /\ window[c - Gone].state \in Undecided
  BY <1>4, HolderInRing
<1>6. SlotOf(c) \in AnySlot /\ SlotOf(c).captureNs = c
  BY <1>4, HeldSlot
<1>7. slot \in AnySlot /\ slot.captureNs = c /\ slot.state = "Encoding"
  <2>1. PICK s : s = SlotOf(c)
    OBVIOUS
  <2>2. s = [captureNs |-> s.captureNs, state |-> s.state, codec |-> s.codec, key |-> s.key,
             chain |-> s.chain, seq |-> s.seq, ref |-> s.ref]
    BY <1>6, <2>1 DEF AnySlot
  <2>3. Encode(s) = [captureNs |-> s.captureNs, state |-> "Encoding", codec |-> s.codec, key |-> s.key,
                     chain |-> s.chain, seq |-> s.seq, ref |-> s.ref]
    BY <2>2 DEF Encode
  <2>4. Encode(s) \in AnySlot /\ Encode(s).captureNs = c /\ Encode(s).state = "Encoding"
    BY <1>6, <2>1, <2>3 DEF AnySlot, SlotState, Undecided
  <2> QED
    BY <2>1, <2>4
<1> HIDE DEF slot
<1>8. window' = Put(c, epoch, slot)
  BY DEF TakeJob, slot
<1> HIDE DEF c
<1>9. Replaced(c, slot)
  BY <1>w, <1>5, <1>7, <1>8, PutReplaces DEF RingSound
<1>10. /\ window' \in Seq(AnySlot) /\ Len(window') = Len(window) /\ DOMAIN window' = 1..Len(window)
       /\ Gone' = Gone /\ RingInOrder'
       /\ \A p \in 1..Len(window) : window'[p] = IF p = c - Gone THEN slot ELSE window[p]
  BY <1>1, <1>9, AfterReplaced DEF RingSound
<1>11. \A p \in 1..Len(window) : /\ (window[p].captureNs)' = window[p].captureNs
                                 /\ window'[p].state \in Undecided <=> window[p].state \in Undecided
                                 /\ ~IsReady(window[p]) => ~IsReady(window'[p])
                                 /\ IsReady(window[p]) => window'[p] = window[p]
  <2>1. window[c - Gone].captureNs = c /\ c - Gone \in 1..Len(window)
    BY <1>5, SlotPlace DEF RingSound
  <2> HIDE DEF AnySlot
  <2> QED
    BY <1>2, <1>5, <1>7, <1>10, <2>1 DEF Undecided, IsReady
<1>12. Frames' = Frames
  <2>1. \A p \in 1..Len(window) : p \in InterFrames' <=> p \in InterFrames
    BY <1>2, <1>10, <1>11 DEF InterFrames
  <2>2. InterFrames \subseteq 1..Len(window) /\ InterFrames' \subseteq 1..Len(window)
    BY <1>2, <1>10 DEF InterFrames
  <2>3. InterFrames' = InterFrames
    BY <2>1, <2>2
  <2>4. \A p \in InterFrames : window'[p] = window[p]
    BY <1>2, <1>11 DEF InterFrames
  <2> QED
    BY <2>3, <2>4 DEF Frames
<1>13. job' \in [capture : Nat, epoch : Nat] /\ job' # NoJob /\ job'.capture = c /\ job'.epoch = epoch
  BY <1>1, <1>2, <1>4 DEF NoJob, c
<1>14. WorkerTypes'
  BY <1>1, <1>3, <1>10, <1>13, <1>w DEF WorkerTypes
<1>15. HoldersInOrder'
  <2>1. HoldersInOrder
    BY DEF RingSound
  <2>2. \A k \in DOMAIN queue' : k + 1 \in DOMAIN queue /\ queue'[k] = queue[k + 1]
    BY <1>1, <1>3
  <2>3. \A k \in DOMAIN queue' : queue'[k] \in 1..captured /\ c < queue'[k]
    <3>1. \A k, l \in DOMAIN queue : k < l => queue[k] < queue[l]
      BY <2>1 DEF HoldersInOrder
    <3>2. \A k \in DOMAIN queue : queue[k] \in 1..captured
      BY <2>1 DEF HoldersInOrder
    <3>3. \A k \in DOMAIN queue' : 1 < k + 1 /\ 1 \in DOMAIN queue
      BY <1>1, <1>3
    <3> QED
      BY <1>3, <2>2, <3>1, <3>2, <3>3
  <2>4. \A k, l \in DOMAIN queue' : k < l => queue'[k] < queue'[l]
    BY <1>1, <1>3, <2>1, <2>2 DEF HoldersInOrder
  <2>5. \A i \in DOMAIN inFlight : inFlight[i].capture < c /\ \A k \in DOMAIN queue' : inFlight[i].capture < queue'[k]
    BY <1>3, <2>1, <2>2 DEF HoldersInOrder
  <2> QED
    BY <1>1, <1>4, <1>13, <2>1, <2>3, <2>4, <2>5 DEF HoldersInOrder
<1>16. \A x : Holds(x)' <=> Holds(x)
  <2> SUFFICES ASSUME NEW x
               PROVE  Holds(x)' <=> Holds(x)
    OBVIOUS
  <2>1. (\E k \in DOMAIN queue : queue[k] = x) <=> x = c \/ \E k \in DOMAIN queue' : queue'[k] = x
    <3>1. ASSUME NEW k \in DOMAIN queue, queue[k] = x, x # c
          PROVE  \E l \in DOMAIN queue' : queue'[l] = x
      <4>1. k - 1 \in DOMAIN queue' /\ queue'[k - 1] = queue[k]
        BY <1>1, <1>3, <3>1
      <4> QED
        BY <3>1, <4>1
    <3>2. ASSUME NEW l \in DOMAIN queue', queue'[l] = x
          PROVE  \E k \in DOMAIN queue : queue[k] = x
      <4>1. l + 1 \in DOMAIN queue /\ queue'[l] = queue[l + 1]
        BY <1>1, <1>3
      <4> QED
        BY <3>2, <4>1
    <3> QED
      BY <1>3, <3>1, <3>2
  <2> QED
    BY <1>1, <1>13, <2>1 DEF Holds
<1>17. HoldersAreTheUndecided'
  <2>0. HoldersAreTheUndecided
    BY DEF RingSound
  <2>1. (\A p \in DOMAIN window : window[p].state \in Undecided <=> Holds(window[p].captureNs))'
    <3> SUFFICES ASSUME NEW p \in 1..Len(window)
                 PROVE  (window[p].state \in Undecided <=> Holds(window[p].captureNs))'
      BY <1>10
    <3>1. PICK x : x = window[p].captureNs
      OBVIOUS
    <3>2. Holds(window[p].captureNs)' <=> Holds(x)'
      BY <1>11, <3>1 DEF Holds
    <3>3. window[p].state \in Undecided <=> Holds(x)
      BY <1>2, <2>0, <3>1 DEF HoldersAreTheUndecided
    <3> QED
      BY <1>11, <1>16, <3>2, <3>3
  <2>2. \A x \in 1..captured' : Holds(x)' /\ x > epochStart' => x > Gone'
    BY <1>1, <1>10, <1>16, <2>0 DEF HoldersAreTheUndecided
  <2>3. \A k \in DOMAIN queue' : queue'[k] > epochStart'
    BY <1>1, <1>3, <2>0 DEF HoldersAreTheUndecided
  <2> QED
    BY <1>1, <1>2, <1>4, <1>13, <2>0, <2>1, <2>2, <2>3 DEF HoldersAreTheUndecided
<1> QED
  BY <1>10, <1>12, <1>14, <1>15, <1>17 DEF RingSound

\* The steps that leave the ring and its holders as they are.
LEMMA StillSound ==
    ASSUME RingSound, WorkerTypes', UNCHANGED <<window, captured, epoch, epochStart, queue, inFlight, job>>
    PROVE  RingSound' /\ Frames' = Frames /\ Gone' = Gone
<1>1. Gone' = Gone /\ Frames' = Frames
  BY DEF Gone, Frames, InterFrames
<1>2. RingInOrder' /\ HoldersInOrder'
  BY <1>1 DEF RingSound, RingInOrder, HoldersInOrder
<1>3. \A c : Holds(c)' <=> Holds(c)
  BY DEF Holds
<1>4. HoldersAreTheUndecided'
  BY <1>1, <1>3 DEF RingSound, HoldersAreTheUndecided, Holds
<1> QED
  BY <1>1, <1>2, <1>4 DEF RingSound

\* What is appended to a sequence.
LEMMA Appended ==
    ASSUME NEW T, NEW s \in Seq(T), NEW x \in T
    PROVE  /\ Append(s, x) \in Seq(T) /\ Len(s) \in Nat /\ Len(Append(s, x)) = Len(s) + 1
           /\ DOMAIN s = 1..Len(s) /\ DOMAIN Append(s, x) = 1..Len(s) + 1
           /\ Append(s, x)[Len(s) + 1] = x /\ \A i \in 1..Len(s) : Append(s, x)[i] = s[i]
OBVIOUS

\* The frame given to the inter encoder, and what it makes of it.
NewSent == [capture |-> job.capture, epoch |-> job.epoch, chain |-> chain.chain, seq |-> chain.nextSeq]

LEMMA SendInterSteps ==
    ASSUME WorkerTypes, NEW natural \in BOOLEAN, SendInter(natural)
    PROVE  /\ job # NoJob /\ job' = NoJob /\ pc = "send" /\ pc' = "receive" /\ encoder = "inter"
           /\ UNCHANGED <<window, captured, epoch, epochStart, queue, encoder, chainEpoch, nextChain>>
           /\ inFlight' = Append(inFlight, NewSent) /\ NewSent \in Sent /\ lastSent' = job.capture
           /\ chain' = CommitSend(chain, chain.wantKey) /\ WorkerTypes'
           /\ \E packet \in Packet :
                 /\ bitstream' = Append(bitstream, packet) /\ packet.seq = chain.nextSeq
                 /\ packet.key <=> chain.wantKey \/ natural
                 /\ packet.ref = IF packet.key THEN 0 ELSE lastSent
<1>1. /\ job # NoJob /\ job' = NoJob /\ pc = "send" /\ pc' = "receive" /\ encoder = "inter"
      /\ UNCHANGED <<window, captured, epoch, epochStart, queue, encoder, chainEpoch, nextChain>>
      /\ inFlight' = Append(inFlight, NewSent) /\ lastSent' = job.capture
      /\ chain' = CommitSend(chain, chain.wantKey)
  BY DEF SendInter, WorkerTypes, ringVars, NewSent
<1> DEFINE key == chain.wantKey \/ natural
           ref == IF key THEN 0 ELSE lastSent
           packet == [seq |-> chain.nextSeq, key |-> key, ref |-> ref]
<1>2. bitstream' = Append(bitstream, packet)
  BY Zenon DEF SendInter
<1>3. chain \in Tracker /\ lastSent \in Nat /\ job.capture \in Nat /\ job.epoch \in Nat
  BY DEF WorkerTypes
<1>4. chain.nextSeq \in Nat /\ chain.chain \in Nat /\ chain.wantKey \in BOOLEAN
  BY <1>3 DEF Tracker
<1>5. key \in BOOLEAN /\ ref \in Nat /\ (key <=> chain.wantKey \/ natural) /\ ref = IF key THEN 0 ELSE lastSent
  BY <1>3, <1>4
<1> HIDE DEF key, ref
<1>6. packet \in Packet /\ packet.seq = chain.nextSeq /\ packet.key = key /\ packet.ref = ref
  BY <1>4, <1>5 DEF Packet
<1> HIDE DEF packet
<1>7. NewSent \in Sent
  BY <1>3, <1>4 DEF NewSent, Sent
<1>8. WorkerTypes'
  <2>1. inFlight \in Seq(Sent) /\ bitstream \in Seq(Packet)
    BY DEF WorkerTypes
  <2>2. inFlight' \in Seq(Sent) /\ bitstream' \in Seq(Packet)
    BY <1>1, <1>2, <1>6, <1>7, <2>1, Appended
  <2>3. chain' \in Tracker /\ job' \in [capture : Nat, epoch : Nat]
    BY <1>1, <1>3, TrackerSteps DEF NoJob
  <2> QED
    BY <1>1, <1>3, <2>2, <2>3 DEF WorkerTypes
<1> QED
  BY <1>1, <1>2, <1>5, <1>6, <1>7, <1>8

LEMMA SendInterSound ==
    ASSUME RingSound, NEW natural \in BOOLEAN, SendInter(natural)
    PROVE  RingSound' /\ Frames' = Frames /\ Gone' = Gone
<1>w. WorkerTypes
  BY DEF RingSound
<1>1. /\ job # NoJob /\ job' = NoJob
      /\ UNCHANGED <<window, captured, epoch, epochStart, queue>>
      /\ inFlight' = Append(inFlight, NewSent) /\ NewSent \in Sent /\ WorkerTypes'
  BY <1>w, SendInterSteps
<1>2. Gone' = Gone /\ Frames' = Frames /\ RingInOrder'
  BY <1>1 DEF Gone, Frames, InterFrames, RingSound, RingInOrder
<1>3. /\ DOMAIN inFlight = 1..Len(inFlight) /\ DOMAIN inFlight' = 1..Len(inFlight) + 1 /\ Len(inFlight) \in Nat
      /\ inFlight'[Len(inFlight) + 1] = NewSent /\ \A i \in 1..Len(inFlight) : inFlight'[i] = inFlight[i]
  <2>1. inFlight \in Seq(Sent)
    BY <1>w DEF WorkerTypes
  <2> QED
    BY <1>1, <2>1, Appended
<1>4. NewSent.capture = job.capture /\ NewSent.epoch = job.epoch
  BY DEF NewSent
<1>5. HoldersInOrder'
  <2>1. HoldersInOrder
    BY DEF RingSound
  <2>2. \A i, j \in DOMAIN inFlight' : i < j => inFlight'[i].capture < inFlight'[j].capture
    <3> SUFFICES ASSUME NEW i \in 1..Len(inFlight) + 1, NEW j \in 1..Len(inFlight) + 1, i < j
                 PROVE  inFlight'[i].capture < inFlight'[j].capture
      BY <1>3
    <3>1. i \in 1..Len(inFlight) /\ inFlight'[i] = inFlight[i]
      BY <1>3
    <3>2. CASE j = Len(inFlight) + 1
      BY <1>1, <1>3, <1>4, <2>1, <3>1, <3>2 DEF HoldersInOrder
    <3>3. CASE j \in 1..Len(inFlight)
      BY <1>3, <2>1, <3>1, <3>3 DEF HoldersInOrder
    <3> QED
      BY <1>3, <3>2, <3>3
  <2>3. ASSUME NEW i \in DOMAIN inFlight'
        PROVE  inFlight'[i].capture \in 1..captured /\ \A k \in DOMAIN queue : inFlight'[i].capture < queue[k]
    <3>1. CASE i = Len(inFlight) + 1
      BY <1>1, <1>3, <1>4, <2>1, <3>1 DEF HoldersInOrder
    <3>2. CASE i \in 1..Len(inFlight)
      BY <1>3, <2>1, <3>2 DEF HoldersInOrder
    <3> QED
      BY <1>3, <3>1, <3>2
  <2> QED
    BY <1>1, <2>1, <2>2, <2>3 DEF HoldersInOrder
<1>6. \A c : Holds(c)' <=> Holds(c)
  <2> SUFFICES ASSUME NEW c
               PROVE  Holds(c)' <=> Holds(c)
    OBVIOUS
  <2>1. (\E i \in DOMAIN inFlight' : inFlight'[i].capture = c)
           <=> job.capture = c \/ \E i \in DOMAIN inFlight : inFlight[i].capture = c
    BY <1>3, <1>4
  <2> QED
    BY <1>1, <2>1 DEF Holds
<1>7. HoldersAreTheUndecided'
  <2>1. Settles({})
    BY <1>1, <1>w DEF Settles, WorkerTypes
  <2>2. \A i \in DOMAIN inFlight' :
           \/ \E j \in DOMAIN inFlight : inFlight'[i] = inFlight[j]
           \/ job # NoJob /\ inFlight'[i].capture = job.capture /\ inFlight'[i].epoch = job.epoch
    BY <1>1, <1>3, <1>4
  <2>3. \A c : Holds(c)' <=> Holds(c) /\ c \notin {}
    BY <1>6
  <2> QED
    BY <1>1, <1>2, <2>1, <2>2, <2>3, Released
<1> QED
  BY <1>1, <1>2, <1>5, <1>7 DEF RingSound

\* A capture may push the oldest slot out, and the frame in it.
LEMMA CaptureSound ==
    ASSUME RingSound, NEW submitted \in BOOLEAN, Capture(submitted)
    PROVE  /\ RingSound' /\ Gone' >= Gone /\ Frames' \subseteq Frames
           /\ \A f \in Frames : f.captureNs > Gone' => f \in Frames'
           /\ captured' = captured + 1 /\ (queue' = queue \/ queue' = Append(queue, captured + 1))
           /\ UNCHANGED <<epoch, epochStart, job, pc, codecVars, chainVars>>
<1> DEFINE full == Len(window) = SlotCount
           d == IF full THEN 1 ELSE 0
           rest == IF full THEN Tail(window) ELSE window
           new == [captureNs |-> captured', codec |-> "raw", key |-> FALSE,
                   state |-> IF submitted THEN "Reserved" ELSE "Dropped",
                   chain |-> NoChain, seq |-> 0, ref |-> 0]
<1>w. WorkerTypes
  BY DEF RingSound
<1>1. /\ captured' = captured + 1 /\ (full => window[1].state \in Settled)
      /\ window' = Append(rest, new)
      /\ queue' = (IF submitted THEN Append(queue, captured + 1) ELSE queue)
      /\ UNCHANGED <<epoch, epochStart, job, pc, codecVars, chainVars>>
  BY DEF Capture
<1>2. UNCHANGED <<epoch, epochStart, job, pc, encoder, inFlight, bitstream, lastSent, chain, chainEpoch, nextChain>>
  BY <1>1 DEF codecVars, chainVars
<1>3. /\ window \in Seq(AnySlot) /\ DOMAIN window = 1..Len(window) /\ Len(window) \in Nat /\ captured \in Nat
      /\ Gone \in Int /\ epochStart \in Nat /\ epochStart <= Gone
      /\ \A p \in 1..Len(window) : window[p].captureNs = Gone + p
  BY DEF RingSound, WorkerTypes, RingInOrder, Gone
<1>4. /\ new \in AnySlot /\ new.captureNs = captured + 1 /\ new.state = IF submitted THEN "Reserved" ELSE "Dropped"
  BY <1>1, <1>3 DEF AnySlot, SlotState, Undecided, Settled, Codecs, NoChain
<1>5. full => window # <<>>
  BY <1>3, ChainAssumption
<1> HIDE DEF new
<1>6. /\ d \in {0, 1} /\ (d = 1 <=> full) /\ rest \in Seq(AnySlot) /\ Len(rest) = Len(window) - d /\ Len(rest) \in Nat
      /\ \A p \in 1..Len(rest) : rest[p] = window[p + d] /\ p + d \in 1..Len(window)
  <2> HIDE DEF AnySlot
  <2>1. CASE full
    BY <1>3, <1>5, <2>1
  <2>2. CASE ~full
    BY <1>3, <2>2
  <2> QED
    BY <2>1, <2>2
<1> HIDE DEF full, d, rest
<1>7. /\ window' \in Seq(AnySlot) /\ Len(window') = Len(rest) + 1 /\ DOMAIN window' = 1..Len(rest) + 1
      /\ window'[Len(rest) + 1] = new /\ \A p \in 1..Len(rest) : window'[p] = window[p + d]
  BY <1>1, <1>4, <1>6, Appended
<1>8. Gone' = Gone + d /\ Gone' = captured - Len(rest)
  <2>1. Gone' = captured' - Len(window')
    BY DEF Gone
  <2> QED
    BY <1>1, <1>3, <1>6, <1>7, <2>1 DEF Gone
<1>9. RingInOrder'
  <2>1. ASSUME NEW p \in DOMAIN window'
        PROVE  window'[p].captureNs = Gone' + p
    <3>1. CASE p = Len(rest) + 1
      BY <1>3, <1>4, <1>6, <1>7, <1>8, <3>1
    <3>2. CASE p \in 1..Len(rest)
      <4>1. window'[p] = window[p + d] /\ p + d \in 1..Len(window)
        BY <1>6, <1>7, <3>2
      <4>2. window'[p].captureNs = Gone + (p + d)
        BY <1>3, <4>1
      <4> QED
        BY <1>3, <1>6, <1>8, <3>2, <4>2
    <3> QED
      BY <1>6, <1>7, <3>1, <3>2
  <2> QED
    BY <1>2, <1>3, <1>6, <1>8, <2>1 DEF RingInOrder
<1>10. Frames' \subseteq Frames
  <2> SUFFICES ASSUME NEW p \in InterFrames'
               PROVE  window'[p] \in Frames
    BY DEF Frames
  <2>1. p \in DOMAIN window' /\ IsReady(window'[p]) /\ window'[p].codec = "inter"
    BY DEF InterFrames
  <2>2. p # Len(rest) + 1
    BY <1>4, <1>7, <2>1 DEF IsReady
  <2>3. p \in 1..Len(rest) /\ window'[p] = window[p + d] /\ p + d \in DOMAIN window
    BY <1>3, <1>6, <1>7, <2>1, <2>2
  <2>4. p + d \in InterFrames
    BY <2>1, <2>3 DEF InterFrames
  <2> QED
    BY <2>3, <2>4 DEF Frames
<1>11. \A f \in Frames : f.captureNs > Gone' => f \in Frames'
  <2> SUFFICES ASSUME NEW q \in InterFrames, window[q].captureNs > Gone'
               PROVE  window[q] \in Frames'
    BY DEF Frames
  <2>1. q \in 1..Len(window) /\ IsReady(window[q]) /\ window[q].codec = "inter"
    BY <1>3 DEF InterFrames
  <2>2. q - d \in 1..Len(rest) /\ q - d + d = q
    BY <1>3, <1>6, <1>8, <2>1
  <2>3. window'[q - d] = window[q] /\ q - d \in DOMAIN window'
    BY <1>6, <1>7, <2>2
  <2>4. q - d \in InterFrames'
    BY <2>1, <2>3 DEF InterFrames
  <2> QED
    BY <2>3, <2>4 DEF Frames
<1>12. /\ queue \in Seq(Nat) /\ queue' \in Seq(Nat)
       /\ DOMAIN queue = 1..Len(queue) /\ Len(queue) \in Nat
       /\ submitted => /\ DOMAIN queue' = 1..Len(queue) + 1 /\ queue'[Len(queue) + 1] = captured + 1
                       /\ \A k \in 1..Len(queue) : queue'[k] = queue[k]
  <2>1. queue \in Seq(Nat) /\ captured + 1 \in Nat
    BY <1>w DEF WorkerTypes
  <2>2. Append(queue, captured + 1) \in Seq(Nat) /\ DOMAIN Append(queue, captured + 1) = 1..Len(queue) + 1
        /\ Append(queue, captured + 1)[Len(queue) + 1] = captured + 1 /\ Len(queue) \in Nat
        /\ DOMAIN queue = 1..Len(queue) /\ \A k \in 1..Len(queue) : Append(queue, captured + 1)[k] = queue[k]
    BY <2>1, Appended
  <2> QED
    BY <1>1, <2>1, <2>2
<1>13. WorkerTypes'
  BY <1>1, <1>2, <1>7, <1>12, <1>w DEF WorkerTypes
<1>14. HoldersInOrder'
  <2>0. HoldersInOrder
    BY DEF RingSound
  <2>1. \A c \in 1..captured : c \in 1..captured' /\ c < captured + 1
    BY <1>1, <1>3
  <2>2. CASE ~submitted
    <3>1. queue' = queue
      BY <1>1, <2>2
    <3> QED
      BY <1>2, <2>0, <2>1, <3>1 DEF HoldersInOrder
  <2>3. CASE submitted
    <3>1. \A k \in DOMAIN queue' : \/ k \in DOMAIN queue /\ queue'[k] = queue[k]
                                   \/ k = Len(queue) + 1 /\ queue'[k] = captured + 1
      BY <1>12, <2>3
    <3>2. captured + 1 \in 1..captured'
      BY <1>1, <1>3
    <3>3. /\ \A i \in DOMAIN inFlight : inFlight[i].capture \in 1..captured' /\ inFlight[i].capture < captured + 1
          /\ job # NoJob => job.capture \in 1..captured' /\ job.capture < captured + 1
          /\ \A k \in DOMAIN queue : queue[k] \in 1..captured' /\ queue[k] < captured + 1
      BY <2>0, <2>1 DEF HoldersInOrder
    <3>4. \A k, l \in DOMAIN queue' : k < l => queue'[k] < queue'[l]
      <4>1. \A k, l \in DOMAIN queue : k < l => queue[k] < queue[l]
        BY <2>0 DEF HoldersInOrder
      <4>2. \A k \in DOMAIN queue : k < Len(queue) + 1 /\ ~(Len(queue) + 1 < k)
        BY <1>12
      <4> QED
        BY <1>12, <3>1, <3>3, <4>1, <4>2
    <3> QED
      BY <1>2, <2>0, <3>1, <3>2, <3>3, <3>4 DEF HoldersInOrder
  <2> QED
    BY <2>2, <2>3
<1>15. \A c : Holds(c)' <=> Holds(c) \/ (submitted /\ c = captured + 1)
  <2> SUFFICES ASSUME NEW c
               PROVE  Holds(c)' <=> Holds(c) \/ (submitted /\ c = captured + 1)
    OBVIOUS
  <2>1. (\E k \in DOMAIN queue' : queue'[k] = c)
            <=> (\E k \in DOMAIN queue : queue[k] = c) \/ (submitted /\ c = captured + 1)
    <3>1. CASE submitted
      BY <1>12, <3>1
    <3>2. CASE ~submitted
      BY <1>1, <3>2
    <3> QED
      BY <3>1, <3>2
  <2> QED
    BY <1>2, <2>1 DEF Holds
<1>16. \A c : Holds(c) => c \in 1..captured
  BY DEF RingSound, HoldersInOrder, Holds
<1>17. HoldersAreTheUndecided'
  <2>0. HoldersAreTheUndecided
    BY DEF RingSound
  <2>1. (\A p \in DOMAIN window : window[p].state \in Undecided <=> Holds(window[p].captureNs))'
    <3> SUFFICES ASSUME NEW p \in 1..Len(rest) + 1
                 PROVE  (window[p].state \in Undecided <=> Holds(window[p].captureNs))'
      BY <1>7
    <3>1. PICK x : x = (window[p].captureNs)'
      OBVIOUS
    <3>2. Holds(window[p].captureNs)' <=> Holds(x)'
      BY <3>1 DEF Holds
    <3>3. CASE p = Len(rest) + 1
      <4>1. x = captured + 1 /\ (window'[p].state \in Undecided <=> submitted)
        BY <1>4, <1>7, <3>1, <3>3 DEF Undecided
      <4>2. ~Holds(x)
        BY <1>3, <1>16, <4>1
      <4> QED
        BY <1>15, <3>2, <4>1, <4>2
    <3>4. CASE p \in 1..Len(rest)
      <4>1. window'[p] = window[p + d] /\ p + d \in DOMAIN window
        BY <1>3, <1>6, <1>7, <3>4
      <4>2. x = Gone + (p + d) /\ p + d \in 1..Len(window)
        BY <1>3, <3>1, <4>1
      <4>3. x # captured + 1
        BY <1>3, <4>2 DEF Gone
      <4>4. window[p + d].state \in Undecided <=> Holds(x)
        BY <2>0, <3>1, <4>1 DEF HoldersAreTheUndecided
      <4> QED
        BY <1>15, <3>2, <4>1, <4>3, <4>4
    <3> QED
      BY <1>6, <3>3, <3>4
  <2>2. ASSUME NEW c \in 1..captured', Holds(c)', c > epochStart'
        PROVE  c > Gone'
    <3>1. CASE Holds(c)
      <4>1. c \in 1..captured /\ c > Gone
        BY <1>2, <1>16, <2>0, <2>2, <3>1 DEF HoldersAreTheUndecided
      <4>2. CASE full
        <5>1. 1 \in DOMAIN window /\ window[1].captureNs = Gone + 1
          BY <1>3, <1>5, <4>2
        <5>2. window[1].state \notin Undecided
          BY <1>1, <4>2 DEF Settled, Undecided
        <5>3. ~Holds(Gone + 1)
          BY <2>0, <5>1, <5>2 DEF HoldersAreTheUndecided
        <5> QED
          BY <1>3, <1>6, <1>8, <3>1, <4>1, <4>2, <5>3
      <4>3. CASE ~full
        BY <1>3, <1>6, <1>8, <4>1, <4>3
      <4> QED
        BY <4>2, <4>3
    <3>2. CASE ~Holds(c)
      <4>1. c = captured + 1
        BY <1>15, <2>2, <3>2
      <4> QED
        BY <1>3, <1>6, <1>8, <4>1
    <3> QED
      BY <3>1, <3>2
  <2>3. \A k \in DOMAIN queue' : queue'[k] > epochStart'
    <3>1. \A k \in DOMAIN queue : queue[k] > epochStart
      BY <2>0 DEF HoldersAreTheUndecided
    <3>2. captured + 1 > epochStart
      BY <1>3 DEF Gone
    <3> QED
      BY <1>1, <1>2, <1>12, <3>1, <3>2
  <2>4. \A c \in 1..captured' : Holds(c)' /\ c > epochStart' => c > Gone'
    BY <2>2
  <2> QED
    BY <1>2, <2>0, <2>1, <2>3, <2>4 DEF HoldersAreTheUndecided
<1>18. Gone' >= Gone
  BY <1>3, <1>6, <1>8
<1> QED
  BY <1>1, <1>9, <1>10, <1>11, <1>13, <1>14, <1>17, <1>18 DEF RingSound

LEMMA NewCycleSound ==
    ASSUME RingSound, NewCycle, epoch \in Nat, captured \in Nat
    PROVE  /\ RingSound' /\ Frames' = {} /\ epoch' = epoch + 1
           /\ UNCHANGED <<captured, job, pc, codecVars, chainVars>> /\ queue' = <<>>
<1>1. /\ epoch' = epoch + 1 /\ epochStart' = captured /\ window' = <<>> /\ queue' = <<>>
      /\ UNCHANGED <<captured, job, pc, codecVars, chainVars>>
  BY DEF NewCycle
<1>2. UNCHANGED <<captured, job, pc, encoder, inFlight, bitstream, lastSent, chain, chainEpoch, nextChain>>
  BY <1>1 DEF codecVars, chainVars
<1>3. window' \in Seq(AnySlot) /\ queue' \in Seq(Nat) /\ DOMAIN window' = {} /\ DOMAIN queue' = {} /\ Len(window') = 0
  BY <1>1
<1>4. Frames' = {} /\ Gone' = captured
  BY <1>1, <1>2, <1>3 DEF Frames, InterFrames, Gone
<1>5. WorkerTypes' /\ RingInOrder'
  BY <1>1, <1>2, <1>3, <1>4 DEF RingSound, WorkerTypes, RingInOrder
<1>6. HoldersInOrder'
  BY <1>1, <1>2, <1>3 DEF RingSound, HoldersInOrder
<1>7. HoldersAreTheUndecided'
  <2>1. \A c \in 1..captured : ~(c > captured)
    OBVIOUS
  <2>2. /\ job # NoJob => job.capture \in 1..captured
        /\ \A i \in DOMAIN inFlight : inFlight[i].capture \in 1..captured
    BY DEF RingSound, HoldersInOrder
  <2>3. /\ job.epoch <= epoch /\ job.epoch \in Nat /\ \A i \in DOMAIN inFlight : inFlight[i].epoch <= epoch
    BY DEF RingSound, HoldersAreTheUndecided, WorkerTypes
  <2>4. \A i \in DOMAIN inFlight : inFlight[i].epoch \in Nat
    <3>1. \A i \in DOMAIN inFlight : inFlight[i] \in Sent
      BY DEF RingSound, WorkerTypes
    <3> QED
      BY <3>1 DEF Sent
  <2> QED
    BY <1>1, <1>2, <1>3, <1>4, <2>1, <2>2, <2>3, <2>4 DEF HoldersAreTheUndecided
<1> QED
  BY <1>1, <1>4, <1>5, <1>6, <1>7 DEF RingSound
-----------------------------------------------------------------------------
(* What a step does to the frames in flight and to the chain.              *)

LEMMA Shapes ==
    ASSUME WorkerTypes
    PROVE  /\ DOMAIN inFlight = 1..Len(inFlight) /\ Len(inFlight) \in Nat
           /\ \A i \in DOMAIN inFlight : /\ inFlight[i].capture \in Nat /\ inFlight[i].epoch \in Nat
                                         /\ inFlight[i].chain \in Nat /\ inFlight[i].seq \in Nat
           /\ DOMAIN bitstream = 1..Len(bitstream) /\ Len(bitstream) \in Nat
           /\ \A i \in DOMAIN bitstream : /\ bitstream[i].seq \in Nat /\ bitstream[i].ref \in Nat
                                          /\ bitstream[i].key \in BOOLEAN
           /\ chain.chain \in Nat /\ chain.nextSeq \in Nat
           /\ chain.wantKey \in BOOLEAN /\ chain.broken \in BOOLEAN
           /\ job.capture \in Nat /\ job.epoch \in Nat
<1>1. DOMAIN inFlight = 1..Len(inFlight) /\ Len(inFlight) \in Nat /\ \A i \in DOMAIN inFlight : inFlight[i] \in Sent
  BY DEF WorkerTypes
<1>2. DOMAIN bitstream = 1..Len(bitstream) /\ Len(bitstream) \in Nat
      /\ \A i \in DOMAIN bitstream : bitstream[i] \in Packet
  BY DEF WorkerTypes
<1>3. chain \in Tracker /\ job \in [capture : Nat, epoch : Nat]
  BY DEF WorkerTypes
<1>4. chain.chain \in Nat /\ chain.nextSeq \in Nat /\ chain.wantKey \in BOOLEAN /\ chain.broken \in BOOLEAN
  BY <1>3 DEF Tracker
<1> QED
  BY <1>1, <1>2, <1>3, <1>4 DEF Sent, Packet

\* The packet received belongs to the oldest frame in flight; of this cycle, it is of the current chain
\* and nothing was swallowed.
LEMMA ReceiveSteps ==
    ASSUME RingSound, ChainsInOrder, SentBefore, NEW lost \in BOOLEAN, Receive(lost)
    PROVE  /\ Len(inFlight) >= 1 /\ Len(bitstream) >= 1 /\ Lost' = Lost
           /\ Head(inFlight) = inFlight[1] /\ Head(bitstream) = bitstream[1]
           /\ Len(inFlight') = Len(inFlight) - 1 /\ DOMAIN inFlight' = 1..Len(inFlight) - 1
           /\ \A i \in 1..Len(inFlight) - 1 : inFlight'[i] = inFlight[i + 1]
           /\ Len(bitstream') = Len(bitstream) - 1 /\ DOMAIN bitstream' = 1..Len(bitstream) - 1
           /\ \A i \in 1..Len(bitstream) - 1 : bitstream'[i] = bitstream[i + 1]
           /\ inFlight[1].seq = bitstream[1].seq
           /\ inFlight[1].chain = chain.chain => Lost = 0
           /\ inFlight[1].epoch = epoch => inFlight[1].chain = chain.chain /\ chainEpoch = epoch /\ Lost = 0
<1>w. WorkerTypes
  BY DEF RingSound
<1>1. /\ inFlight # <<>> /\ bitstream # <<>> /\ Head(inFlight).seq = Head(bitstream).seq
      /\ inFlight' = Tail(inFlight) /\ bitstream' = Tail(bitstream)
  BY DEF Receive, Receiving, InOrder
<1>2. inFlight \in Seq(Sent) /\ bitstream \in Seq(Packet)
  BY <1>w DEF WorkerTypes
<1> HIDE DEF Sent, Packet
<1>3. /\ Len(inFlight) >= 1 /\ Head(inFlight) = inFlight[1]
      /\ Len(inFlight') = Len(inFlight) - 1 /\ DOMAIN inFlight' = 1..Len(inFlight) - 1
      /\ \A i \in 1..Len(inFlight) - 1 : inFlight'[i] = inFlight[i + 1]
  BY <1>1, <1>2
<1>4. /\ Len(bitstream) >= 1 /\ Head(bitstream) = bitstream[1]
      /\ Len(bitstream') = Len(bitstream) - 1 /\ DOMAIN bitstream' = 1..Len(bitstream) - 1
      /\ \A i \in 1..Len(bitstream) - 1 : bitstream'[i] = bitstream[i + 1]
  BY <1>1, <1>2
<1>5. Len(inFlight) \in Nat /\ Len(bitstream) \in Nat
  BY <1>2
<1>6. Lost' = Lost /\ Lost \in Nat
  BY <1>3, <1>4, <1>5 DEF Lost, SentBefore
<1>7. inFlight[1].chain = chain.chain => Lost = 0
  <2> SUFFICES ASSUME inFlight[1].chain = chain.chain, Lost # 0
               PROVE  FALSE
    OBVIOUS
  <2>1. 1 \in DOMAIN inFlight /\ Lost + 1 \in DOMAIN inFlight /\ 1 < Lost + 1 /\ 1 \in DOMAIN bitstream
    BY <1>2, <1>3, <1>4, <1>5, <1>6 DEF Lost
  <2>2. bitstream[1].seq = inFlight[Lost + 1].seq
    BY <2>1 DEF SentBefore
  <2>3. inFlight[1].chain <= inFlight[Lost + 1].chain /\ inFlight[Lost + 1].chain <= chain.chain
    BY <2>1 DEF ChainsInOrder
  <2>4. inFlight[1].chain = inFlight[Lost + 1].chain
    BY <2>1, <2>3, <1>w, Shapes
  <2>5. inFlight[1].seq < inFlight[Lost + 1].seq
    BY <2>1, <2>4 DEF ChainsInOrder
  <2> QED
    BY <1>1, <1>3, <1>4, <1>w, <2>1, <2>2, <2>5, Shapes
<1>8. inFlight[1].epoch = epoch => inFlight[1].chain = chain.chain /\ chainEpoch = epoch
  <2>1. 1 \in DOMAIN inFlight
    BY <1>2, <1>3, <1>5
  <2>2. /\ inFlight[1].epoch <= chainEpoch /\ chainEpoch <= epoch
        /\ inFlight[1].epoch = chainEpoch <=> inFlight[1].chain = chain.chain
    BY <2>1 DEF ChainsInOrder
  <2>3. chainEpoch \in Nat /\ epoch \in Nat
    BY <1>w DEF WorkerTypes
  <2> QED
    BY <2>2, <2>3
<1> QED
  BY <1>1, <1>3, <1>4, <1>6, <1>7, <1>8

LEMMA LoseSteps ==
    ASSUME WorkerTypes, SentBefore, LosePacket
    PROVE  /\ Len(bitstream) >= 1 /\ Len(bitstream') = Len(bitstream) - 1
           /\ DOMAIN bitstream' = 1..Len(bitstream) - 1
           /\ \A i \in 1..Len(bitstream) - 1 : bitstream'[i] = bitstream[i + 1]
           /\ Lost' = Lost + 1 /\ Lost \in Nat /\ bitstream' \in Seq(Packet)
           /\ UNCHANGED <<window, captured, epoch, epochStart, queue, job, pc, encoder, inFlight, lastSent, chain,
                          chainEpoch, nextChain>>
<1>1. /\ bitstream # <<>> /\ bitstream' = Tail(bitstream)
      /\ UNCHANGED <<window, captured, epoch, epochStart, queue, job, pc, encoder, inFlight, lastSent, chain,
                     chainEpoch, nextChain>>
  BY DEF LosePacket, ringVars, chainVars
<1>2. inFlight \in Seq(Sent) /\ bitstream \in Seq(Packet)
  BY DEF WorkerTypes
<1> HIDE DEF Sent, Packet
<1>3. /\ Len(bitstream) >= 1 /\ Len(bitstream) \in Nat
      /\ Len(bitstream') = Len(bitstream) - 1 /\ DOMAIN bitstream' = 1..Len(bitstream) - 1
      /\ \A i \in 1..Len(bitstream) - 1 : bitstream'[i] = bitstream[i + 1]
      /\ bitstream' \in Seq(Packet)
  BY <1>1, <1>2
<1>4. Lost' = Lost + 1 /\ Lost \in Nat
  BY <1>1, <1>2, <1>3 DEF Lost, SentBefore
<1> QED
  BY <1>1, <1>3, <1>4

\* A frame is sent: one more in flight, its packet the last one.
LEMMA SendSteps ==
    ASSUME WorkerTypes, NEW natural \in BOOLEAN, SendInter(natural)
    PROVE  /\ Len(inFlight') = Len(inFlight) + 1 /\ DOMAIN inFlight' = 1..Len(inFlight) + 1
           /\ inFlight'[Len(inFlight) + 1] = NewSent
           /\ \A i \in 1..Len(inFlight) : inFlight'[i] = inFlight[i]
           /\ Len(bitstream') = Len(bitstream) + 1 /\ DOMAIN bitstream' = 1..Len(bitstream) + 1
           /\ \A i \in 1..Len(bitstream) : bitstream'[i] = bitstream[i]
           /\ bitstream'[Len(bitstream) + 1].seq = chain.nextSeq
           /\ bitstream'[Len(bitstream) + 1].key <=> chain.wantKey \/ natural
           /\ bitstream'[Len(bitstream) + 1].ref = IF chain.wantKey \/ natural THEN 0 ELSE lastSent
           /\ Lost' = Lost
<1>1. PICK packet \in Packet :
           /\ bitstream' = Append(bitstream, packet) /\ packet.seq = chain.nextSeq
           /\ packet.key <=> chain.wantKey \/ natural
           /\ packet.ref = IF packet.key THEN 0 ELSE lastSent
  BY SendInterSteps
<1>2. inFlight' = Append(inFlight, NewSent) /\ NewSent \in Sent
  BY SendInterSteps
<1>3. inFlight \in Seq(Sent) /\ bitstream \in Seq(Packet)
  BY DEF WorkerTypes
<1> HIDE DEF Sent, Packet
<1>4. /\ Len(inFlight') = Len(inFlight) + 1 /\ DOMAIN inFlight' = 1..Len(inFlight) + 1 /\ Len(inFlight) \in Nat
      /\ inFlight'[Len(inFlight) + 1] = NewSent /\ \A i \in 1..Len(inFlight) : inFlight'[i] = inFlight[i]
  BY <1>2, <1>3, Appended
<1>5. /\ Len(bitstream') = Len(bitstream) + 1 /\ DOMAIN bitstream' = 1..Len(bitstream) + 1 /\ Len(bitstream) \in Nat
      /\ bitstream'[Len(bitstream) + 1] = packet /\ \A i \in 1..Len(bitstream) : bitstream'[i] = bitstream[i]
  BY <1>1, <1>3, Appended
<1>6. Lost' = Lost
  BY <1>4, <1>5 DEF Lost
<1> QED
  BY <1>1, <1>4, <1>5, <1>6

\* A packet received changes whether its chain is broken and wants a key, not where it is.
LEMMA ReceiveKeeps ==
    ASSUME RingSound, ChainsInOrder, SentBefore, NEW lost \in BOOLEAN, Receive(lost)
    PROVE  chain'.chain = chain.chain /\ chain'.nextSeq = chain.nextSeq
<1>w. WorkerTypes
  BY DEF RingSound
<1>1. Len(bitstream) >= 1 /\ Head(bitstream) = bitstream[1]
  BY ReceiveSteps
<1>2. DOMAIN bitstream = 1..Len(bitstream) /\ Len(bitstream) \in Nat
      /\ \A i \in DOMAIN bitstream : bitstream[i].key \in BOOLEAN
  BY <1>w, Shapes
<1>3. bitstream[1].key \in BOOLEAN
  BY <1>1, <1>2
<1>4. chain \in Tracker
  BY <1>w DEF WorkerTypes
<1> QED
  BY <1>1, <1>3, <1>4, TrackerSteps DEF Receive

\* The encoder that takes the job: the chain is kept, or another one starts. An inter encoder that is
\* kept starts one only for a cycle after everything it holds.
ChainKept ==
    /\ UNCHANGED <<encoder, lastSent, chain, chainEpoch, nextChain>>
    /\ chainEpoch = job.epoch
ChainStarted ==
    /\ chain' = Started(nextChain) /\ nextChain' = nextChain + 1 /\ chainEpoch' = job.epoch
    /\ encoder = "inter" => chainEpoch < job.epoch
    /\ lastSent' \in {0, lastSent} /\ encoder' \in {"intra", "inter"}
    /\ encoder' # "inter" => encoder # "inter"

LEMMA ChooseSteps ==
    ASSUME RingSound, ChainsInOrder, NEW adopt \in BOOLEAN, NEW resized \in BOOLEAN, ChooseEncoder(adopt, resized)
    PROVE  /\ UNCHANGED <<window, captured, epoch, epochStart, queue, job, inFlight, bitstream>>
           /\ job # NoJob /\ pc' = "send" /\ WorkerTypes' /\ (ChainKept \/ ChainStarted)
<1> DEFINE fresh == encoder = "none" \/ adopt \/ resized
<1>w. WorkerTypes
  BY DEF RingSound
<1>1. /\ UNCHANGED <<window, captured, epoch, epochStart, queue, job, inFlight, bitstream>>
      /\ job # NoJob /\ pc' = "send" /\ pc = "choose"
      /\ adopt => encoder # "inter"
      /\ resized => encoder = "intra"
      /\ encoder' = IF adopt THEN "inter" ELSE IF encoder = "none" THEN "intra" ELSE encoder
      /\ lastSent' = IF fresh THEN 0 ELSE lastSent
      /\ IF fresh \/ chainEpoch # job.epoch
         THEN chain' = Started(nextChain) /\ nextChain' = nextChain + 1 /\ chainEpoch' = job.epoch
         ELSE UNCHANGED <<chain, chainEpoch, nextChain>>
  BY <1>w DEF ChooseEncoder, RestartsChain, ringVars, chainVars, WorkerTypes
<1>2. encoder \in {"none", "intra", "inter"} /\ chainEpoch \in Nat /\ job.epoch \in Nat /\ nextChain \in Nat \ {0}
      /\ lastSent \in Nat
  BY <1>w, Shapes DEF WorkerTypes
<1>3. chainEpoch <= job.epoch
  BY <1>1 DEF ChainsInOrder
<1>4. CASE fresh \/ chainEpoch # job.epoch
  <2>1. encoder = "inter" => chainEpoch # job.epoch
    BY <1>1, <1>4
  <2>2. ChainStarted
    <3>1. encoder' \in {"intra", "inter"} /\ (encoder' # "inter" => encoder # "inter")
      BY <1>1, <1>2
    <3>2. encoder = "inter" => chainEpoch < job.epoch
      BY <1>2, <1>3, <2>1
    <3> QED
      BY <1>1, <1>2, <1>4, <3>1, <3>2 DEF ChainStarted
  <2>3. chain' \in Tracker /\ chainEpoch' \in Nat /\ nextChain' \in Nat \ {0} /\ lastSent' \in Nat
        /\ encoder' \in {"none", "intra", "inter"}
    BY <1>1, <1>2, <1>4, <2>2 DEF Started, Tracker, ChainStarted
  <2>4. WorkerTypes'
    BY <1>1, <1>w, <2>2, <2>3 DEF WorkerTypes, ChainStarted
  <2> QED
    BY <1>1, <2>2, <2>4
<1>5. CASE ~(fresh \/ chainEpoch # job.epoch)
  <2>1. ChainKept
    BY <1>1, <1>2, <1>5 DEF ChainKept
  <2>2. WorkerTypes'
    BY <1>1, <1>w, <2>1 DEF WorkerTypes, ChainKept
  <2> QED
    BY <1>1, <2>1, <2>2
<1> QED
  BY <1>4, <1>5

\* The steps of the decoder, and those of the worker that only move it on.
Idles ==
    /\ UNCHANGED <<window, captured, epoch, epochStart, queue, job, encoder, inFlight, bitstream, lastSent,
                   chain, chainEpoch, nextChain>>
    /\ pc' = pc \/ (pc = "idle" /\ pc' = "retire") \/ (pc = "receive" /\ pc' = "idle")

EncoderStep ==
    \/ \E submitted \in BOOLEAN : Capture(submitted)
    \/ NewCycle
    \/ \E retire \in BOOLEAN : TakeJob(retire)
    \/ Flushed
    \/ \E adopt, resized \in BOOLEAN : ChooseEncoder(adopt, resized)
    \/ JobDone
    \/ \E natural \in BOOLEAN : SendInter(natural)
    \/ \E lost \in BOOLEAN : Receive(lost)
    \/ LosePacket
    \/ Idles

LEMMA EncoderSteps ==
    ASSUME RingSound, EncodeNext
    PROVE  EncoderStep
<1>w. WorkerTypes
  BY DEF RingSound
<1>1. RetireIdle \/ EndReceive => Idles
  BY DEF RetireIdle, EndReceive, Idles, ringVars, codecVars, chainVars
<1>2. SendIntra \/ SendBusy \/ SendFails => JobDone
  BY JobSteps
<1>3. FinishRetire \/ CloseEncoder \/ FailInter => Flushed
  BY <1>w, FlushSteps
<1> QED
  BY <1>1, <1>2, <1>3 DEF EncodeNext, EncoderStep

LEMMA RingStays ==
    ASSUME RingSound, ChainsInOrder, SentBefore, EncoderStep
    PROVE  RingSound'
<1>w. WorkerTypes
  BY DEF RingSound
<1>1. ASSUME NEW submitted \in BOOLEAN, Capture(submitted) PROVE RingSound'
  BY <1>1, CaptureSound
<1>2. CASE NewCycle
  BY <1>2, <1>w, NewCycleSound DEF WorkerTypes
<1>3. ASSUME NEW retire \in BOOLEAN, TakeJob(retire) PROVE RingSound'
  BY <1>3, TakeJobSound
<1>4. CASE Flushed
  BY <1>4, FlushedSound
<1>5. ASSUME NEW adopt \in BOOLEAN, NEW resized \in BOOLEAN, ChooseEncoder(adopt, resized) PROVE RingSound'
  <2>1. UNCHANGED <<window, captured, epoch, epochStart, queue, inFlight, job>> /\ WorkerTypes'
    BY <1>5, ChooseSteps
  <2> QED
    BY <2>1, StillSound
<1>6. CASE JobDone
  BY <1>6, JobDoneSound
<1>7. ASSUME NEW natural \in BOOLEAN, SendInter(natural) PROVE RingSound'
  BY <1>7, SendInterSound
<1>8. ASSUME NEW lost \in BOOLEAN, Receive(lost) PROVE RingSound'
  BY <1>8, ReceiveSound
<1>9. CASE LosePacket
  <2>1. UNCHANGED <<window, captured, epoch, epochStart, queue, inFlight, job>> /\ WorkerTypes'
    <3>1. bitstream' \in Seq(Packet)
          /\ UNCHANGED <<window, captured, epoch, epochStart, queue, job, pc, encoder, inFlight, lastSent, chain,
                         chainEpoch, nextChain>>
          /\ Len(bitstream) >= 1
      BY <1>9, <1>w, LoseSteps
    <3>2. encoder = "inter"
      BY <1>w, <3>1 DEF WorkerTypes
    <3> QED
      BY <1>w, <3>1, <3>2 DEF WorkerTypes
  <2> QED
    BY <2>1, StillSound
<1>10. CASE Idles
  <2>1. UNCHANGED <<window, captured, epoch, epochStart, queue, inFlight, job>> /\ WorkerTypes'
    BY <1>10, <1>w DEF Idles, WorkerTypes
  <2> QED
    BY <2>1, StillSound
<1> QED
  BY <1>1, <1>2, <1>3, <1>4, <1>5, <1>6, <1>7, <1>8, <1>9, <1>10 DEF EncoderStep

LEMMA ChainsStay ==
    ASSUME RingSound, ChainsInOrder, SentBefore, EncoderStep
    PROVE  ChainsInOrder'
<1>w. WorkerTypes
  BY DEF RingSound
<1>s. /\ DOMAIN inFlight = 1..Len(inFlight) /\ Len(inFlight) \in Nat
      /\ \A i \in DOMAIN inFlight : /\ inFlight[i].capture \in Nat /\ inFlight[i].epoch \in Nat
                                    /\ inFlight[i].chain \in Nat /\ inFlight[i].seq \in Nat
      /\ chain.chain \in Nat /\ chain.nextSeq \in Nat /\ job.epoch \in Nat
  BY <1>w, Shapes
<1>t. epoch \in Nat /\ chainEpoch \in Nat /\ nextChain \in Nat /\ chain \in Tracker
  BY <1>w DEF WorkerTypes
<1>h. job.epoch <= epoch /\ \A i \in DOMAIN inFlight : inFlight[i].epoch <= epoch
  BY DEF RingSound, HoldersAreTheUndecided
<1>1. ASSUME NEW submitted \in BOOLEAN, Capture(submitted) PROVE ChainsInOrder'
  <2>1. UNCHANGED <<epoch, epochStart, job, pc, codecVars, chainVars>>
    BY <1>1, CaptureSound
  <2> QED
    BY <2>1 DEF ChainsInOrder, codecVars, chainVars
<1>2. CASE NewCycle
  <2>1. epoch' = epoch + 1 /\ UNCHANGED <<captured, job, pc, codecVars, chainVars>>
    BY <1>2 DEF NewCycle
  <2> QED
    BY <2>1, <1>t DEF ChainsInOrder, codecVars, chainVars
<1>3. ASSUME NEW retire \in BOOLEAN, TakeJob(retire) PROVE ChainsInOrder'
  <2>1. /\ epoch' = epoch /\ job'.epoch = epoch /\ pc' # "send" /\ UNCHANGED <<codecVars, chainVars>>
    BY <1>3 DEF TakeJob
  <2> QED
    BY <2>1, <1>t DEF ChainsInOrder, codecVars, chainVars
<1>4. CASE Flushed
  <2>1. /\ epoch' = epoch /\ job' = job /\ pc' # "send" /\ DOMAIN inFlight' = {} /\ UNCHANGED chainVars
    BY <1>4 DEF Flushed, ringVars
  <2> QED
    BY <2>1 DEF ChainsInOrder, chainVars
<1>5. ASSUME NEW adopt \in BOOLEAN, NEW resized \in BOOLEAN, ChooseEncoder(adopt, resized) PROVE ChainsInOrder'
  <2>1. /\ epoch' = epoch /\ job' = job /\ inFlight' = inFlight /\ job # NoJob /\ (ChainKept \/ ChainStarted)
    BY <1>5, ChooseSteps
  <2>2. CASE ChainKept
    BY <2>1, <2>2 DEF ChainsInOrder, ChainKept
  <2>3. CASE ChainStarted
    <3>1. /\ chain'.chain = nextChain /\ chain'.nextSeq = 0 /\ chainEpoch' = job.epoch /\ nextChain' = nextChain + 1
      BY <2>3 DEF ChainStarted, Started
    <3>2. \A i \in DOMAIN inFlight : /\ inFlight[i].epoch <= chainEpoch /\ inFlight[i].chain <= chain.chain
                                     /\ chainEpoch < job.epoch
      <4>1. CASE encoder = "inter"
        BY <2>3, <4>1 DEF ChainStarted, ChainsInOrder
      <4>2. CASE encoder # "inter"
        <5>1. DOMAIN inFlight = {}
          BY <1>w, <4>2 DEF WorkerTypes
        <5> QED
          BY <5>1
      <4> QED
        BY <4>1, <4>2
    <3>3. chain.chain < nextChain
      BY DEF ChainsInOrder
    <3>4. \A i \in DOMAIN inFlight : /\ inFlight[i].epoch < job.epoch /\ inFlight[i].chain < nextChain
      BY <1>s, <1>t, <3>2, <3>3
    <3> QED
      BY <1>h, <1>s, <1>t, <2>1, <3>1, <3>4 DEF ChainsInOrder
  <2> QED
    BY <2>1, <2>2, <2>3
<1>6. CASE JobDone
  <2>1. /\ epoch' = epoch /\ job' = NoJob /\ pc' = "idle" /\ inFlight' = inFlight /\ chainEpoch' = chainEpoch
        /\ nextChain' = nextChain /\ chain'.chain = chain.chain /\ chain'.nextSeq >= chain.nextSeq /\ chain' \in Tracker
    BY <1>6 DEF JobDone, ringVars, codecVars
  <2>2. chain'.nextSeq \in Nat
    BY <2>1 DEF Tracker
  <2>3. \A i \in DOMAIN inFlight : inFlight[i].chain = chain.chain => inFlight[i].seq < chain'.nextSeq
    BY <1>s, <2>1, <2>2 DEF ChainsInOrder
  <2> QED
    BY <2>1, <2>3 DEF ChainsInOrder
<1>7. ASSUME NEW natural \in BOOLEAN, SendInter(natural) PROVE ChainsInOrder'
  <2>1. /\ epoch' = epoch /\ job # NoJob /\ job' = NoJob /\ pc = "send" /\ pc' = "receive" /\ chainEpoch' = chainEpoch
        /\ nextChain' = nextChain /\ chain' = CommitSend(chain, chain.wantKey)
    BY <1>7, <1>w, SendInterSteps
  <2>2. chain'.chain = chain.chain /\ chain'.nextSeq = chain.nextSeq + 1
    BY <2>1, <1>t, TrackerSteps
  <2>3. /\ DOMAIN inFlight' = 1..Len(inFlight) + 1 /\ inFlight'[Len(inFlight) + 1] = NewSent
        /\ \A i \in 1..Len(inFlight) : inFlight'[i] = inFlight[i]
    BY <1>7, <1>w, SendSteps
  <2>4. NewSent.epoch = chainEpoch /\ NewSent.chain = chain.chain /\ NewSent.seq = chain.nextSeq
    BY <2>1 DEF NewSent, ChainsInOrder
  <2>5. ASSUME NEW i \in DOMAIN inFlight'
        PROVE  /\ inFlight'[i].epoch <= chainEpoch /\ inFlight'[i].chain <= chain.chain
               /\ inFlight'[i].epoch = chainEpoch <=> inFlight'[i].chain = chain.chain
               /\ inFlight'[i].chain = chain.chain => inFlight'[i].seq < chain.nextSeq + 1
    <3>1. CASE i = Len(inFlight) + 1
      BY <1>s, <1>t, <2>3, <2>4, <3>1
    <3>2. CASE i \in 1..Len(inFlight)
      BY <1>s, <1>t, <2>3, <3>2 DEF ChainsInOrder
    <3> QED
      BY <1>s, <2>3, <3>1, <3>2
  <2>6. ASSUME NEW i \in DOMAIN inFlight', NEW j \in DOMAIN inFlight', i < j
        PROVE  /\ inFlight'[i].chain <= inFlight'[j].chain
               /\ inFlight'[i].chain = inFlight'[j].chain => inFlight'[i].seq < inFlight'[j].seq
    <3>1. i \in 1..Len(inFlight) /\ inFlight'[i] = inFlight[i]
      BY <1>s, <2>3, <2>6
    <3>2. CASE j = Len(inFlight) + 1
      BY <1>s, <1>t, <2>3, <2>4, <3>1, <3>2 DEF ChainsInOrder
    <3>3. CASE j \in 1..Len(inFlight)
      BY <1>s, <2>3, <2>6, <3>1, <3>3 DEF ChainsInOrder
    <3> QED
      BY <1>s, <2>3, <3>2, <3>3
  <2> QED
    BY <2>1, <2>2, <2>5, <2>6 DEF ChainsInOrder
<1>8. ASSUME NEW lost \in BOOLEAN, Receive(lost) PROVE ChainsInOrder'
  <2>1. /\ epoch' = epoch /\ job' = job /\ pc' = pc /\ chainEpoch' = chainEpoch /\ nextChain' = nextChain
    BY <1>8 DEF Receive, ringVars
  <2>2. chain'.chain = chain.chain /\ chain'.nextSeq = chain.nextSeq
    BY <1>8, ReceiveKeeps
  <2>3. DOMAIN inFlight' = 1..Len(inFlight) - 1 /\ \A i \in 1..Len(inFlight) - 1 : inFlight'[i] = inFlight[i + 1]
    BY <1>8, ReceiveSteps
  <2>4. \A i \in DOMAIN inFlight' : i + 1 \in DOMAIN inFlight /\ inFlight'[i] = inFlight[i + 1]
    BY <1>s, <2>3
  <2>5. \A i, j \in DOMAIN inFlight' : i < j => i + 1 < j + 1
    BY <1>s, <2>3
  <2> QED
    BY <2>1, <2>2, <2>4, <2>5 DEF ChainsInOrder
<1>9. CASE LosePacket
  BY <1>9, <1>w, LoseSteps DEF ChainsInOrder
<1>10. CASE Idles
  BY <1>10 DEF Idles, ChainsInOrder
<1> QED
  BY <1>1, <1>2, <1>3, <1>4, <1>5, <1>6, <1>7, <1>8, <1>9, <1>10 DEF EncoderStep

\* The packets still to come, and their references.
LEMMA ReferencesStay ==
    ASSUME RingSound, ChainsInOrder, SentBefore, EncoderStep
    PROVE  SentBefore'
<1>w. WorkerTypes
  BY DEF RingSound
<1>o. HoldersInOrder
  BY DEF RingSound
<1>s. /\ DOMAIN inFlight = 1..Len(inFlight) /\ Len(inFlight) \in Nat
      /\ DOMAIN bitstream = 1..Len(bitstream) /\ Len(bitstream) \in Nat
      /\ captured \in Nat /\ lastSent \in Nat /\ job.capture \in Nat
      /\ Lost \in Nat /\ Lost = Len(inFlight) - Len(bitstream)
  BY <1>w, Shapes DEF WorkerTypes, SentBefore, Lost
<1>1. ASSUME NEW submitted \in BOOLEAN, Capture(submitted) PROVE SentBefore'
  <2>1. /\ UNCHANGED <<epoch, epochStart, job, pc, codecVars, chainVars>> /\ captured' = captured + 1
        /\ (queue' = queue \/ queue' = Append(queue, captured + 1))
    BY <1>1, CaptureSound
  <2>2. UNCHANGED <<job, inFlight, bitstream, lastSent>>
    BY <2>1 DEF codecVars
  <2>3. lastSent <= captured + 1 /\ lastSent < captured + 1
    BY <1>s DEF SentBefore
  <2>4. \A k \in DOMAIN queue' : lastSent < queue'[k]
    <3>1. \A k \in DOMAIN queue : lastSent < queue[k]
      BY DEF SentBefore
    <3>2. CASE queue' = queue
      BY <3>1, <3>2
    <3>3. CASE queue' = Append(queue, captured + 1)
      <4>1. queue \in Seq(Nat) /\ captured + 1 \in Nat
        BY <1>s, <1>w DEF WorkerTypes
      <4>2. /\ DOMAIN queue' = 1..Len(queue) + 1 /\ DOMAIN queue = 1..Len(queue) /\ Len(queue) \in Nat
            /\ queue'[Len(queue) + 1] = captured + 1 /\ \A k \in 1..Len(queue) : queue'[k] = queue[k]
        BY <3>3, <4>1, Appended
      <4> QED
        BY <2>3, <3>1, <4>2
    <3> QED
      BY <2>1, <3>2, <3>3
  <2>5. Lost' = Lost
    BY <2>2 DEF Lost
  <2> QED
    BY <2>1, <2>2, <2>3, <2>4, <2>5 DEF SentBefore
<1>2. CASE NewCycle
  <2>1. /\ UNCHANGED <<captured, job, inFlight, bitstream, lastSent>> /\ DOMAIN queue' = {}
    BY <1>2 DEF NewCycle, codecVars
  <2>2. Lost' = Lost
    BY <2>1 DEF Lost
  <2> QED
    BY <2>1, <2>2 DEF SentBefore
<1>3. ASSUME NEW retire \in BOOLEAN, TakeJob(retire) PROVE SentBefore'
  <2>1. /\ UNCHANGED <<captured, inFlight, bitstream, lastSent>> /\ job'.capture = Head(queue) /\ queue' = Tail(queue)
        /\ queue # <<>>
    BY <1>3 DEF TakeJob, codecVars
  <2>2. queue \in Seq(Nat)
    BY <1>w DEF WorkerTypes
  <2>3. /\ 1 \in DOMAIN queue /\ Head(queue) = queue[1]
        /\ \A k \in DOMAIN Tail(queue) : k + 1 \in DOMAIN queue /\ Tail(queue)[k] = queue[k + 1]
    BY <2>1, <2>2
  <2>4. Lost' = Lost
    BY <2>1 DEF Lost
  <2> QED
    BY <2>1, <2>3, <2>4 DEF SentBefore
<1>4. CASE Flushed
  <2>1. /\ UNCHANGED <<captured, queue, job>> /\ lastSent' = 0 /\ Len(inFlight') = 0 /\ Len(bitstream') = 0
        /\ DOMAIN bitstream' = {}
    BY <1>4 DEF Flushed, ringVars
  <2>2. (job # NoJob => 0 < job.capture) /\ \A k \in DOMAIN queue : 0 < queue[k]
    BY <1>o DEF HoldersInOrder
  <2> QED
    BY <1>s, <2>1, <2>2 DEF SentBefore
<1>5. ASSUME NEW adopt \in BOOLEAN, NEW resized \in BOOLEAN, ChooseEncoder(adopt, resized) PROVE SentBefore'
  <2>1. /\ UNCHANGED <<captured, queue, job, inFlight, bitstream>> /\ lastSent' \in {0, lastSent}
    BY <1>5, ChooseSteps DEF ChainKept, ChainStarted
  <2>2. (job # NoJob => 0 < job.capture) /\ \A k \in DOMAIN queue : 0 < queue[k]
    BY <1>o DEF HoldersInOrder
  <2>3. Lost' = Lost
    BY <2>1 DEF Lost
  <2> QED
    BY <1>s, <2>1, <2>2, <2>3 DEF SentBefore
<1>6. CASE JobDone
  <2>1. UNCHANGED <<captured, queue, inFlight, bitstream, lastSent>> /\ job' = NoJob
    BY <1>6 DEF JobDone, ringVars, codecVars
  <2>2. Lost' = Lost
    BY <2>1 DEF Lost
  <2> QED
    BY <2>1, <2>2 DEF SentBefore
<1>7. ASSUME NEW natural \in BOOLEAN, SendInter(natural) PROVE SentBefore'
  <2>1. /\ job # NoJob /\ job' = NoJob /\ captured' = captured /\ queue' = queue /\ lastSent' = job.capture
    BY <1>7, <1>w, SendInterSteps
  <2>2. /\ Len(inFlight') = Len(inFlight) + 1
        /\ inFlight'[Len(inFlight) + 1] = NewSent
        /\ \A i \in 1..Len(inFlight) : inFlight'[i] = inFlight[i]
        /\ Len(bitstream') = Len(bitstream) + 1 /\ DOMAIN bitstream' = 1..Len(bitstream) + 1
        /\ \A i \in 1..Len(bitstream) : bitstream'[i] = bitstream[i]
        /\ bitstream'[Len(bitstream) + 1].seq = chain.nextSeq
        /\ bitstream'[Len(bitstream) + 1].ref = IF chain.wantKey \/ natural THEN 0 ELSE lastSent
        /\ Lost' = Lost
    BY <1>7, <1>w, SendSteps
  <2>3. NewSent.seq = chain.nextSeq /\ NewSent.capture = job.capture
    BY DEF NewSent
  <2>4. job.capture \in 1..captured /\ lastSent < job.capture /\ \A k \in DOMAIN queue : job.capture < queue[k]
    BY <1>o, <2>1 DEF HoldersInOrder, SentBefore
  <2>5. ASSUME NEW i \in DOMAIN bitstream'
        PROVE  bitstream'[i].seq = inFlight'[Lost + i].seq /\ bitstream'[i].ref < inFlight'[Lost + i].capture
    <3>1. CASE i = Len(bitstream) + 1
      <4>1. Lost + i = Len(inFlight) + 1
        BY <1>s, <3>1
      <4>2. 0 < job.capture
        BY <1>s, <2>4
      <4> QED
        BY <2>2, <2>3, <2>4, <3>1, <4>1, <4>2
    <3>2. CASE i \in 1..Len(bitstream)
      <4>1. Lost + i \in 1..Len(inFlight)
        BY <1>s, <3>2
      <4> QED
        BY <1>s, <2>2, <3>2, <4>1 DEF SentBefore
    <3> QED
      BY <1>s, <2>2, <3>1, <3>2
  <2>6. Len(bitstream') <= Len(inFlight') /\ job.capture <= captured
    BY <1>s, <2>2, <2>4
  <2> QED
    BY <2>1, <2>2, <2>4, <2>5, <2>6 DEF SentBefore
<1>8. ASSUME NEW lost \in BOOLEAN, Receive(lost) PROVE SentBefore'
  <2>1. UNCHANGED <<captured, queue, job, lastSent>>
    BY <1>8 DEF Receive, ringVars
  <2>2. /\ Len(inFlight) >= 1 /\ Len(bitstream) >= 1 /\ Lost' = Lost
        /\ Len(inFlight') = Len(inFlight) - 1
        /\ \A i \in 1..Len(inFlight) - 1 : inFlight'[i] = inFlight[i + 1]
        /\ Len(bitstream') = Len(bitstream) - 1 /\ DOMAIN bitstream' = 1..Len(bitstream) - 1
        /\ \A i \in 1..Len(bitstream) - 1 : bitstream'[i] = bitstream[i + 1]
    BY <1>8, ReceiveSteps
  <2>3. \A i \in DOMAIN bitstream' : /\ i + 1 \in DOMAIN bitstream /\ bitstream'[i] = bitstream[i + 1]
                                     /\ Lost + i \in 1..Len(inFlight) - 1 /\ (Lost + i) + 1 = Lost + (i + 1)
    BY <1>s, <2>2
  <2>4. \A i \in DOMAIN bitstream' : bitstream'[i] = bitstream[i + 1] /\ inFlight'[Lost + i] = inFlight[Lost + (i + 1)]
    BY <2>2, <2>3
  <2>5. Len(bitstream') <= Len(inFlight')
    BY <1>s, <2>2
  <2> QED
    BY <2>1, <2>2, <2>3, <2>4, <2>5 DEF SentBefore
<1>9. CASE LosePacket
  <2>1. /\ Len(bitstream) >= 1 /\ Len(bitstream') = Len(bitstream) - 1
        /\ DOMAIN bitstream' = 1..Len(bitstream) - 1
        /\ \A i \in 1..Len(bitstream) - 1 : bitstream'[i] = bitstream[i + 1]
        /\ Lost' = Lost + 1
        /\ UNCHANGED <<captured, queue, job, inFlight, lastSent>>
    BY <1>9, <1>w, LoseSteps
  <2>2. \A i \in DOMAIN bitstream' : /\ i + 1 \in DOMAIN bitstream /\ bitstream'[i] = bitstream[i + 1]
                                     /\ Lost' + i = Lost + (i + 1)
    BY <1>s, <2>1
  <2>3. Len(bitstream') <= Len(inFlight')
    BY <1>s, <2>1
  <2> QED
    BY <2>1, <2>2, <2>3 DEF SentBefore
<1>10. CASE Idles
  <2>1. UNCHANGED <<captured, queue, job, inFlight, bitstream, lastSent>>
    BY <1>10 DEF Idles
  <2>2. Lost' = Lost
    BY <2>1 DEF Lost
  <2> QED
    BY <2>1, <2>2 DEF SentBefore
<1> QED
  BY <1>1, <1>2, <1>3, <1>4, <1>5, <1>6, <1>7, <1>8, <1>9, <1>10 DEF EncoderStep

\* A chain that lost a packet mends.
LEMMA MendingStays ==
    ASSUME RingSound, ChainsInOrder, SentBefore, BrokenIsMended, EncoderStep
    PROVE  BrokenIsMended'
<1>w. WorkerTypes
  BY DEF RingSound
<1>s. /\ DOMAIN inFlight = 1..Len(inFlight) /\ Len(inFlight) \in Nat
      /\ \A i \in DOMAIN inFlight : inFlight[i].chain \in Nat
      /\ DOMAIN bitstream = 1..Len(bitstream) /\ Len(bitstream) \in Nat
      /\ \A i \in DOMAIN bitstream : bitstream[i].key \in BOOLEAN
      /\ Lost \in Nat /\ chain \in Tracker /\ chain.chain \in Nat
  BY <1>w, Shapes DEF WorkerTypes, SentBefore, Lost
<1>q. ASSUME UNCHANGED <<chain, encoder, inFlight, bitstream>> PROVE BrokenIsMended'
  BY <1>q DEF BrokenIsMended, Lost
<1>1. ASSUME NEW submitted \in BOOLEAN, Capture(submitted) PROVE BrokenIsMended'
  BY <1>1, <1>q DEF Capture, codecVars, chainVars
<1>2. CASE NewCycle
  BY <1>2, <1>q DEF NewCycle, codecVars, chainVars
<1>3. ASSUME NEW retire \in BOOLEAN, TakeJob(retire) PROVE BrokenIsMended'
  BY <1>3, <1>q DEF TakeJob, codecVars, chainVars
<1>4. CASE Flushed
  BY <1>4 DEF Flushed, BrokenIsMended
<1>5. ASSUME NEW adopt \in BOOLEAN, NEW resized \in BOOLEAN, ChooseEncoder(adopt, resized) PROVE BrokenIsMended'
  <2>1. UNCHANGED <<inFlight, bitstream>> /\ (ChainKept \/ ChainStarted)
    BY <1>5, ChooseSteps
  <2>2. CASE ChainKept
    BY <2>1, <2>2, <1>q DEF ChainKept
  <2>3. CASE ChainStarted
    BY <2>3 DEF ChainStarted, Started, BrokenIsMended
  <2> QED
    BY <2>1, <2>2, <2>3
<1>6. CASE JobDone
  <2>1. /\ UNCHANGED <<inFlight, bitstream, encoder>> /\ chain'.chain = chain.chain /\ chain'.broken = chain.broken
        /\ encoder = "inter" => (chain.wantKey => chain'.wantKey)
    BY <1>6 DEF JobDone, codecVars
  <2>2. Lost' = Lost
    BY <2>1 DEF Lost
  <2> QED
    BY <2>1, <2>2 DEF BrokenIsMended
<1>7. ASSUME NEW natural \in BOOLEAN, SendInter(natural) PROVE BrokenIsMended'
  <2>1. chain' = CommitSend(chain, chain.wantKey) /\ encoder = "inter"
    BY <1>7, <1>w, SendInterSteps
  <2>2. chain'.chain = chain.chain /\ chain'.broken = chain.broken
    BY <2>1, <1>s, TrackerSteps
  <2>3. /\ DOMAIN inFlight' = 1..Len(inFlight) + 1
        /\ inFlight'[Len(inFlight) + 1] = NewSent
        /\ \A i \in 1..Len(inFlight) : inFlight'[i] = inFlight[i]
        /\ DOMAIN bitstream' = 1..Len(bitstream) + 1
        /\ \A i \in 1..Len(bitstream) : bitstream'[i] = bitstream[i]
        /\ bitstream'[Len(bitstream) + 1].key <=> chain.wantKey \/ natural
        /\ Lost' = Lost
    BY <1>7, <1>w, SendSteps
  <2>4. NewSent.chain = chain.chain
    BY DEF NewSent
  <2>5. ASSUME chain.broken
        PROVE  \A i \in DOMAIN inFlight' : inFlight'[i].chain = chain.chain
    BY <1>s, <2>1, <2>3, <2>4, <2>5 DEF BrokenIsMended
  <2>6. ASSUME chain.broken
        PROVE  Lost > 0 \/ \E i \in DOMAIN bitstream' : bitstream'[i].key
    <3>1. CASE chain.wantKey
      <4>1. Len(bitstream) + 1 \in DOMAIN bitstream' /\ bitstream'[Len(bitstream) + 1].key
        BY <1>s, <2>3, <3>1
      <4> QED
        BY <4>1
    <3>2. CASE Lost > 0
      BY <3>2
    <3>3. CASE \E i \in DOMAIN bitstream : bitstream[i].key
      BY <1>s, <2>3, <3>3
    <3> QED
      BY <2>1, <2>6, <3>1, <3>2, <3>3 DEF BrokenIsMended
  <2> QED
    BY <2>2, <2>3, <2>5, <2>6 DEF BrokenIsMended
<1>8. ASSUME NEW lost \in BOOLEAN, Receive(lost) PROVE BrokenIsMended'
  <2> DEFINE sent == Head(inFlight)
             packet == Head(bitstream)
  <2>1. /\ encoder' = encoder
        /\ chain' = IF sent.chain # chain.chain THEN chain
                    ELSE IF lost THEN OnLost(chain)
                    ELSE IF Stored(lost) THEN OnStored(chain, packet.key) ELSE chain
    BY <1>8 DEF Receive, Stored
  <2>2. /\ Len(inFlight) >= 1 /\ Len(bitstream) >= 1 /\ Lost' = Lost
        /\ sent = inFlight[1] /\ packet = bitstream[1]
        /\ DOMAIN inFlight' = 1..Len(inFlight) - 1
        /\ \A i \in 1..Len(inFlight) - 1 : inFlight'[i] = inFlight[i + 1]
        /\ DOMAIN bitstream' = 1..Len(bitstream) - 1
        /\ \A i \in 1..Len(bitstream) - 1 : bitstream'[i] = bitstream[i + 1]
    BY <1>8, ReceiveSteps
  <2> HIDE DEF sent, packet
  <2>3. /\ \A i \in DOMAIN inFlight' : i + 1 \in DOMAIN inFlight /\ inFlight'[i] = inFlight[i + 1]
        /\ 1 \in DOMAIN inFlight /\ 1 \in DOMAIN bitstream
    BY <1>s, <2>2
  <2>4. packet.key \in BOOLEAN
    BY <1>s, <2>2, <2>3
  <2>5. CASE sent.chain = chain.chain /\ lost
    <3>1. chain' = OnLost(chain)
      BY <2>1, <2>5
    <3>2. chain'.chain = chain.chain /\ chain'.wantKey
      BY <3>1, <1>s, TrackerSteps
    <3>3. ASSUME NEW i \in DOMAIN inFlight'
          PROVE  inFlight'[i].chain = chain.chain
      <4>1. 1 < i + 1
        BY <1>s, <2>2
      <4>2. inFlight[1].chain <= inFlight[i + 1].chain /\ inFlight[i + 1].chain <= chain.chain
        BY <2>3, <4>1 DEF ChainsInOrder
      <4> QED
        BY <1>s, <2>2, <2>3, <2>5, <4>2
    <3> QED
      BY <3>2, <3>3 DEF BrokenIsMended
  <2>6. CASE sent.chain = chain.chain /\ ~lost /\ Stored(lost)
    <3>1. chain' = OnStored(chain, packet.key)
      BY <2>1, <2>6
    <3>2. chain'.chain = chain.chain /\ chain'.wantKey = chain.wantKey /\ (chain'.broken <=> chain.broken /\ ~packet.key)
      BY <3>1, <2>4, <1>s, TrackerSteps
    <3>3. ~chain'.broken
      <4>1. ShouldStore(chain, packet.key)
        BY <2>6 DEF Stored, sent, packet
      <4> QED
        BY <3>2, <4>1 DEF ShouldStore
    <3> QED
      BY <3>3 DEF BrokenIsMended
  <2>7. CASE sent.chain = chain.chain /\ ~lost /\ ~Stored(lost)
    <3>1. chain' = chain /\ chain.broken /\ ~packet.key
      BY <2>1, <2>7 DEF Stored, ShouldStore, sent, packet
    <3>2. (\E i \in DOMAIN bitstream : bitstream[i].key) => \E i \in DOMAIN bitstream' : bitstream'[i].key
      <4> SUFFICES ASSUME NEW i \in DOMAIN bitstream, bitstream[i].key
                   PROVE  \E j \in DOMAIN bitstream' : bitstream'[j].key
        OBVIOUS
      <4>1. i # 1
        BY <2>2, <3>1
      <4>2. i - 1 \in DOMAIN bitstream' /\ bitstream'[i - 1] = bitstream[i]
        BY <1>s, <2>2, <4>1
      <4> QED
        BY <4>2
    <3> QED
      BY <2>1, <2>2, <2>3, <3>1, <3>2 DEF BrokenIsMended
  <2>8. CASE sent.chain # chain.chain
    <3>1. chain' = chain
      BY <2>1, <2>8
    <3>2. ~(chain.broken /\ encoder = "inter")
      BY <2>2, <2>3, <2>8 DEF BrokenIsMended
    <3> QED
      BY <2>1, <3>1, <3>2 DEF BrokenIsMended
  <2> QED
    BY <2>5, <2>6, <2>7, <2>8
<1>9. CASE LosePacket
  <2>1. Lost' = Lost + 1 /\ UNCHANGED <<chain, inFlight>>
    BY <1>9, <1>w, LoseSteps
  <2>2. encoder' = encoder
    BY <1>9 DEF LosePacket
  <2> QED
    BY <1>s, <2>1, <2>2 DEF BrokenIsMended
<1>10. CASE Idles
  BY <1>10, <1>q DEF Idles
<1> QED
  BY <1>1, <1>2, <1>3, <1>4, <1>5, <1>6, <1>7, <1>8, <1>9, <1>10 DEF EncoderStep
-----------------------------------------------------------------------------
(* What is known of the frames.                                            *)

LEMMA FrameShapes ==
    ASSUME RingSound, NEW f \in Frames
    PROVE  /\ f.captureNs \in Nat /\ f.captureNs > epochStart /\ f.captureNs > Gone /\ f.captureNs <= captured
           /\ f.chain \in Nat /\ f.seq \in Nat /\ f.ref \in Nat /\ f.key \in BOOLEAN
           /\ Frame(f) \in Known
           /\ Frame(f).captureNs = f.captureNs /\ Frame(f).chain = f.chain /\ Frame(f).seq = f.seq
<1>1. PICK p \in InterFrames : f = window[p]
  BY DEF Frames
<1>2. p \in 1..Len(window) /\ f \in AnySlot
  BY <1>1 DEF InterFrames, RingSound, WorkerTypes
<1>3. f.captureNs = Gone + p /\ epochStart <= Gone /\ Gone \in Int /\ epochStart \in Nat /\ Len(window) \in Nat
      /\ Gone + Len(window) = captured /\ captured \in Nat
  BY <1>1, <1>2 DEF RingSound, WorkerTypes, RingInOrder, Gone
<1>4. f.captureNs > epochStart /\ f.captureNs > Gone /\ f.captureNs <= captured
  BY <1>2, <1>3
<1>5. f.chain \in Nat /\ f.seq \in Nat /\ f.ref \in Nat /\ f.key \in BOOLEAN /\ f.captureNs \in Nat
  BY <1>2 DEF AnySlot
<1> QED
  BY <1>4, <1>5 DEF Known, Frame

LEMMA KnownShapes ==
    ASSUME RingSound, CursorIsReference, NEW k \in Known
    PROVE  k.captureNs \in Nat /\ k.chain \in Nat /\ k.seq \in Nat
<1>1. CASE k \in Held
  BY <1>1 DEF Held, CursorIsReference
<1>2. ASSUME NEW f \in Frames, k = Frame(f)
      PROVE  k.captureNs \in Nat /\ k.chain \in Nat /\ k.seq \in Nat
  BY <1>2, FrameShapes
<1> QED
  BY <1>1, <1>2 DEF Known

\* A frame comes to be known only when its packet is stored.
Shrinks ==
    /\ Known' \subseteq Known /\ Frames' \subseteq Frames /\ Gone' >= Gone
    /\ \A f \in Frames : f.captureNs > Gone' => f \in Frames'
    /\ epoch' = epoch /\ epochStart' = epochStart
Stores(lost, f) ==
    /\ Receive(lost) /\ Stored(lost) /\ inFlight[1].epoch = epoch
    /\ Frames' = Frames \cup {f} /\ IsPacket(f, inFlight[1], bitstream[1])
    /\ Known' \subseteq Known \cup {Frame(f)} /\ Gone' = Gone
    /\ epoch' = epoch /\ epochStart' = epochStart

LEMMA KnownChanges ==
    ASSUME RingSound, ChainsInOrder, SentBefore, EncoderStep,
           Held' \subseteq Known, epoch' # epoch => Held' = {}
    PROVE  \/ Shrinks
           \/ NewCycle /\ Known' = {} /\ Frames' = {}
           \/ \E lost \in BOOLEAN : \E f : Stores(lost, f)
<1>w. WorkerTypes
  BY DEF RingSound
<1>g. Gone \in Int /\ epoch \in Nat
  BY <1>w DEF WorkerTypes, Gone
<1>f. \A f \in Frames : Frame(f) \in Known
  BY DEF Known
<1>k. Known' = {Frame(f) : f \in Frames'} \cup Held'
  BY DEF Known, Frame
<1>q. ASSUME Frames' = Frames, Gone' = Gone, epoch' = epoch, epochStart' = epochStart PROVE Shrinks
  BY <1>f, <1>g, <1>k, <1>q DEF Shrinks
<1>1. ASSUME NEW submitted \in BOOLEAN, Capture(submitted) PROVE Shrinks
  <2>1. /\ Gone' >= Gone /\ Frames' \subseteq Frames /\ \A f \in Frames : f.captureNs > Gone' => f \in Frames'
        /\ epoch' = epoch /\ epochStart' = epochStart
    BY <1>1, CaptureSound
  <2> QED
    BY <2>1, <1>f, <1>k DEF Shrinks
<1>2. CASE NewCycle
  <2>1. Frames' = {} /\ epoch' = epoch + 1
    BY <1>2, <1>w, NewCycleSound DEF WorkerTypes
  <2>2. Held' = {}
    BY <1>g, <2>1
  <2> QED
    BY <1>2, <1>k, <2>1, <2>2
<1>3. ASSUME NEW retire \in BOOLEAN, TakeJob(retire) PROVE Shrinks
  <2>1. epoch' = epoch /\ epochStart' = epochStart
    BY <1>3 DEF TakeJob
  <2> QED
    BY <1>3, <1>q, <2>1, TakeJobSound
<1>4. CASE Flushed
  <2>1. epoch' = epoch /\ epochStart' = epochStart
    BY <1>4 DEF Flushed, ringVars
  <2> QED
    BY <1>4, <1>q, <2>1, FlushedSound
<1>5. ASSUME NEW adopt \in BOOLEAN, NEW resized \in BOOLEAN, ChooseEncoder(adopt, resized) PROVE Shrinks
  <2>1. UNCHANGED <<window, captured, epoch, epochStart, queue, inFlight, job>> /\ WorkerTypes'
    BY <1>5, ChooseSteps
  <2>2. Frames' = Frames /\ Gone' = Gone
    BY <2>1, StillSound
  <2> QED
    BY <1>q, <2>1, <2>2
<1>6. CASE JobDone
  <2>1. epoch' = epoch /\ epochStart' = epochStart
    BY <1>6 DEF JobDone, ringVars
  <2> QED
    BY <1>6, <1>q, <2>1, JobDoneSound
<1>7. ASSUME NEW natural \in BOOLEAN, SendInter(natural) PROVE Shrinks
  <2>1. epoch' = epoch /\ epochStart' = epochStart
    BY <1>7 DEF SendInter, ringVars
  <2> QED
    BY <1>7, <1>q, <2>1, SendInterSound
<1>8. ASSUME NEW lost \in BOOLEAN, Receive(lost) PROVE Shrinks \/ \E f : Stores(lost, f)
  <2>1. epoch' = epoch /\ epochStart' = epochStart
    BY <1>8 DEF Receive, ringVars
  <2>2. Head(inFlight) = inFlight[1] /\ Head(bitstream) = bitstream[1]
    BY <1>8, ReceiveSteps
  <2>3. /\ Gone' = Gone
        /\ Stored(lost) /\ inFlight[1].epoch = epoch =>
              \E f : Frames' = Frames \cup {f} /\ IsPacket(f, inFlight[1], bitstream[1])
        /\ ~(Stored(lost) /\ inFlight[1].epoch = epoch) => Frames' = Frames
    BY <1>8, <2>2, ReceiveSound
  <2>4. CASE Stored(lost) /\ inFlight[1].epoch = epoch
    <3>1. PICK f : Frames' = Frames \cup {f} /\ IsPacket(f, inFlight[1], bitstream[1])
      BY <2>3, <2>4
    <3>2. Known' \subseteq Known \cup {Frame(f)}
      BY <1>f, <1>k, <3>1
    <3>3. Stores(lost, f)
      BY <1>8, <2>1, <2>3, <2>4, <3>1, <3>2 DEF Stores
    <3> QED
      BY <3>3
  <2>5. CASE ~(Stored(lost) /\ inFlight[1].epoch = epoch)
    BY <1>q, <2>1, <2>3, <2>5
  <2> QED
    BY <2>4, <2>5
<1>9. CASE LosePacket \/ Idles
  <2>1. UNCHANGED <<window, captured, epoch, epochStart>>
    BY <1>9 DEF LosePacket, Idles, ringVars
  <2>2. Frames' = Frames /\ Gone' = Gone
    BY <2>1 DEF Frames, InterFrames, Gone
  <2> QED
    BY <1>q, <2>1, <2>2
<1> QED
  BY <1>1, <1>2, <1>3, <1>4, <1>5, <1>6, <1>7, <1>8, <1>9 DEF EncoderStep

LEMMA PlacedStays ==
    ASSUME RingSound, CursorIsReference, ChainsInOrder, SentBefore, EncoderStep, epoch' = epoch,
           NEW k \in Known, Placed(k)
    PROVE  Placed(k)'
<1>w. WorkerTypes
  BY DEF RingSound
<1>k. k.captureNs \in Nat /\ k.chain \in Nat /\ k.seq \in Nat
  BY KnownShapes
<1>s. /\ DOMAIN inFlight = 1..Len(inFlight) /\ Len(inFlight) \in Nat
      /\ \A i \in DOMAIN inFlight : inFlight[i].chain \in Nat /\ inFlight[i].seq \in Nat
      /\ captured \in Nat /\ epoch \in Nat /\ epochStart \in Nat /\ nextChain \in Nat /\ chain \in Tracker
      /\ chain.chain \in Nat /\ chain.nextSeq \in Nat
  BY <1>w, Shapes DEF WorkerTypes
<1>1. ASSUME NEW submitted \in BOOLEAN, Capture(submitted) PROVE Placed(k)'
  <2>1. /\ UNCHANGED <<epoch, epochStart, job, pc, codecVars, chainVars>> /\ captured' = captured + 1
        /\ (queue' = queue \/ queue' = Append(queue, captured + 1))
    BY <1>1, CaptureSound
  <2>2. UNCHANGED <<epochStart, job, inFlight, chain, nextChain>>
    BY <2>1 DEF codecVars, chainVars
  <2>3. k.captureNs \in epochStart + 1..captured + 1 /\ k.captureNs < captured + 1
    BY <1>s DEF Placed
  <2>4. \A n \in DOMAIN queue' : k.captureNs < queue'[n]
    <3>1. \A n \in DOMAIN queue : k.captureNs < queue[n]
      BY DEF Placed
    <3>2. CASE queue' = queue
      BY <3>1, <3>2
    <3>3. CASE queue' = Append(queue, captured + 1)
      <4>1. queue \in Seq(Nat) /\ captured + 1 \in Nat
        BY <1>s, <1>w DEF WorkerTypes
      <4>2. /\ DOMAIN queue' = 1..Len(queue) + 1 /\ DOMAIN queue = 1..Len(queue) /\ Len(queue) \in Nat
            /\ queue'[Len(queue) + 1] = captured + 1 /\ \A n \in 1..Len(queue) : queue'[n] = queue[n]
        BY <3>3, <4>1, Appended
      <4> QED
        BY <2>3, <3>1, <4>2
    <3> QED
      BY <2>1, <3>2, <3>3
  <2> QED
    BY <2>1, <2>2, <2>3, <2>4 DEF Placed
<1>2. CASE NewCycle
  BY <1>2, <1>s DEF NewCycle
<1>3. ASSUME NEW retire \in BOOLEAN, TakeJob(retire) PROVE Placed(k)'
  <2>1. /\ UNCHANGED <<captured, epochStart, inFlight, chain, nextChain>> /\ job'.capture = Head(queue)
        /\ queue' = Tail(queue) /\ queue # <<>>
    BY <1>3 DEF TakeJob, codecVars, chainVars
  <2>2. queue \in Seq(Nat)
    BY <1>w DEF WorkerTypes
  <2>3. /\ 1 \in DOMAIN queue /\ Head(queue) = queue[1]
        /\ \A n \in DOMAIN Tail(queue) : n + 1 \in DOMAIN queue /\ Tail(queue)[n] = queue[n + 1]
    BY <2>1, <2>2
  <2> QED
    BY <2>1, <2>3 DEF Placed
<1>4. CASE Flushed
  <2>1. UNCHANGED <<captured, epochStart, queue, job, chain, nextChain>> /\ DOMAIN inFlight' = {}
    BY <1>4 DEF Flushed, ringVars, chainVars
  <2> QED
    BY <2>1 DEF Placed
<1>5. ASSUME NEW adopt \in BOOLEAN, NEW resized \in BOOLEAN, ChooseEncoder(adopt, resized) PROVE Placed(k)'
  <2>1. UNCHANGED <<captured, epochStart, queue, job, inFlight>> /\ (ChainKept \/ ChainStarted)
    BY <1>5, ChooseSteps
  <2>2. CASE ChainKept
    BY <2>1, <2>2 DEF ChainKept, Placed
  <2>3. CASE ChainStarted
    <3>1. chain'.chain = nextChain /\ nextChain' = nextChain + 1
      BY <2>3 DEF ChainStarted, Started
    <3>2. k.chain < nextChain
      BY DEF Placed
    <3>3. k.chain # chain'.chain /\ k.chain < nextChain'
      BY <1>k, <1>s, <3>1, <3>2
    <3> QED
      BY <2>1, <3>3 DEF Placed
  <2> QED
    BY <2>1, <2>2, <2>3
<1>6. CASE JobDone
  <2>1. /\ UNCHANGED <<captured, epochStart, queue, inFlight, nextChain>> /\ job' = NoJob
        /\ chain'.chain = chain.chain /\ chain'.nextSeq >= chain.nextSeq /\ chain' \in Tracker
    BY <1>6 DEF JobDone, ringVars, codecVars
  <2>2. chain'.nextSeq \in Nat
    BY <2>1 DEF Tracker
  <2>3. k.chain = chain'.chain => k.seq < chain'.nextSeq
    BY <1>k, <1>s, <2>1, <2>2 DEF Placed
  <2> QED
    BY <2>1, <2>3 DEF Placed
<1>7. ASSUME NEW natural \in BOOLEAN, SendInter(natural) PROVE Placed(k)'
  <2>1. /\ UNCHANGED <<captured, epochStart, queue, nextChain>> /\ job # NoJob /\ job' = NoJob
        /\ chain' = CommitSend(chain, chain.wantKey)
    BY <1>7, <1>w, SendInterSteps
  <2>2. chain'.chain = chain.chain /\ chain'.nextSeq = chain.nextSeq + 1
    BY <1>s, <2>1, TrackerSteps
  <2>3. /\ DOMAIN inFlight' = 1..Len(inFlight) + 1 /\ inFlight'[Len(inFlight) + 1] = NewSent
        /\ \A i \in 1..Len(inFlight) : inFlight'[i] = inFlight[i]
    BY <1>7, <1>w, SendSteps
  <2>4. NewSent.capture = job.capture /\ NewSent.chain = chain.chain /\ NewSent.seq = chain.nextSeq
    BY DEF NewSent
  <2>5. k.chain = chain.chain => k.seq < chain.nextSeq + 1
    BY <1>k, <1>s DEF Placed
  <2>6. ASSUME NEW i \in DOMAIN inFlight'
        PROVE  k.captureNs < inFlight'[i].capture /\ (k.chain = inFlight'[i].chain => k.seq < inFlight'[i].seq)
    <3>1. CASE i = Len(inFlight) + 1
      BY <2>1, <2>3, <2>4, <3>1 DEF Placed
    <3>2. CASE i \in 1..Len(inFlight)
      BY <1>s, <2>3, <3>2 DEF Placed
    <3> QED
      BY <1>s, <2>3, <3>1, <3>2
  <2> QED
    BY <2>1, <2>2, <2>5, <2>6 DEF Placed
<1>8. ASSUME NEW lost \in BOOLEAN, Receive(lost) PROVE Placed(k)'
  <2>1. UNCHANGED <<captured, epochStart, queue, job, nextChain>>
    BY <1>8 DEF Receive, ringVars
  <2>2. chain'.chain = chain.chain /\ chain'.nextSeq = chain.nextSeq
    BY <1>8, ReceiveKeeps
  <2>3. DOMAIN inFlight' = 1..Len(inFlight) - 1 /\ \A i \in 1..Len(inFlight) - 1 : inFlight'[i] = inFlight[i + 1]
    BY <1>8, ReceiveSteps
  <2>4. \A i \in DOMAIN inFlight' : i + 1 \in DOMAIN inFlight /\ inFlight'[i] = inFlight[i + 1]
    BY <1>s, <2>3
  <2> QED
    BY <2>1, <2>2, <2>4 DEF Placed
<1>9. CASE LosePacket \/ Idles
  <2>1. UNCHANGED <<captured, epochStart, queue, job, inFlight, chain, nextChain>>
    BY <1>9 DEF LosePacket, Idles, ringVars, chainVars
  <2> QED
    BY <2>1 DEF Placed
<1> QED
  BY <1>1, <1>2, <1>3, <1>4, <1>5, <1>6, <1>7, <1>8, <1>9 DEF EncoderStep

\* The packet stored comes after all that is known, and before what is still in flight.
LEMMA NewPlaced ==
    ASSUME RingSound, CursorIsReference, ChainsInOrder, SentBefore, KnownInOrder,
           NEW lost \in BOOLEAN, NEW f, Stores(lost, f)
    PROVE  /\ Placed(Frame(f))'
           /\ \A k \in Known : /\ k.captureNs < f.captureNs
                               /\ k.chain = f.chain => k.seq < f.seq
           /\ f.captureNs \in Nat /\ f.seq \in Nat /\ f.chain \in Nat
           /\ Frame(f).captureNs = f.captureNs /\ Frame(f).chain = f.chain /\ Frame(f).seq = f.seq
<1>w. WorkerTypes
  BY DEF RingSound
<1>0. Receive(lost) /\ inFlight[1].epoch = epoch /\ IsPacket(f, inFlight[1], bitstream[1])
  BY DEF Stores
<1>1. /\ UNCHANGED <<captured, epochStart, queue, job, nextChain>>
  BY <1>0 DEF Receive, ringVars
<1>2. chain'.chain = chain.chain /\ chain'.nextSeq = chain.nextSeq
  BY <1>0, ReceiveKeeps
<1>3. /\ Len(inFlight) >= 1
      /\ DOMAIN inFlight' = 1..Len(inFlight) - 1 /\ \A i \in 1..Len(inFlight) - 1 : inFlight'[i] = inFlight[i + 1]
      /\ inFlight[1].seq = bitstream[1].seq
  BY <1>0, ReceiveSteps
<1>4. DOMAIN inFlight = 1..Len(inFlight) /\ Len(inFlight) \in Nat
      /\ \A i \in DOMAIN inFlight : inFlight[i].capture \in Nat /\ inFlight[i].chain \in Nat /\ inFlight[i].seq \in Nat
      /\ captured \in Nat /\ epochStart \in Nat /\ nextChain \in Nat /\ chain.chain \in Nat
  BY <1>w, Shapes DEF WorkerTypes
<1>5. 1 \in DOMAIN inFlight
      /\ \A i \in DOMAIN inFlight' : i + 1 \in DOMAIN inFlight /\ inFlight'[i] = inFlight[i + 1] /\ 1 < i + 1
  BY <1>3, <1>4
<1>6. f.captureNs = inFlight[1].capture /\ f.chain = inFlight[1].chain /\ f.seq = inFlight[1].seq
  BY <1>0, <1>3 DEF IsPacket
<1>7. Frame(f).captureNs = f.captureNs /\ Frame(f).chain = f.chain /\ Frame(f).seq = f.seq
  BY DEF Frame
<1>8. f.captureNs \in epochStart + 1..captured
  BY <1>0, <1>4, <1>5, <1>6 DEF RingSound, HoldersInOrder, HoldersAreTheUndecided
<1>9. f.chain < nextChain
  <2>1. inFlight[1].chain <= chain.chain /\ chain.chain < nextChain
    BY <1>5 DEF ChainsInOrder
  <2> QED
    BY <1>4, <1>5, <1>6, <2>1
<1>10. (job # NoJob => f.captureNs < job.capture) /\ \A n \in DOMAIN queue : f.captureNs < queue[n]
  BY <1>5, <1>6 DEF RingSound, HoldersInOrder
<1>11. f.chain = chain.chain => f.seq < chain.nextSeq
  BY <1>5, <1>6 DEF ChainsInOrder
<1>12. \A i \in DOMAIN inFlight' : /\ f.captureNs < inFlight'[i].capture
                                   /\ f.chain = inFlight'[i].chain => f.seq < inFlight'[i].seq
  BY <1>5, <1>6 DEF RingSound, HoldersInOrder, ChainsInOrder
<1>13. Placed(Frame(f))'
  <2>1. PICK k : k = Frame(f)
    OBVIOUS
  <2>2. Frame(f)' = k
    BY <2>1 DEF Frame
  <2>3. Placed(k)'
    BY <1>1, <1>2, <1>7, <1>8, <1>9, <1>10, <1>11, <1>12, <2>1 DEF Placed
  <2> QED
    BY <2>1, <2>2, <2>3
<1>14. \A k \in Known : k.captureNs < f.captureNs /\ (k.chain = f.chain => k.seq < f.seq)
  BY <1>5, <1>6 DEF KnownInOrder, Placed
<1> QED
  BY <1>4, <1>5, <1>6, <1>7, <1>13, <1>14

LEMMA OrderStays ==
    ASSUME RingSound, CursorIsReference, ChainsInOrder, SentBefore, KnownInOrder, EncoderStep,
           Held' \subseteq Known, epoch' # epoch => Held' = {}
    PROVE  KnownInOrder'
<1>1. CASE Shrinks
  <2>1. \A k \in Known' : k \in Known /\ Placed(k)
    BY <1>1 DEF Shrinks, KnownInOrder
  <2>2. epoch' = epoch
    BY <1>1 DEF Shrinks
  <2>3. \A k \in Known' : Placed(k)'
    <3> SUFFICES ASSUME NEW k \in Known' PROVE Placed(k)'
      OBVIOUS
    <3> QED
      BY <2>1, <2>2, PlacedStays
  <2>4. \A k, l \in Known' : Agree(k, l)
    BY <2>1 DEF KnownInOrder
  <2> QED
    BY <2>3, <2>4 DEF KnownInOrder, Agree
<1>2. CASE NewCycle /\ Known' = {} /\ Frames' = {}
  BY <1>2 DEF KnownInOrder
<1>3. ASSUME NEW lost \in BOOLEAN, NEW f, Stores(lost, f)
      PROVE  KnownInOrder'
  <2>1. /\ Placed(Frame(f))'
        /\ \A k \in Known : k.captureNs < f.captureNs /\ (k.chain = f.chain => k.seq < f.seq)
        /\ f.captureNs \in Nat /\ f.seq \in Nat /\ f.chain \in Nat
        /\ Frame(f).captureNs = f.captureNs /\ Frame(f).chain = f.chain /\ Frame(f).seq = f.seq
    BY <1>3, NewPlaced
  <2>2. Known' \subseteq Known \cup {Frame(f)} /\ epoch' = epoch
    BY <1>3 DEF Stores
  <2>3. \A k \in Known : Placed(k) /\ k.captureNs \in Nat /\ k.chain \in Nat /\ k.seq \in Nat
    BY KnownShapes DEF KnownInOrder
  <2>4. ASSUME NEW k \in Known' PROVE Placed(k)'
    <3>1. CASE k \in Known
      BY <2>2, <2>3, <3>1, PlacedStays
    <3>2. CASE k = Frame(f)
      <4>1. Frame(f)' = k
        BY <3>2 DEF Frame
      <4> QED
        BY <2>1, <4>1
    <3> QED
      BY <2>2, <3>1, <3>2
  <2>5. \A k, l \in Known : Agree(k, l)
    BY DEF KnownInOrder
  <2>6. ASSUME NEW k \in Known', NEW l \in Known' PROVE Agree(k, l)
    <3>1. CASE k = Frame(f) /\ l = Frame(f)
      BY <2>1, <3>1 DEF Agree
    <3>2. CASE k = Frame(f) /\ l \in Known
      BY <2>1, <2>3, <3>2 DEF Agree
    <3>3. CASE k \in Known /\ l = Frame(f)
      BY <2>1, <2>3, <3>3 DEF Agree
    <3>4. CASE k \in Known /\ l \in Known
      BY <2>5, <3>4
    <3> QED
      BY <2>2, <3>1, <3>2, <3>3, <3>4
  <2> QED
    BY <2>4, <2>6 DEF KnownInOrder, Agree
<1> QED
  BY <1>1, <1>2, <1>3, KnownChanges

LEMMA NextShrinks ==
    ASSUME Shrinks, NEW r, NEW c, NEW s, NextAfter(r, c, s)
    PROVE  NextAfter(r, c, s)'
BY DEF Shrinks, NextAfter

LEMMA InRingStays ==
    ASSUME RingSound, RingSound', NEW r \in Nat, InRing(r), epochStart' = epochStart,
           \/ Shrinks
           \/ Gone' = Gone /\ Frames \subseteq Frames'
    PROVE  InRing(r)'
<1>1. Gone \in Int /\ epochStart \in Nat
  BY DEF RingSound, WorkerTypes, Gone
<1>2. Gone' \in Int
  BY DEF RingSound, WorkerTypes, Gone
<1>3. CASE Shrinks
  <2>1. Gone' >= Gone /\ \A f \in Frames : f.captureNs > Gone' => f \in Frames'
    BY <1>3 DEF Shrinks
  <2>2. ASSUME r > Gone'
        PROVE  \E f \in Frames' : f.captureNs = r
    <3>1. r > Gone
      BY <1>1, <1>2, <2>1, <2>2
    <3>2. PICK f \in Frames : f.captureNs = r
      BY <3>1 DEF InRing
    <3> QED
      BY <2>1, <2>2, <3>2
  <2> QED
    BY <2>2 DEF InRing
<1>4. CASE Gone' = Gone /\ Frames \subseteq Frames'
  BY <1>4 DEF InRing
<1> QED
  BY <1>3, <1>4

LEMMA FollowersStay ==
    ASSUME RingSound, RingSound', CursorIsReference, ChainsInOrder, SentBefore, KnownInOrder, KnownFollow,
           PacketsFollow, EncoderStep, Held' \subseteq Known, epoch' # epoch => Held' = {}
    PROVE  KnownFollow'
<1>1. CASE Shrinks
  <2> SUFFICES ASSUME NEW f \in Frames', ~f.key
               PROVE  f.ref < f.captureNs /\ InRing(f.ref)' /\ NextAfter(f.ref, f.chain, f.seq)'
    BY DEF KnownFollow
  <2>1. f \in Frames /\ epochStart' = epochStart
    BY <1>1 DEF Shrinks
  <2>2. f.ref < f.captureNs /\ InRing(f.ref) /\ NextAfter(f.ref, f.chain, f.seq) /\ f.ref \in Nat
    BY <2>1, FrameShapes DEF KnownFollow
  <2>3. InRing(f.ref)'
    BY <1>1, <2>1, <2>2, InRingStays
  <2>4. NextAfter(f.ref, f.chain, f.seq)'
    BY <1>1, <2>2, NextShrinks
  <2> QED
    BY <2>2, <2>3, <2>4
<1>2. CASE NewCycle /\ Known' = {} /\ Frames' = {}
  BY <1>2 DEF KnownFollow
<1>3. ASSUME NEW lost \in BOOLEAN, NEW f, Stores(lost, f)
      PROVE  KnownFollow'
  <2>0. /\ Receive(lost) /\ Stored(lost) /\ inFlight[1].epoch = epoch
        /\ Frames' = Frames \cup {f} /\ IsPacket(f, inFlight[1], bitstream[1])
        /\ Known' \subseteq Known \cup {Frame(f)} /\ Gone' = Gone /\ epochStart' = epochStart
    BY <1>3 DEF Stores
  <2>1. /\ \A k \in Known : k.captureNs < f.captureNs /\ (k.chain = f.chain => k.seq < f.seq)
        /\ f.captureNs \in Nat /\ f.seq \in Nat /\ f.chain \in Nat
        /\ Frame(f).captureNs = f.captureNs /\ Frame(f).chain = f.chain /\ Frame(f).seq = f.seq
    BY <1>3, NewPlaced
  <2>2. ASSUME NEW r \in Nat, NEW c \in Nat, NEW s \in Nat, NextAfter(r, c, s), r < f.captureNs,
               c = f.chain => s <= f.seq
        PROVE  NextAfter(r, c, s)'
    <3>1. ~(f.captureNs = r) /\ ~(f.chain = c /\ f.seq + 1 = s)
      BY <2>1, <2>2
    <3> QED
      BY <2>0, <2>1, <2>2, <3>1 DEF NextAfter
  <2>3. ASSUME NEW g \in Frames, ~g.key
        PROVE  g.ref < g.captureNs /\ InRing(g.ref)' /\ NextAfter(g.ref, g.chain, g.seq)'
    <3>1. /\ g.ref < g.captureNs /\ InRing(g.ref) /\ NextAfter(g.ref, g.chain, g.seq) /\ g.ref \in Nat
          /\ g.chain \in Nat /\ g.seq \in Nat /\ g.captureNs \in Nat
          /\ g.captureNs < f.captureNs /\ (g.chain = f.chain => g.seq < f.seq)
      BY <2>1, <2>3, FrameShapes DEF KnownFollow
    <3>2. InRing(g.ref)'
      BY <2>0, <3>1, InRingStays
    <3>3. g.ref < f.captureNs /\ (g.chain = f.chain => g.seq <= f.seq)
      BY <2>1, <3>1
    <3>4. NextAfter(g.ref, g.chain, g.seq)'
      BY <2>2, <3>1, <3>3
    <3> QED
      BY <3>1, <3>2, <3>4
  <2>4. ASSUME ~f.key
        PROVE  f.ref < f.captureNs /\ InRing(f.ref)' /\ NextAfter(f.ref, f.chain, f.seq)'
    <3>1. /\ inFlight[1].chain = chain.chain /\ chainEpoch = epoch /\ Lost = 0
          /\ Head(inFlight) = inFlight[1] /\ Head(bitstream) = bitstream[1]
          /\ Len(bitstream) >= 1 /\ inFlight[1].seq = bitstream[1].seq
      BY <2>0, ReceiveSteps
    <3>2. DOMAIN bitstream = 1..Len(bitstream) /\ Len(bitstream) \in Nat
          /\ \A i \in DOMAIN bitstream : bitstream[i].ref \in Nat
      BY Shapes DEF RingSound
    <3>3. 1 \in DOMAIN bitstream /\ Lost + 1 = 1
      BY <3>1, <3>2
    <3>4. f.ref = bitstream[1].ref /\ f.seq = inFlight[1].seq /\ f.chain = inFlight[1].chain /\ f.key = bitstream[1].key
          /\ f.captureNs = inFlight[1].capture
      BY <2>0, <3>1 DEF IsPacket
    <3>5. Follows(f.ref, f.chain, f.seq, 1)
      <4>1. /\ inFlight[Lost + 1].epoch = epoch /\ ~bitstream[1].key
        BY <2>0, <2>4, <3>3, <3>4
      <4>2. Follows(bitstream[1].ref, inFlight[Lost + 1].chain, inFlight[Lost + 1].seq, Lost + 1)
        BY <3>3, <4>1 DEF PacketsFollow, PacketFollows
      <4> QED
        BY <3>3, <3>4, <4>2
    <3>6. ~chain.broken
      BY <2>0, <2>4, <3>1, <3>4 DEF Stored, ShouldStore
    <3>7. InRing(f.ref) /\ NextAfter(f.ref, f.chain, f.seq)
      BY <3>5, <3>6 DEF Follows
    <3>8. f.ref < f.captureNs
      BY <3>3, <3>4 DEF SentBefore
    <3>9. f.ref \in Nat
      BY <3>2, <3>3, <3>4
    <3>10. InRing(f.ref)'
      BY <2>0, <3>7, <3>9, InRingStays
    <3>11. NextAfter(f.ref, f.chain, f.seq)'
      BY <2>1, <2>2, <3>7, <3>8, <3>9
    <3> QED
      BY <3>8, <3>10, <3>11
  <2> QED
    BY <2>0, <2>3, <2>4 DEF KnownFollow
<1> QED
  BY <1>1, <1>2, <1>3, KnownChanges

LEMMA PacketAt ==
    ASSUME NEW i, NEW r, NEW c, NEW s, NEW j, (Lost + i)' = j, bitstream'[i].ref = r,
           inFlight'[j].chain = c, inFlight'[j].seq = s,
           ~bitstream'[i].key /\ inFlight'[j].epoch = epoch' => Follows(r, c, s, j)'
    PROVE  PacketFollows(i)'
BY DEF PacketFollows, Follows, NextAfter, InRing

LEMMA NextAt ==
    ASSUME NEW r, NEW c, NEW s, NEW j, Len(inFlight') + 1 = j, lastSent' = r, chain'.chain = c, chain'.nextSeq = s,
           ~chain'.wantKey /\ encoder' = "inter" /\ chainEpoch' = epoch' => Follows(r, c, s, j)'
    PROVE  NextFollows'
BY DEF NextFollows, Follows, NextAfter, InRing

LEMMA FollowsStays ==
    ASSUME RingSound, RingSound', Shrinks, NEW r \in Nat, NEW c, NEW s, NEW j, Follows(r, c, s, j),
           j > 1 => inFlight'[j - 1] = inFlight[j - 1], ~(j > 1) => (chain.broken => chain'.broken)
    PROVE  Follows(r, c, s, j)'
<1>1. CASE j > 1
  BY <1>1 DEF Follows
<1>2. CASE ~(j > 1)
  <2>1. NextAfter(r, c, s)'
    BY <1>2, NextShrinks DEF Follows
  <2>2. ~chain'.broken => InRing(r)'
    <3> SUFFICES ASSUME ~chain'.broken PROVE InRing(r)'
      OBVIOUS
    <3>1. InRing(r) /\ epochStart' = epochStart
      BY <1>2 DEF Follows, Shrinks
    <3> QED
      BY <3>1, InRingStays
  <2> QED
    BY <1>2, <2>1, <2>2 DEF Follows
<1> QED
  BY <1>1, <1>2

\* After the oldest frame in flight is received, the one after it follows what became of it.
LEMMA SecondFollows ==
    ASSUME RingSound, RingSound', CursorIsReference, ChainsInOrder, SentBefore, KnownInOrder,
           NEW lost \in BOOLEAN, Receive(lost), Shrinks \/ \E f : Stores(lost, f), inFlight[1].epoch = epoch,
           NEW r, NEW c, NEW s, Follows(r, c, s, 2)
    PROVE  Follows(r, c, s, 1)'
<1>1. inFlight[1].capture = r /\ inFlight[1].chain = c /\ inFlight[1].seq + 1 = s
  BY DEF Follows
<1>2. /\ Len(inFlight) >= 1 /\ Len(bitstream) >= 1 /\ Head(inFlight) = inFlight[1] /\ Head(bitstream) = bitstream[1]
      /\ inFlight[1].seq = bitstream[1].seq /\ inFlight[1].chain = chain.chain
  BY ReceiveSteps
<1>3. /\ DOMAIN inFlight = 1..Len(inFlight) /\ Len(inFlight) \in Nat
      /\ \A i \in DOMAIN inFlight : inFlight[i].capture \in Nat /\ inFlight[i].chain \in Nat /\ inFlight[i].seq \in Nat
      /\ DOMAIN bitstream = 1..Len(bitstream) /\ Len(bitstream) \in Nat
      /\ \A i \in DOMAIN bitstream : bitstream[i].key \in BOOLEAN
      /\ epochStart \in Nat /\ chain \in Tracker
  BY Shapes DEF RingSound, WorkerTypes
<1>4. 1 \in DOMAIN inFlight /\ 1 \in DOMAIN bitstream
  BY <1>2, <1>3
<1>5. r \in Nat /\ s - 1 = inFlight[1].seq /\ inFlight[1].seq \in Nat
  BY <1>1, <1>3, <1>4
<1>6. \A k \in Known : /\ k.captureNs < r /\ (k.chain = c => k.seq < inFlight[1].seq)
                       /\ k.captureNs \in Nat /\ k.seq \in Nat
  BY <1>1, <1>4, KnownShapes DEF KnownInOrder, Placed
<1>7. \A k \in Known : ~(k.captureNs = r) /\ ~(k.chain = c /\ k.seq + 1 = s)
  BY <1>1, <1>5, <1>6
<1>8. ASSUME NEW f, Stores(lost, f)
      PROVE  Follows(r, c, s, 1)'
  <2>1. /\ Frames' = Frames \cup {f} /\ IsPacket(f, inFlight[1], bitstream[1])
        /\ Known' \subseteq Known \cup {Frame(f)} /\ Gone' = Gone /\ epochStart' = epochStart
    BY <1>8 DEF Stores
  <2>2. f.captureNs = r /\ f.chain = c /\ f.seq + 1 = s
    BY <1>1, <1>2, <2>1 DEF IsPacket
  <2>3. NextAfter(r, c, s)'
    BY <1>7, <2>1, <2>2 DEF NextAfter, Frame
  <2>4. r > epochStart
    BY <1>1, <1>4 DEF RingSound, HoldersAreTheUndecided
  <2>5. InRing(r)'
    BY <2>1, <2>2, <2>4 DEF InRing
  <2> QED
    BY <2>3, <2>5 DEF Follows
<1>9. CASE Shrinks /\ ~\E f : Stores(lost, f)
  <2>1. NextAfter(r, c, s)'
    BY <1>7, <1>9 DEF NextAfter, Shrinks
  <2>2. ~Stored(lost)
    <3> SUFFICES ASSUME Stored(lost) PROVE \E f : Stores(lost, f)
      BY <1>9
    <3>1. PICK f : Frames' = Frames \cup {f} /\ IsPacket(f, inFlight[1], bitstream[1])
      BY <1>2, ReceiveSound
    <3>2. Stores(lost, f)
      <4>1. Known' \subseteq Known \cup {Frame(f)} /\ epoch' = epoch /\ epochStart' = epochStart
        BY <1>9 DEF Shrinks
      <4>2. Gone' = Gone
        BY ReceiveSound
      <4> QED
        BY <3>1, <4>1, <4>2 DEF Stores
    <3> QED
      BY <3>2
  <2>3. chain'.broken
    <3>1. chain' = (IF lost THEN OnLost(chain) ELSE chain)
      BY <1>2, <2>2 DEF Receive, Stored
    <3>2. ~lost => chain.broken
      BY <2>2 DEF Stored, ShouldStore
    <3> QED
      BY <1>3, <3>1, <3>2, TrackerSteps
  <2> QED
    BY <2>1, <2>3 DEF Follows
<1> QED
  BY <1>8, <1>9

LEMMA CurrentChain ==
    ASSUME RingSound, ChainsInOrder, NEW i \in DOMAIN inFlight, inFlight[i].epoch = epoch
    PROVE  chainEpoch = epoch /\ inFlight[i].chain = chain.chain
<1>1. inFlight[i].epoch <= chainEpoch /\ chainEpoch <= epoch
      /\ (inFlight[i].epoch = chainEpoch <=> inFlight[i].chain = chain.chain)
  BY DEF ChainsInOrder
<1>2. chainEpoch \in Nat /\ epoch \in Nat
  BY DEF RingSound, WorkerTypes
<1> QED
  BY <1>1, <1>2

LEMMA ShiftFollows ==
    ASSUME RingSound, RingSound', CursorIsReference, ChainsInOrder, SentBefore, KnownInOrder,
           NEW lost \in BOOLEAN, Receive(lost), Shrinks \/ \E f : Stores(lost, f),
           NEW r, NEW c, NEW s, NEW j \in 2..Len(inFlight) + 1, Follows(r, c, s, j),
           c = chain.chain, chainEpoch = epoch
    PROVE  Follows(r, c, s, j - 1)'
<1>1. /\ Len(inFlight) >= 1 /\ \A i \in 1..Len(inFlight) - 1 : inFlight'[i] = inFlight[i + 1]
  BY ReceiveSteps
<1>2. DOMAIN inFlight = 1..Len(inFlight) /\ Len(inFlight) \in Nat
  BY Shapes DEF RingSound
<1>3. inFlight[j - 1].capture = r /\ inFlight[j - 1].chain = c /\ inFlight[j - 1].seq + 1 = s
  BY <1>2 DEF Follows
<1>4. CASE j > 2
  <2>1. (j - 1) - 1 \in 1..Len(inFlight) - 1 /\ ((j - 1) - 1) + 1 = j - 1 /\ j - 1 > 1
    BY <1>2, <1>4
  <2>2. inFlight'[(j - 1) - 1] = inFlight[j - 1]
    BY <1>1, <2>1
  <2> QED
    BY <1>3, <2>1, <2>2 DEF Follows
<1>5. CASE ~(j > 2)
  <2>1. j = 2 /\ j - 1 = 1
    BY <1>2, <1>5
  <2>2. 1 \in DOMAIN inFlight
    BY <1>1, <1>2
  <2>3. inFlight[1].epoch = epoch
    BY <1>3, <2>1, <2>2 DEF ChainsInOrder
  <2>4. Follows(r, c, s, 2)
    BY <2>1
  <2>5. Follows(r, c, s, 1)'
    BY <2>3, <2>4, SecondFollows
  <2> QED
    BY <2>1, <2>5
<1> QED
  BY <1>4, <1>5

LEMMA PacketsStay ==
    ASSUME RingSound, RingSound', CursorIsReference, ChainsInOrder, ChainsInOrder', SentBefore, KnownInOrder, PacketsFollow,
           EncoderStep, Held' \subseteq Known, epoch' # epoch => Held' = {}
    PROVE  PacketsFollow'
<1>w. WorkerTypes
  BY DEF RingSound
<1>s. /\ DOMAIN inFlight = 1..Len(inFlight) /\ Len(inFlight) \in Nat
      /\ \A i \in DOMAIN inFlight : inFlight[i].epoch \in Nat
      /\ DOMAIN bitstream = 1..Len(bitstream) /\ Len(bitstream) \in Nat
      /\ \A i \in DOMAIN bitstream : bitstream[i].ref \in Nat /\ bitstream[i].key \in BOOLEAN
      /\ Lost \in Nat /\ Lost = Len(inFlight) - Len(bitstream) /\ lastSent \in Nat
      /\ chain \in Tracker /\ chain.nextSeq \in Nat /\ chainEpoch \in Nat /\ epoch \in Nat /\ job.epoch \in Nat
  BY <1>w, Shapes DEF WorkerTypes, SentBefore, Lost
<1>q. ASSUME UNCHANGED <<inFlight, bitstream, encoder, lastSent, chainEpoch>>, Shrinks, chain'.chain = chain.chain,
             chain'.broken = chain.broken,
             encoder = "inter" => chain'.nextSeq = chain.nextSeq /\ (chain.wantKey => chain'.wantKey)
      PROVE  PacketsFollow'
  <2>1. Lost' = Lost /\ epoch' = epoch
    BY <1>q DEF Lost, Shrinks
  <2>2. ASSUME NEW i \in DOMAIN bitstream
        PROVE  PacketFollows(i)'
    <3>1. PICK r, c, s, j : j = Lost + i /\ r = bitstream[i].ref /\ c = inFlight[j].chain /\ s = inFlight[j].seq
      OBVIOUS
    <3>2. r \in Nat
      BY <1>s, <3>1
    <3>3. ~bitstream[i].key /\ inFlight[j].epoch = epoch => Follows(r, c, s, j)
      BY <3>1 DEF PacketsFollow, PacketFollows
    <3>4. Follows(r, c, s, j) => Follows(r, c, s, j)'
      BY <1>q, <3>2, FollowsStays
    <3>5. (Lost + i)' = j /\ bitstream'[i].ref = r /\ inFlight'[j].chain = c /\ inFlight'[j].seq = s
      BY <1>q, <2>1, <3>1
    <3>6. ~bitstream'[i].key /\ inFlight'[j].epoch = epoch' => Follows(r, c, s, j)'
      BY <1>q, <2>1, <3>3, <3>4
    <3> QED
      BY <3>5, <3>6, PacketAt
  <2>3. NextFollows'
    <3>1. PICK r, c, s, j : j = Len(inFlight) + 1 /\ r = lastSent /\ c = chain.chain /\ s = chain'.nextSeq
      OBVIOUS
    <3>2. ~chain'.wantKey /\ encoder' = "inter" /\ chainEpoch' = epoch' => Follows(r, c, s, j)
      BY <1>q, <2>1, <3>1 DEF PacketsFollow, NextFollows
    <3>3. Follows(r, c, s, j) => Follows(r, c, s, j)'
      BY <1>q, <1>s, <3>1, FollowsStays
    <3> QED
      BY <1>q, <3>1, <3>2, <3>3, NextAt
  <2> QED
    BY <1>q, <2>2, <2>3 DEF PacketsFollow
<1>c. /\ \A submitted \in BOOLEAN : Capture(submitted) => UNCHANGED <<inFlight, bitstream, encoder, lastSent, chainEpoch, chain, epoch>>
      /\ \A retire \in BOOLEAN : TakeJob(retire) => UNCHANGED <<inFlight, bitstream, encoder, lastSent, chainEpoch, chain, epoch>>
      /\ Idles => UNCHANGED <<inFlight, bitstream, encoder, lastSent, chainEpoch, chain, epoch>>
  BY DEF Capture, TakeJob, Idles, codecVars, chainVars
<1>p. \A lost \in BOOLEAN : \A f : Stores(lost, f) => Receive(lost) /\ epoch' = epoch
  BY DEF Stores
<1>1. ASSUME Shrinks, UNCHANGED <<inFlight, bitstream, encoder, lastSent, chainEpoch, chain>> PROVE PacketsFollow'
  BY <1>1, <1>q
<1>2. CASE NewCycle
  <2>1. epoch' = epoch + 1 /\ UNCHANGED <<inFlight, bitstream, chainEpoch>>
    BY <1>2 DEF NewCycle, codecVars, chainVars
  <2>2. Lost' = Lost
    BY <2>1 DEF Lost
  <2>3. chainEpoch' # epoch'
    BY <1>s, <2>1 DEF ChainsInOrder
  <2>4. \A i \in DOMAIN bitstream' : inFlight'[Lost' + i].epoch # epoch'
    <3> SUFFICES ASSUME NEW i \in DOMAIN bitstream PROVE inFlight[Lost + i].epoch # epoch + 1
      BY <2>1, <2>2
    <3>1. Lost + i \in DOMAIN inFlight
      BY <1>s
    <3>2. inFlight[Lost + i].epoch <= epoch
      BY <3>1 DEF RingSound, HoldersAreTheUndecided
    <3> QED
      BY <1>s, <3>1, <3>2
  <2> QED
    BY <2>3, <2>4 DEF PacketsFollow, PacketFollows, NextFollows
<1>3. CASE Flushed
  <2>1. DOMAIN bitstream' = {} /\ encoder' # "inter"
    BY <1>3 DEF Flushed
  <2> QED
    BY <2>1 DEF PacketsFollow, NextFollows
<1>4. ASSUME NEW adopt \in BOOLEAN, NEW resized \in BOOLEAN, ChooseEncoder(adopt, resized), Shrinks PROVE PacketsFollow'
  <2>1. UNCHANGED <<inFlight, bitstream, job, epoch>> /\ (ChainKept \/ ChainStarted)
    BY <1>4, ChooseSteps
  <2>2. CASE ChainKept
    BY <1>4, <2>1, <2>2, <1>1 DEF ChainKept
  <2>3. CASE ChainStarted
    <3>1. chain'.wantKey
      BY <2>3 DEF ChainStarted, Started
    <3>2. \A i \in DOMAIN bitstream' : inFlight'[Lost' + i].epoch # epoch'
      <4> SUFFICES ASSUME NEW i \in DOMAIN bitstream PROVE inFlight[Lost + i].epoch # epoch
        BY <2>1 DEF Lost
      <4>1. Lost + i \in DOMAIN inFlight
        BY <1>s
      <4>2. encoder = "inter"
        BY <1>s, <1>w DEF WorkerTypes
      <4>3. chainEpoch < job.epoch /\ job.epoch <= epoch /\ inFlight[Lost + i].epoch <= chainEpoch
        BY <2>3, <4>1, <4>2 DEF ChainStarted, ChainsInOrder, RingSound, HoldersAreTheUndecided
      <4> QED
        BY <1>s, <4>1, <4>3
    <3> QED
      BY <3>1, <3>2 DEF PacketsFollow, PacketFollows, NextFollows
  <2> QED
    BY <2>1, <2>2, <2>3
<1>5. CASE JobDone /\ Shrinks
  BY <1>5, <1>q DEF JobDone, codecVars
<1>6. ASSUME NEW natural \in BOOLEAN, SendInter(natural), Shrinks PROVE PacketsFollow'
  <2>1. /\ job # NoJob /\ pc = "send" /\ encoder = "inter" /\ lastSent' = job.capture
        /\ chain' = CommitSend(chain, chain.wantKey) /\ epoch' = epoch
    BY <1>6, <1>w, SendInterSteps
  <2>2. chain'.chain = chain.chain /\ chain'.nextSeq = chain.nextSeq + 1 /\ chain'.broken = chain.broken
    BY <1>s, <2>1, TrackerSteps
  <2>3. /\ Len(inFlight') = Len(inFlight) + 1 /\ DOMAIN inFlight' = 1..Len(inFlight) + 1
        /\ inFlight'[Len(inFlight) + 1] = NewSent
        /\ \A i \in 1..Len(inFlight) : inFlight'[i] = inFlight[i]
        /\ DOMAIN bitstream' = 1..Len(bitstream) + 1
        /\ \A i \in 1..Len(bitstream) : bitstream'[i] = bitstream[i]
        /\ bitstream'[Len(bitstream) + 1].key <=> chain.wantKey \/ natural
        /\ bitstream'[Len(bitstream) + 1].ref = IF chain.wantKey \/ natural THEN 0 ELSE lastSent
        /\ Lost' = Lost
    BY <1>6, <1>w, SendSteps
  <2>4. NewSent.capture = job.capture /\ NewSent.epoch = job.epoch /\ NewSent.chain = chain.chain /\ NewSent.seq = chain.nextSeq
    BY DEF NewSent
  <2>5. ASSUME NEW i \in DOMAIN bitstream'
        PROVE  PacketFollows(i)'
    <3>1. PICK r, c, s, j : j = Lost + i /\ r = bitstream'[i].ref /\ c = inFlight'[j].chain /\ s = inFlight'[j].seq
      OBVIOUS
    <3>2. CASE i \in 1..Len(bitstream)
      <4>1. j \in 1..Len(inFlight) /\ bitstream'[i] = bitstream[i] /\ inFlight'[j] = inFlight[j]
        BY <1>s, <2>3, <3>1, <3>2
      <4>2. ~bitstream[i].key /\ inFlight[j].epoch = epoch => Follows(r, c, s, j)
        BY <1>s, <3>1, <3>2, <4>1 DEF PacketsFollow, PacketFollows
      <4>5. i \in DOMAIN bitstream /\ r = bitstream[i].ref
        BY <1>s, <3>1, <3>2, <4>1
      <4>6. r \in Nat
        BY <1>s, <4>5
      <4>7. j > 1 => j - 1 \in 1..Len(inFlight)
        BY <1>s, <4>1
      <4>3. j > 1 => inFlight'[j - 1] = inFlight[j - 1]
        BY <2>3, <4>7
      <4>4. Follows(r, c, s, j) => Follows(r, c, s, j)'
        BY <1>6, <2>2, <4>3, <4>6, FollowsStays
      <4> QED
        BY <2>1, <2>3, <3>1, <4>1, <4>2, <4>4, PacketAt
    <3>3. CASE i = Len(bitstream) + 1
      <4>1. j = Len(inFlight) + 1 /\ c = chain.chain /\ s = chain.nextSeq /\ inFlight'[j].epoch = job.epoch
        BY <1>s, <2>3, <2>4, <3>1, <3>3
      <4>2. ~bitstream'[i].key => ~chain.wantKey /\ r = lastSent
        BY <2>3, <3>1, <3>3
      <4>3. job.epoch = epoch => chainEpoch = epoch
        BY <2>1 DEF ChainsInOrder
      <4>4. ~bitstream'[i].key /\ inFlight'[j].epoch = epoch' => Follows(r, c, s, j)
        BY <2>1, <4>1, <4>2, <4>3 DEF PacketsFollow, NextFollows
      <4>5. j > 1 => inFlight'[j - 1] = inFlight[j - 1]
        BY <1>s, <2>3, <4>1
      <4>6. ASSUME ~bitstream'[i].key, Follows(r, c, s, j) PROVE Follows(r, c, s, j)'
        <5>1. r \in Nat
          BY <1>s, <4>2, <4>6
        <5> QED
          BY <1>6, <2>2, <4>5, <4>6, <5>1, FollowsStays
      <4> QED
        BY <2>3, <3>1, <4>4, <4>6, PacketAt
    <3> QED
      BY <1>s, <2>3, <3>2, <3>3
  <2>6. NextFollows'
    <3>1. PICK r, c, s, j : j = Len(inFlight') + 1 /\ r = lastSent' /\ c = chain'.chain /\ s = chain'.nextSeq
      OBVIOUS
    <3>2. j > 1 /\ inFlight'[j - 1] = NewSent
      BY <1>s, <2>3, <3>1
    <3>3. Follows(r, c, s, j)'
      BY <2>1, <2>2, <2>4, <3>1, <3>2 DEF Follows
    <3> QED
      BY <3>1, <3>3, NextAt
  <2> QED
    BY <2>5, <2>6 DEF PacketsFollow
<1>7. ASSUME NEW lost \in BOOLEAN, Receive(lost), Shrinks \/ \E f : Stores(lost, f), epoch' = epoch PROVE PacketsFollow'
  <2>1. /\ Len(inFlight) >= 1 /\ Len(bitstream) >= 1 /\ Lost' = Lost
        /\ Len(inFlight') = Len(inFlight) - 1 /\ DOMAIN inFlight' = 1..Len(inFlight) - 1
        /\ \A i \in 1..Len(inFlight) - 1 : inFlight'[i] = inFlight[i + 1]
        /\ Len(bitstream') = Len(bitstream) - 1 /\ DOMAIN bitstream' = 1..Len(bitstream) - 1
        /\ \A i \in 1..Len(bitstream) - 1 : bitstream'[i] = bitstream[i + 1]
    BY <1>7, ReceiveSteps
  <2>2. UNCHANGED <<encoder, lastSent, chainEpoch>> /\ chain'.chain = chain.chain /\ chain'.nextSeq = chain.nextSeq
    BY <1>7, ReceiveKeeps DEF Receive
  <2>3. ASSUME NEW i \in DOMAIN bitstream'
        PROVE  PacketFollows(i)'
    <3>1. PICK r, c, s, j : j = Lost + (i + 1) /\ r = bitstream[i + 1].ref /\ c = inFlight[j].chain /\ s = inFlight[j].seq
      OBVIOUS
    <3>7. /\ i \in 1..Len(bitstream) - 1 /\ i + 1 \in DOMAIN bitstream
          /\ j \in 2..Len(inFlight) /\ j - 1 = Lost + i /\ j - 1 \in 1..Len(inFlight) - 1 /\ (j - 1) + 1 = j
      <4>1. i \in 1..Len(bitstream) - 1
        BY <2>1
      <4>2. i \in Nat /\ i >= 1 /\ i + 1 <= Len(bitstream) /\ Len(bitstream) \in Nat /\ Len(inFlight) \in Nat
            /\ Lost \in Nat /\ Lost = Len(inFlight) - Len(bitstream)
        BY <1>s, <4>1
      <4>3. i + 1 \in 1..Len(bitstream) /\ DOMAIN bitstream = 1..Len(bitstream)
        BY <1>s, <4>2
      <4>4. j \in 2..Len(inFlight) /\ j - 1 = Lost + i /\ j - 1 \in 1..Len(inFlight) - 1 /\ (j - 1) + 1 = j
        <5> HIDE DEF Lost
        <5> QED
          BY <3>1, <4>2
      <4> QED
        BY <4>1, <4>3, <4>4
    <3>8. bitstream'[i] = bitstream[i + 1]
      BY <2>1, <3>7
    <3>9. inFlight'[j - 1] = inFlight[j]
      <4>1. inFlight'[j - 1] = inFlight[(j - 1) + 1]
        BY <2>1, <3>7
      <4> QED
        BY <3>7, <4>1
    <3>2. /\ i + 1 \in DOMAIN bitstream /\ bitstream'[i] = bitstream[i + 1] /\ j \in 2..Len(inFlight) /\ j - 1 = Lost + i
          /\ inFlight'[j - 1] = inFlight[j]
      BY <3>7, <3>8, <3>9
    <3>3. ~bitstream[i + 1].key /\ inFlight[j].epoch = epoch => Follows(r, c, s, j)
      BY <3>1, <3>2 DEF PacketsFollow, PacketFollows
    <3>4. ASSUME inFlight[j].epoch = epoch, Follows(r, c, s, j)
          PROVE  Follows(r, c, s, j - 1)'
      <4>1. c = chain.chain /\ chainEpoch = epoch
        BY <1>s, <3>1, <3>2, <3>4, CurrentChain
      <4>2. j \in 2..Len(inFlight) + 1
        BY <1>s, <3>2
      <4> QED
        BY <1>7, <3>4, <4>1, <4>2, ShiftFollows
    <3> DEFINE m == j - 1
    <3>5. /\ (Lost + i)' = m /\ bitstream'[i].ref = r /\ inFlight'[m].chain = c /\ inFlight'[m].seq = s
          /\ inFlight'[m] = inFlight[j] /\ (Follows(r, c, s, j - 1)' <=> Follows(r, c, s, m)')
      BY <2>1, <3>1, <3>2
    <3> HIDE DEF m
    <3>6. ~bitstream'[i].key /\ inFlight'[m].epoch = epoch' => Follows(r, c, s, m)'
      BY <1>7, <3>2, <3>3, <3>4, <3>5
    <3> QED
      BY <3>5, <3>6, PacketAt
  <2>4. NextFollows'
    <3>1. PICK r, c, s, j : j = Len(inFlight) + 1 /\ r = lastSent /\ c = chain.chain /\ s = chain.nextSeq
      OBVIOUS
    <3>2. ASSUME ~chain'.wantKey, encoder' = "inter", chainEpoch' = epoch'
          PROVE  Follows(r, c, s, j - 1)'
      <4>1. ~chain.wantKey
        <5>1. Head(bitstream) = bitstream[1]
          BY <1>7, ReceiveSteps
        <5>2. 1 \in DOMAIN bitstream
          BY <1>s, <2>1
        <5>3. bitstream[1].key \in BOOLEAN
          BY <1>s, <5>2
        <5> QED
          BY <1>7, <1>s, <3>2, <5>1, <5>3, TrackerSteps DEF Receive
      <4>2. Follows(r, c, s, j) /\ chainEpoch = epoch
        BY <1>7, <2>2, <3>1, <3>2, <4>1 DEF PacketsFollow, NextFollows
      <4>3. j \in 2..Len(inFlight) + 1
        BY <1>s, <2>1, <3>1
      <4> QED
        BY <1>7, <3>1, <4>2, <4>3, ShiftFollows
    <3> DEFINE m == j - 1
    <3>3. Len(inFlight') + 1 = m /\ (Follows(r, c, s, j - 1)' <=> Follows(r, c, s, m)')
      BY <1>s, <2>1, <3>1
    <3> HIDE DEF m
    <3> QED
      BY <2>2, <3>1, <3>2, <3>3, NextAt
  <2> QED
    BY <2>3, <2>4 DEF PacketsFollow
<1>8. CASE LosePacket /\ Shrinks
  <2>1. /\ Len(bitstream) >= 1 /\ DOMAIN bitstream' = 1..Len(bitstream) - 1
        /\ \A i \in 1..Len(bitstream) - 1 : bitstream'[i] = bitstream[i + 1]
        /\ Lost' = Lost + 1 /\ UNCHANGED <<epoch, encoder, inFlight, lastSent, chain, chainEpoch>>
    BY <1>8, <1>w, LoseSteps
  <2>2. ASSUME NEW i \in DOMAIN bitstream'
        PROVE  PacketFollows(i)'
    <3>1. PICK r, c, s, j : j = Lost + (i + 1) /\ r = bitstream[i + 1].ref /\ c = inFlight[j].chain /\ s = inFlight[j].seq
      OBVIOUS
    <3>7. i \in 1..Len(bitstream) - 1 /\ i + 1 \in DOMAIN bitstream /\ j = (Lost + 1) + i
      <4>1. i \in 1..Len(bitstream) - 1
        BY <2>1
      <4> QED
        BY <1>s, <3>1, <4>1
    <3>2. i + 1 \in DOMAIN bitstream /\ bitstream'[i] = bitstream[i + 1] /\ j = Lost' + i
      BY <2>1, <3>7
    <3>3. ~bitstream[i + 1].key /\ inFlight[j].epoch = epoch => Follows(r, c, s, j)
      BY <3>1, <3>2 DEF PacketsFollow, PacketFollows
    <3>4. r \in Nat
      BY <1>s, <3>1, <3>2
    <3>5. Follows(r, c, s, j) => Follows(r, c, s, j)'
      BY <1>8, <2>1, <3>4, FollowsStays
    <3> QED
      BY <2>1, <3>1, <3>2, <3>3, <3>5, PacketAt
  <2>3. NextFollows'
    <3>1. PICK r, c, s, j : j = Len(inFlight) + 1 /\ r = lastSent /\ c = chain.chain /\ s = chain.nextSeq
      OBVIOUS
    <3>2. ~chain'.wantKey /\ encoder' = "inter" /\ chainEpoch' = epoch' => Follows(r, c, s, j)
      BY <2>1, <3>1 DEF PacketsFollow, NextFollows
    <3>3. Follows(r, c, s, j) => Follows(r, c, s, j)'
      BY <1>8, <1>s, <2>1, <3>1, FollowsStays
    <3> QED
      BY <2>1, <3>1, <3>2, <3>3, NextAt
  <2> QED
    BY <2>2, <2>3 DEF PacketsFollow
<1>9. CASE Shrinks
  BY <1>1, <1>2, <1>3, <1>4, <1>5, <1>6, <1>7, <1>8, <1>9, <1>c DEF EncoderStep, Shrinks
<1>10. ASSUME NEW lost \in BOOLEAN, NEW f, Stores(lost, f) PROVE PacketsFollow'
  BY <1>7, <1>10, <1>p
<1> QED
  BY <1>2, <1>9, <1>10, KnownChanges

-----------------------------------------------------------------------------
(* The decoder.                                                            *)

\* What a step of the decode worker does to its decoder: nothing, forget, or decode a packet that is
\* in the ring and that its cursor takes.
DecoderStep ==
    /\ UNCHANGED encodeVars
    /\ \/ UNCHANGED <<cursor, reference, decodeEpoch>>
       \/ Forgotten /\ decodeEpoch' \in {decodeEpoch, epoch}
       \/ /\ UNCHANGED decodeEpoch /\ decodeEpoch = epoch
          /\ \E p \in 1..Len(window) : \E ok \in BOOLEAN :
                IsReady(window[p]) /\ CanDecode(window[p]) /\ Decodes(window[p], ok)

LEMMA WorkerSteps ==
    ASSUME Len(window) \in Nat, DecodeStep \/ (\E ns \in 1..MaxCaptures : Show(ns))
    PROVE  DecoderStep
<1>1. ASSUME NEW ns \in 1..MaxCaptures, Show(ns) PROVE DecoderStep
  BY <1>1 DEF Show, DecoderStep, decoderVars
<1>2. CASE SyncEpoch
  BY <1>2 DEF SyncEpoch, DecoderStep
<1>3. CASE ReplaceDecoder
  BY <1>3 DEF ReplaceDecoder, DecoderStep
<1>4. ASSUME NEW ok \in BOOLEAN, DecodeNext(ok) PROVE DecoderStep
  <2>1. PICK p : p = NextForDecode(window, cursorNs, targetNs, Forever, Interval, JumpBack)
    OBVIOUS
  <2>2. p # 0 /\ NextSlot = window[p] /\ decodeEpoch = epoch
    BY <1>4, <2>1 DEF DecodeNext, HasNext, NextSlot
  <2>3. p \in 1..Len(window) /\ IsReady(window[p])
    BY <2>1, <2>2, DecodeIsReady
  <2>4. CanDecode(window[p]) /\ Decodes(window[p], ok) /\ UNCHANGED <<encodeVars, decodeEpoch>>
    BY <1>4, <2>2 DEF DecodeNext
  <2> QED
    BY <2>2, <2>3, <2>4 DEF DecoderStep
<1>5. CASE SkipNext
  BY <1>5 DEF SkipNext, DecoderStep, decoderVars
<1>6. CASE StartFromKey
  BY <1>6 DEF StartFromKey, DecoderStep, decoderVars
<1>7. CASE PlanStart
  BY <1>7 DEF PlanStart, DecoderStep, decoderVars
<1>8. ASSUME NEW ok \in BOOLEAN, CatchUp(ok) PROVE DecoderStep
  <2>1. PICK p : p = CatchUpPos
    OBVIOUS
  <2>2. p # 0 /\ decodeEpoch = epoch /\ UNCHANGED <<encodeVars, decodeEpoch>>
    BY <1>8, <2>1 DEF CatchUp
  <2>3. p \in 1..Len(window) /\ IsReady(window[p])
    BY <2>1, <2>2, RangeIsReady DEF CatchUpPos
  <2>4. IF CanDecode(window[p]) THEN Decodes(window[p], ok) ELSE UNCHANGED decoderVars
    BY <1>8, <2>1 DEF CatchUp
  <2> QED
    BY <2>2, <2>3, <2>4 DEF DecoderStep, decoderVars
<1>9. CASE CatchUpGone
  BY <1>9 DEF CatchUpGone, DecoderStep, decoderVars
<1> QED
  BY <1>1, <1>2, <1>3, <1>4, <1>5, <1>6, <1>7, <1>8, <1>9 DEF DecodeStep

\* A Ready slot of the inter codec is one of the frames.
LEMMA FrameAt ==
    ASSUME NEW p \in 1..Len(window), DOMAIN window = 1..Len(window), IsReady(window[p]), window[p].codec = "inter"
    PROVE  window[p] \in Frames
BY DEF Frames, InterFrames

\* The decoder holds nothing but what was known, and its cursor stays the packet it holds.
LEMMA DecoderKeeps ==
    ASSUME RingSound, CursorIsReference, DecoderStep
    PROVE  Held' \subseteq Known /\ CursorIsReference'
<1>s. /\ DOMAIN window = 1..Len(window) /\ epoch \in Nat
      /\ cursor \in [valid : BOOLEAN, chain : Nat, seq : Nat]
      /\ reference \in [capture : Nat, key : BOOLEAN, ref : Nat]
      /\ decodeEpoch \in Nat /\ decodeEpoch <= epoch /\ (cursor.valid <=> reference # Nothing)
  BY DEF RingSound, WorkerTypes, CursorIsReference
<1>e. epoch' = epoch
  BY DEF DecoderStep, encodeVars, ringVars
<1>1. CASE UNCHANGED <<cursor, reference, decodeEpoch>>
  <2>1. Held' = Held
    BY <1>1, <1>e DEF Held
  <2> QED
    BY <1>1, <1>e, <1>s, <2>1 DEF Known, CursorIsReference, Nothing
<1>2. ASSUME Forgotten, decodeEpoch' \in {decodeEpoch, epoch} PROVE Held' \subseteq Known /\ CursorIsReference'
  <2>1. cursor' = NoCursor /\ reference' = Nothing
    BY <1>2 DEF Forgotten
  <2>2. Held' = {}
    BY <2>1 DEF Held, NoCursor
  <2>3. CursorIsReference'
    BY <1>2, <1>e, <1>s, <2>1 DEF CursorIsReference, NoCursor, Nothing
  <2> QED
    BY <2>2, <2>3
<1>3. ASSUME UNCHANGED decodeEpoch, NEW p \in 1..Len(window), NEW ok \in BOOLEAN, IsReady(window[p]),
             Decodes(window[p], ok)
      PROVE  Held' \subseteq Known /\ CursorIsReference'
  <2>1. CASE window[p].codec # "inter"
    BY <1>1, <1>3, <2>1 DEF Decodes, decoderVars
  <2>2. CASE window[p].codec = "inter" /\ ~ok
    BY <1>2, <1>3, <2>2 DEF Decodes
  <2>3. CASE window[p].codec = "inter" /\ ok
    <3>1. PICK f : f = window[p] /\ f \in Frames
      BY <1>s, <1>3, <2>3, FrameAt
    <3>2. /\ cursor' = [valid |-> TRUE, chain |-> f.chain, seq |-> f.seq]
          /\ reference' = [capture |-> f.captureNs, key |-> f.key, ref |-> f.ref]
      BY <1>3, <2>3, <3>1 DEF Decodes
    <3>3. f.captureNs \in Nat /\ f.chain \in Nat /\ f.seq \in Nat /\ f.ref \in Nat /\ f.key \in BOOLEAN
          /\ f.captureNs > epochStart /\ Frame(f) \in Known
      BY <3>1, FrameShapes
    <3>4. f.captureNs # 0
      BY <3>3 DEF RingSound, WorkerTypes
    <3>5. reference' # Nothing
      BY <3>2, <3>4 DEF Nothing
    <3>6. CursorIsReference'
      BY <1>3, <1>e, <1>s, <3>2, <3>3, <3>5 DEF CursorIsReference, Nothing
    <3>7. Held' \subseteq {Frame(f)}
      BY <3>2 DEF Held, Frame
    <3> QED
      BY <3>3, <3>6, <3>7
  <2> QED
    BY <2>1, <2>2, <2>3
<1> QED
  BY <1>1, <1>2, <1>3 DEF DecoderStep

-----------------------------------------------------------------------------
(* The invariant holds of every state.                                     *)

LEMMA StartsSound ==
    ASSUME Init
    PROVE  ChainInvariant
<1>1. /\ window = <<>> /\ captured = 0 /\ epoch = 1 /\ epochStart = 0 /\ queue = <<>>
      /\ job = NoJob /\ pc = "idle" /\ encoder = "none"
      /\ chain = [chain |-> NoChain, nextSeq |-> 0, wantKey |-> TRUE, broken |-> FALSE]
      /\ chainEpoch = 0 /\ nextChain = 1
      /\ inFlight = <<>> /\ bitstream = <<>> /\ lastSent = 0
      /\ cursor = NoCursor /\ reference = Nothing /\ decodeEpoch = 0
  BY DEF Init, EncodeInit
<1>2. Len(window) = 0 /\ DOMAIN window = {} /\ DOMAIN queue = {} /\ DOMAIN inFlight = {} /\ DOMAIN bitstream = {}
      /\ Len(inFlight) = 0 /\ Len(bitstream) = 0
  BY <1>1
<1>3. WorkerTypes
  BY <1>1 DEF WorkerTypes, NoJob, Tracker, NoChain
<1>4. Gone = 0
  <2>1. captured = 0 /\ Len(window) = 0
    BY <1>1, <1>2
  <2> QED
    BY <2>1 DEF Gone
<1>5. RingSound
  BY <1>1, <1>2, <1>3, <1>4 DEF RingSound, RingInOrder, HoldersInOrder, HoldersAreTheUndecided, Holds, NoJob
<1>6. Frames = {} /\ Held = {} /\ Known = {}
  BY <1>1, <1>2 DEF Frames, InterFrames, Held, Known, NoCursor
<1>7. ChainsInOrder /\ SentBefore /\ BrokenIsMended
  BY <1>1, <1>2 DEF ChainsInOrder, SentBefore, BrokenIsMended, NoChain, NoJob
<1>8. KnownInOrder /\ KnownFollow
  BY <1>6 DEF KnownInOrder, KnownFollow
<1>9. PacketsFollow
  BY <1>1, <1>2 DEF PacketsFollow, NextFollows
<1>10. CursorIsReference
  BY <1>1 DEF CursorIsReference, NoCursor, Nothing
<1> QED
  BY <1>5, <1>7, <1>8, <1>9, <1>10 DEF ChainInvariant

LEMMA EncoderKeeps ==
    ASSUME ChainInvariant, EncoderStep, CursorIsReference', Held' \subseteq Known, epoch' # epoch => Held' = {}
    PROVE  ChainInvariant'
<1>1. /\ RingSound /\ ChainsInOrder /\ SentBefore /\ KnownInOrder /\ KnownFollow /\ PacketsFollow
      /\ BrokenIsMended /\ CursorIsReference
  BY DEF ChainInvariant
<1>2. RingSound'
  BY <1>1, RingStays
<1>3. ChainsInOrder'
  BY <1>1, ChainsStay
<1>4. SentBefore'
  BY <1>1, ReferencesStay
<1>5. KnownInOrder'
  BY <1>1, OrderStays
<1>6. KnownFollow'
  BY <1>1, <1>2, FollowersStay
<1>7. PacketsFollow'
  BY <1>1, <1>2, <1>3, PacketsStay
<1>8. BrokenIsMended'
  BY <1>1, MendingStays
<1> QED
  BY <1>2, <1>3, <1>4, <1>5, <1>6, <1>7, <1>8 DEF ChainInvariant

LEMMA InvariantStays ==
    ASSUME ChainInvariant, [Next]_vars
    PROVE  ChainInvariant'
<1>1. RingSound /\ CursorIsReference /\ epoch \in Nat
  BY DEF ChainInvariant, RingSound, WorkerTypes
<1>2. ASSUME EncoderStep, UNCHANGED <<cursor, reference, decodeEpoch>>, epoch' = epoch PROVE ChainInvariant'
  <2>1. Held' = Held
    BY <1>2 DEF Held
  <2>2. CursorIsReference'
    BY <1>1, <1>2 DEF CursorIsReference, Nothing
  <2> QED
    BY <1>2, <2>1, <2>2, EncoderKeeps DEF Known
<1>3. CASE EncodeNext /\ epoch' = epoch /\ UNCHANGED decodeVars
  BY <1>1, <1>2, <1>3, EncoderSteps DEF decodeVars, decoderVars
<1>4. CASE Attach
  <2>1. NewCycle /\ epoch' = epoch + 1 /\ UNCHANGED <<cursor, reference, decodeEpoch>>
    BY <1>4 DEF Attach, NewCycle, decoderVars
  <2>2. EncoderStep
    BY <2>1 DEF EncoderStep
  <2>3. decodeEpoch' # epoch'
    BY <1>1, <2>1 DEF CursorIsReference
  <2>4. Held' = {}
    BY <2>3 DEF Held
  <2>5. CursorIsReference'
    BY <1>1, <2>1 DEF CursorIsReference, Nothing
  <2> QED
    BY <2>2, <2>4, <2>5, EncoderKeeps
<1>5. CASE DecodeStep \/ \E ns \in 1..MaxCaptures : Show(ns)
  <2>1. Len(window) \in Nat
    BY <1>1 DEF RingSound, WorkerTypes
  <2>2. DecoderStep
    BY <1>5, <2>1, WorkerSteps
  <2>3. Idles /\ epoch' = epoch
    BY <2>2 DEF DecoderStep, encodeVars, ringVars, codecVars, chainVars, Idles
  <2>4. Held' \subseteq Known /\ CursorIsReference'
    BY <1>1, <2>2, DecoderKeeps
  <2> QED
    BY <2>3, <2>4, EncoderKeeps DEF EncoderStep
<1>6. CASE UNCHANGED vars
  <2>1. Idles /\ epoch' = epoch /\ UNCHANGED <<cursor, reference, decodeEpoch>>
    BY <1>6 DEF vars, encodeVars, ringVars, codecVars, chainVars, decodeVars, decoderVars, Idles
  <2> QED
    BY <1>2, <2>1 DEF EncoderStep
<1> QED
  BY <1>3, <1>4, <1>5, <1>6 DEF Next

THEOREM ChainHolds == Spec => []ChainInvariant
<1>1. Init => ChainInvariant
  BY StartsSound
<1>2. ChainInvariant /\ [Next]_vars => ChainInvariant'
  BY InvariantStays
<1> QED
  BY <1>1, <1>2, PTL DEF Spec

-----------------------------------------------------------------------------
(* What the invariant says of the encoder's chains.                        *)

LEMMA ReferencesInRing ==
    ASSUME ChainInvariant
    PROVE  NoOrphanStored
<1>1. RingSound /\ KnownFollow
  BY DEF ChainInvariant
<1>2. SUFFICES ASSUME NEW p \in InterFrames, ~window[p].key
      PROVE  /\ window[p].ref > epochStart
             /\ window[p].ref >= window[1].captureNs => \E q \in InterFrames : window[q].captureNs = window[p].ref
  BY DEF NoOrphanStored
<1>3. PICK f : f = window[p] /\ f \in Frames
  BY DEF Frames
<1>4. InRing(f.ref)
  BY <1>1, <1>2, <1>3 DEF KnownFollow
<1>5. f.ref \in Nat /\ f.captureNs \in Nat
  BY <1>1, <1>3, FrameShapes
<1>6. p \in 1..Len(window) /\ Len(window) \in Nat /\ DOMAIN window = 1..Len(window) /\ Gone \in Int
  BY <1>1 DEF InterFrames, RingSound, WorkerTypes, Gone
<1>7. window[1].captureNs = Gone + 1
  <2>1. 1 \in DOMAIN window
    BY <1>6
  <2> QED
    BY <1>1, <2>1 DEF RingSound, RingInOrder
<1>8. ASSUME f.ref >= Gone + 1 PROVE \E q \in InterFrames : window[q].captureNs = f.ref
  <2>1. f.ref > Gone
    BY <1>5, <1>6, <1>8
  <2>2. PICK g \in Frames : g.captureNs = f.ref
    BY <1>4, <2>1 DEF InRing
  <2> QED
    BY <2>2 DEF Frames
<1> QED
  BY <1>3, <1>4, <1>7, <1>8 DEF InRing

LEMMA BrokenMends ==
    ASSUME ChainInvariant
    PROVE  BrokenChainMends
<1>1. BrokenIsMended /\ SentBefore /\ WorkerTypes
  BY DEF ChainInvariant, RingSound
<1>2. Len(inFlight) \in Nat /\ Len(bitstream) \in Nat
  BY <1>1 DEF WorkerTypes
<1>3. Lost > 0 => Len(inFlight) > Len(bitstream)
  BY <1>2 DEF Lost
<1> QED
  BY <1>1, <1>3 DEF BrokenIsMended, BrokenChainMends

LEMMA SeqsTell ==
    ASSUME ChainInvariant
    PROVE  SeqTellsReference
<1>1. RingSound /\ KnownInOrder /\ KnownFollow
  BY DEF ChainInvariant
<1>2. ASSUME NEW p \in InterFrames, NEW q \in InterFrames
      PROVE  /\ ~window[q].key =>
                    (window[q].ref = window[p].captureNs <=>
                        window[q].chain = window[p].chain /\ window[q].seq = window[p].seq + 1)
             /\ p < q /\ window[p].chain = window[q].chain => window[p].seq < window[q].seq
  <2>1. PICK f, g : f = window[p] /\ g = window[q] /\ f \in Frames /\ g \in Frames
    BY DEF Frames
  <2>2. /\ f.captureNs \in Nat /\ f.seq \in Nat /\ Frame(f) \in Known
        /\ Frame(f).captureNs = f.captureNs /\ Frame(f).chain = f.chain /\ Frame(f).seq = f.seq
    BY <1>1, <2>1, FrameShapes
  <2>3. /\ g.captureNs \in Nat /\ g.seq \in Nat /\ Frame(g) \in Known
        /\ Frame(g).captureNs = g.captureNs /\ Frame(g).chain = g.chain /\ Frame(g).seq = g.seq
    BY <1>1, <2>1, FrameShapes
  <2>4. ~g.key => (f.captureNs = g.ref <=> f.chain = g.chain /\ f.seq + 1 = g.seq)
    BY <1>1, <2>1, <2>2 DEF KnownFollow, NextAfter
  <2>5. ASSUME p < q, f.chain = g.chain PROVE f.seq < g.seq
    <3>1. f.captureNs < g.captureNs
      <4>1. p \in Nat /\ q \in Nat /\ Gone \in Int
        BY <1>1 DEF InterFrames, RingSound, WorkerTypes, Gone
      <4>2. f.captureNs = Gone + p /\ g.captureNs = Gone + q
        BY <1>1, <2>1 DEF InterFrames, RingSound, RingInOrder
      <4> HIDE DEF Gone
      <4> QED
        BY <2>5, <4>1, <4>2
    <3> QED
      BY <1>1, <2>2, <2>3, <2>5, <3>1 DEF KnownInOrder, Agree
  <2> QED
    BY <2>1, <2>4, <2>5
<1> QED
  BY <1>2, ReferencesInRing, BrokenMends DEF SeqTellsReference

\* The frames in flight, the job and the queue, one after the other.
LEMMA HoldersInSequence ==
    ASSUME RingSound
    PROVE  UndecidedIsHeldOnce
<1> DEFINE inEncoder == [i \in DOMAIN inFlight |-> inFlight[i].capture]
           underWay  == IF job = NoJob THEN <<>> ELSE <<job.capture>>
           first     == inEncoder \o underWay
           holders   == first \o queue
           Later(s, t) == \A i \in DOMAIN s, j \in DOMAIN t : s[i] < t[j]
           Rises(s) == \A i, j \in DOMAIN s : i < j => s[i] < s[j]
<1>w. WorkerTypes /\ HoldersInOrder /\ HoldersAreTheUndecided
  BY DEF RingSound
<1>c. ASSUME NEW s \in Seq(Nat), NEW t \in Seq(Nat), Rises(s), Rises(t), Later(s, t)
      PROVE  /\ s \o t \in Seq(Nat) /\ Rises(s \o t)
             /\ \A x : (\E i \in DOMAIN (s \o t) : (s \o t)[i] = x) <=>
                          (\E i \in DOMAIN s : s[i] = x) \/ (\E i \in DOMAIN t : t[i] = x)
  <2>1. /\ s \o t \in Seq(Nat) /\ Len(s) \in Nat /\ Len(t) \in Nat
        /\ DOMAIN s = 1..Len(s) /\ DOMAIN t = 1..Len(t) /\ DOMAIN (s \o t) = 1..Len(s) + Len(t)
        /\ \A i \in 1..Len(s) : (s \o t)[i] = s[i]
        /\ \A i \in Len(s) + 1..Len(s) + Len(t) : (s \o t)[i] = t[i - Len(s)]
    OBVIOUS
  <2>2. PICK st, m, n : st = s \o t /\ m = Len(s) /\ n = Len(t)
    OBVIOUS
  <2>3. /\ m \in Nat /\ n \in Nat /\ DOMAIN s = 1..m /\ DOMAIN t = 1..n /\ DOMAIN st = 1..m + n
        /\ \A i \in 1..m : st[i] = s[i]
        /\ \A i \in m + 1..m + n : st[i] = t[i - m]
    BY <2>1, <2>2
  <2>4. ASSUME NEW i \in DOMAIN st, NEW j \in DOMAIN st, i < j PROVE st[i] < st[j]
    <3>1. CASE j <= m
      <4>1. i \in 1..m /\ j \in 1..m
        BY <2>3, <2>4, <3>1
      <4> QED
        BY <1>c, <2>3, <2>4, <4>1
    <3>2. CASE i <= m /\ j > m
      <4>1. i \in 1..m /\ j \in m + 1..m + n /\ j - m \in 1..n
        BY <2>3, <2>4, <3>2
      <4> QED
        BY <1>c, <2>3, <4>1
    <3>3. CASE i > m
      <4>1. i \in m + 1..m + n /\ j \in m + 1..m + n /\ i - m \in 1..n /\ j - m \in 1..n /\ i - m < j - m
        BY <2>3, <2>4, <3>3
      <4> QED
        BY <1>c, <2>3, <4>1
    <3> QED
      BY <2>3, <3>1, <3>2, <3>3
  <2>5. ASSUME NEW x
        PROVE  (\E i \in DOMAIN st : st[i] = x) <=> (\E i \in DOMAIN s : s[i] = x) \/ (\E i \in DOMAIN t : t[i] = x)
    <3>1. ASSUME NEW i \in DOMAIN st, st[i] = x
          PROVE  (\E k \in DOMAIN s : s[k] = x) \/ (\E k \in DOMAIN t : t[k] = x)
      <4>1. i \in 1..m \/ (i \in m + 1..m + n /\ i - m \in 1..n)
        BY <2>3
      <4> QED
        BY <2>3, <3>1, <4>1
    <3>2. ASSUME NEW i \in DOMAIN s, s[i] = x PROVE \E k \in DOMAIN st : st[k] = x
      <4>1. i \in DOMAIN st /\ i \in 1..m
        BY <2>3
      <4> QED
        BY <2>3, <3>2, <4>1
    <3>3. ASSUME NEW i \in DOMAIN t, t[i] = x PROVE \E k \in DOMAIN st : st[k] = x
      <4>1. m + i \in DOMAIN st /\ m + i \in m + 1..m + n /\ (m + i) - m = i
        BY <2>3
      <4> QED
        BY <2>3, <3>3, <4>1
    <3> QED
      BY <3>1, <3>2, <3>3
  <2> QED
    BY <2>1, <2>2, <2>4, <2>5
<1>1. inEncoder \in Seq(Nat) /\ DOMAIN inEncoder = DOMAIN inFlight
  BY <1>w, Shapes
<1>2. underWay \in Seq(Nat) /\ DOMAIN underWay = (IF job = NoJob THEN {} ELSE {1})
      /\ (job # NoJob => underWay[1] = job.capture)
  BY <1>w DEF WorkerTypes
<1>3. queue \in Seq(Nat)
  BY <1>w DEF WorkerTypes
<1>4. Rises(inEncoder) /\ Rises(underWay) /\ Rises(queue)
  <2>1. Rises(inEncoder)
    BY <1>w, <1>1 DEF HoldersInOrder
  <2>2. Rises(underWay)
    BY <1>2
  <2> QED
    BY <1>w, <2>1, <2>2 DEF HoldersInOrder
<1>5. Later(inEncoder, underWay) /\ Later(inEncoder, queue) /\ Later(underWay, queue)
  <2> HIDE DEF underWay
  <2> QED
    BY <1>w, <1>1, <1>2 DEF HoldersInOrder
<1>6. /\ first \in Seq(Nat) /\ Rises(first)
      /\ \A x : (\E i \in DOMAIN first : first[i] = x) <=>
                   (\E i \in DOMAIN inEncoder : inEncoder[i] = x) \/ (\E i \in DOMAIN underWay : underWay[i] = x)
  <2> HIDE DEF inEncoder, underWay, Rises, Later
  <2> QED
    BY <1>c, <1>1, <1>2, <1>4, <1>5
<1>7. Later(first, queue)
  <2>1. \A x : (\E i \in DOMAIN first : first[i] = x) => \A k \in DOMAIN queue : x < queue[k]
    <3> HIDE DEF inEncoder, underWay, first
    <3> QED
      BY <1>5, <1>6
  <2> QED
    BY <2>1
<1>8. /\ Rises(holders)
      /\ \A x : (\E i \in DOMAIN holders : holders[i] = x) <=>
                   (\E i \in DOMAIN first : first[i] = x) \/ (\E i \in DOMAIN queue : queue[i] = x)
  <2> HIDE DEF first, Rises, Later
  <2> QED
    BY <1>c, <1>3, <1>4, <1>6, <1>7
<1>9. \A x : Holds(x) <=> x \in ToSet(holders)
  <2>1. \A x : x \in ToSet(holders) <=> \E i \in DOMAIN holders : holders[i] = x
    <3> HIDE DEF holders
    <3> QED
      BY DEF ToSet
  <2>2. \A x : (\E i \in DOMAIN inEncoder : inEncoder[i] = x) <=> \E i \in DOMAIN inFlight : inFlight[i].capture = x
    BY <1>1
  <2>3. \A x : (\E i \in DOMAIN underWay : underWay[i] = x) <=> job # NoJob /\ job.capture = x
    BY <1>2
  <2> HIDE DEF inEncoder, underWay, first, holders
  <2> QED
    BY <1>6, <1>8, <2>1, <2>2, <2>3 DEF Holds
<1>10. \A p \in DOMAIN window : window[p].state \in Undecided <=> window[p].captureNs \in ToSet(holders)
  <2> HIDE DEF holders
  <2> QED
    BY <1>w, <1>9 DEF HoldersAreTheUndecided
<1>11. \A i, j \in DOMAIN holders : i < j => holders[i] < holders[j]
  BY <1>8
<1> HIDE DEF holders
<1>12. (\A i, j \in DOMAIN holders : i < j => holders[i] < holders[j])
       /\ \A p \in DOMAIN window : window[p].state \in Undecided <=> window[p].captureNs \in ToSet(holders)
  BY <1>10, <1>11
<1> USE DEF holders
<1> QED
  BY <1>12, Zenon DEF UndecidedIsHeldOnce

LEMMA CursorTells ==
    ASSUME ChainInvariant
    PROVE  CursorAcceptsExactly
<1>1. RingSound /\ KnownFollow /\ CursorIsReference
  BY DEF ChainInvariant
<1>2. SUFFICES ASSUME decodeEpoch = epoch, NEW p \in InterFrames, ~window[p].key
      PROVE  CanDecode(window[p]) <=> reference # Nothing /\ window[p].ref = reference.capture
  BY DEF CursorAcceptsExactly
<1>3. PICK f : f = window[p] /\ f \in Frames
  BY DEF Frames
<1>4. CanDecode(f) <=> cursor.valid /\ f.chain = cursor.chain /\ f.seq = cursor.seq + 1
  BY <1>2, <1>3 DEF CanDecode, Decodable
<1>5. ASSUME cursor.valid
      PROVE  f.ref = reference.capture <=> f.chain = cursor.chain /\ f.seq = cursor.seq + 1
  <2>1. PICK h : h = [captureNs |-> reference.capture, chain |-> cursor.chain, seq |-> cursor.seq]
    OBVIOUS
  <2>2. h \in Known
    BY <1>2, <1>5, <2>1 DEF Held, Known
  <2>3. h.captureNs = f.ref <=> h.chain = f.chain /\ h.seq + 1 = f.seq
    BY <1>1, <1>2, <1>3, <2>2 DEF KnownFollow, NextAfter
  <2> QED
    BY <2>1, <2>3
<1> QED
  BY <1>1, <1>3, <1>4, <1>5 DEF CursorIsReference

LEMMA DecodesReferenced ==
    ASSUME ChainInvariant, [Next]_vars, reference' # reference, reference' # Nothing, ~reference'.key
    PROVE  reference'.ref = reference.capture
<1>1. RingSound /\ CursorAcceptsExactly
  BY CursorTells DEF ChainInvariant
<1>2. Len(window) \in Nat /\ DOMAIN window = 1..Len(window)
  BY <1>1 DEF RingSound, WorkerTypes
<1>3. DecoderStep
  <2>1. CASE EncodeNext /\ epoch' = epoch /\ UNCHANGED decodeVars
    BY <2>1 DEF decodeVars, decoderVars
  <2>2. CASE Attach
    BY <2>2 DEF Attach, decoderVars
  <2>3. CASE UNCHANGED vars
    BY <2>3 DEF vars, decodeVars, decoderVars
  <2>4. CASE DecodeStep \/ \E ns \in 1..MaxCaptures : Show(ns)
    BY <1>2, <2>4, WorkerSteps
  <2> QED
    BY <2>1, <2>2, <2>3, <2>4 DEF Next
<1>4. /\ decodeEpoch = epoch
      /\ \E p \in 1..Len(window) : \E ok \in BOOLEAN :
            IsReady(window[p]) /\ CanDecode(window[p]) /\ Decodes(window[p], ok)
  BY <1>3 DEF DecoderStep, Forgotten
<1>5. PICK p \in 1..Len(window), ok \in BOOLEAN :
          IsReady(window[p]) /\ CanDecode(window[p]) /\ Decodes(window[p], ok)
  BY <1>4
<1>6. /\ window[p].codec = "inter"
      /\ reference' = [capture |-> window[p].captureNs, key |-> window[p].key, ref |-> window[p].ref]
  BY <1>5 DEF Decodes, Forgotten, decoderVars
<1>7. p \in InterFrames /\ ~window[p].key
  BY <1>2, <1>5, <1>6 DEF InterFrames
<1>8. window[p].ref = reference.capture
  BY <1>1, <1>4, <1>5, <1>7 DEF CursorAcceptsExactly
<1> QED
  BY <1>6, <1>8

\* Every undecided capture of the ring has one holder that will decide it, the queue, the job or the
\* encoder, each in capture order (EncodeOne, StorePacket, DropInFlight).
THEOREM UndecidedTheorem == Spec => []UndecidedIsHeldOnce
<1>1. ChainInvariant => UndecidedIsHeldOnce
  BY HoldersInSequence DEF ChainInvariant
<1> QED
  BY <1>1, ChainHolds, PTL

\* Chain and seq tell the decoder the truth: a P-frame in the ring follows, in its chain, the packet its
\* bitstream references, that packet is in the ring as long as the ring goes back to it, and a chain
\* that lost a packet is being mended (ChainTracker, invariants I1 to I3 of storage-codec.hpp).
THEOREM SeqTheorem == Spec => []SeqTellsReference
<1>1. ChainInvariant => SeqTellsReference
  BY SeqsTell
<1> QED
  BY <1>1, ChainHolds, PTL

\* The decoder takes, of the P-frames in the ring, exactly those it has the reference of
\* (ringselect::Decodable and the resets of ctx.cursors).
THEOREM CursorTheorem == Spec => []CursorAcceptsExactly
<1>1. ChainInvariant => CursorAcceptsExactly
  BY CursorTells
<1> QED
  BY <1>1, ChainHolds, PTL

\* No P-frame is decoded unless the decoder holds the packet it references (DecodePinned).
THEOREM ReferenceTheorem == Spec => NeverWithoutReference
<1> DEFINE Step == reference' # reference => \/ reference' = Nothing
                                             \/ reference'.key
                                             \/ reference'.ref = reference.capture
<1>1. ChainInvariant /\ [Next]_vars => [Step]_vars
  BY DecodesReferenced
<1>2. ChainInvariant /\ [Next]_vars => ChainInvariant'
  BY InvariantStays
<1>3. Init => ChainInvariant
  BY StartsSound
<1>4. Spec => [][Step]_vars
  BY <1>1, <1>2, <1>3, PTL DEF Spec
<1> QED
  BY <1>4 DEF NeverWithoutReference
===============================================================================
