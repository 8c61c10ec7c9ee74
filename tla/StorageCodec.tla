---------------------------- MODULE StorageCodec ----------------------------
(***************************************************************************)
(* The hardware encoder of the buffer, from the request for one to the     *)
(* closing of its session: the setup thread (CodecPipeline::SetupLoop and  *)
(* hwstorage::Provider::Setup), worker 0 of the pipeline, the reaper, the  *)
(* filter's evaluation of the storage codec policy, and the yield to an    *)
(* OBS output that starts (BufferModeController, YieldHwEncoderProc).      *)
(*                                                                         *)
(* An open encoder is a record [encoder, size] in exactly one place: in    *)
(* the hands of the setup thread, in the mailbox, in worker 0, or with the *)
(* reaper, of which only the number matters.  Sizes are rungs of the       *)
(* degradation ladder, 0 the largest.                                      *)
(***************************************************************************)
EXTENDS CodecSelect, StoragePolicy, FiniteSets

CONSTANTS
    Vendors,      \* of the GPUs present; the one OBS renders on decodes
    DecodeVendor,
    Working,      \* <<encoder, size>> pairs that open and pass their probe
    RunningAlready,   \* how many NVENC encoders OBS may have running at the start
    Floor,        \* the last rung
    None,
    ResumeAfterStart, ResumeAtMost,   \* in calls of Tick
    MaxEvents     \* bound of the model: Enables, and what outputs, encoders and loads do

ASSUME StorageCodecAssumption ==
    /\ Floor \in Nat /\ DecodeVendor \in Vendors
    /\ Working \subseteq Encoders \X (0..Floor)
    /\ RunningAlready \subseteq Nat
    /\ 0 < ResumeAfterStart /\ ResumeAfterStart <= ResumeAtMost

VARIABLES
    delay,      \* the controller: Filling or Active
    ring,       \* the filter has a ring: from the first Render to ReleaseBuffersTask
    rung,       \* policy_.RungIndex(): the size captures are submitted at
    policy,     \* codecPolicy_
    news,       \* what the next sample finds: status_ against lastCodecStatus_, obsEncodeErrors_
    mayUse,     \* mayUseNvenc_
    yielded,    \* interControl_->yielded
    target, blocked,    \* interTarget_, interBlocked_
    mailbox,    \* setup_
    setup,      \* the setup thread
    job,        \* worker 0's job: [size, wanted], or None
    inter,      \* its encoder, if it came from the setup thread
    release,    \* releaseSerial_ # handledRelease
    adopted,    \* status_.encoder: the last encoder worker 0 took into use
    reaping,    \* encoders the reaper is to close
    registry,   \* g_registry
    obs,        \* OBS's own encoders, as the filter was told
    giving,     \* the controller's yield: [pending, since, started, waits, closed]; the last, history:
                \* its wait ended with every session closed
    count,      \* of these: the bound
    late,       \* history: a job that outlived its cycle asked for a setup
    lost,       \* history: a failed setup went by in a sample in which something else decided
    owed        \* history: an OBS encoder error of this cycle not judged yet

codec == <<target, blocked, mailbox>>
worker == <<job, inter, adopted, release>>
filter == <<ring, rung, policy, news, mayUse>>
controller == <<delay, giving, obs>>
history == <<late, lost, owed>>
codecVars == <<delay, ring, rung, policy, news, mayUse, yielded, target, blocked, mailbox, setup, job,
               inter, adopted, release, reaping, registry, obs, giving, count, late, lost, owed>>

Rungs == 0..Floor
Open == [encoder : Encoders, size : Rungs]
NoNews == [setupFailed |-> FALSE, encoder |-> FALSE, decoder |-> FALSE, obsError |-> FALSE]
NotGiving == [pending |-> FALSE, since |-> 0, started |-> -1, waits |-> FALSE, closed |-> FALSE]
EmptyMailbox == [requested |-> FALSE, want |-> None, busy |-> None, result |-> None, failed |-> None]
IdleSetup == [pc |-> "idle", left |-> {}, size |-> 0, stale |-> FALSE, open |-> None]
Fresh == [ok |-> FALSE, black |-> FALSE, failed |-> None]

StorageCodecInit ==
    /\ delay = FALSE /\ ring = FALSE /\ rung = 0
    /\ policy = Policy(FALSE) /\ news = NoNews /\ mayUse = FALSE
    /\ yielded = FALSE
    /\ target = FALSE /\ blocked = FALSE /\ mailbox = EmptyMailbox
    /\ setup = IdleSetup
    /\ job = None /\ inter = None /\ adopted = None /\ release = FALSE
    /\ reaping = 0
    /\ registry = [e \in Encoders |-> Fresh]
    /\ \E n \in RunningAlready :
         obs = [known |-> TRUE, count |-> [f \in Families |-> IF f = "nvenc" THEN n ELSE 0]]
    /\ giving = NotGiving
    /\ count = 0
    /\ late = FALSE /\ lost = FALSE /\ owed = FALSE

-----------------------------------------------------------------------------
(* What the threads share. *)

Some(x) == IF x = None THEN 0 ELSE 1

\* InterControl::openEncoders: from before a session is opened until the encoder is destroyed.
openEncoders == Some(setup.open) + Some(mailbox.result) + Some(inter) + reaping

\* InterWantedLocked
InterWanted == target /\ ~blocked /\ ~yielded

\* Mutant: Disable leaves the generation.
Superseded_Never == setup

\* A new generation: what the setup thread is at is no longer wanted.
Superseded == IF setup.pc = "idle" THEN setup ELSE [setup EXCEPT !.stale = TRUE]

\* SetStorageTarget(true)
Target ==
    /\ target' = TRUE /\ blocked' = FALSE
    /\ mailbox' = [mailbox EXCEPT !.failed = None]
    /\ UNCHANGED <<setup, reaping>>

\* Mutant: the mailbox keeps what is ready.
Untarget_KeepsResult ==
    /\ target' = FALSE
    /\ setup' = IF target THEN Superseded ELSE setup
    /\ UNCHANGED <<mailbox, reaping, blocked>>

\* SetStorageTarget(false)
Untarget ==
    /\ target' = FALSE
    /\ mailbox' = IF target THEN [mailbox EXCEPT !.requested = FALSE, !.result = None] ELSE mailbox
    /\ setup' = IF target THEN Superseded ELSE setup
    /\ reaping' = reaping + IF target THEN Some(mailbox.result) ELSE 0
    /\ UNCHANGED blocked

-----------------------------------------------------------------------------
(* The setup thread: SetupLoop and, without the lock, Provider::Setup. *)

\* Mutant: only Disable stops a setup, a yield does not.
Stop_StaleOnly == setup.stale

\* Asked between its steps.
Stop == setup.stale \/ ~InterWanted

\* The candidate it is at: `left` are the places of those not tried yet, this one included.
Head1 == EncoderAt(Min(setup.left))

\* The candidate does not work at this size: remembered, and the next one is tried.
NextCandidate(entry) ==
    /\ setup' = [setup EXCEPT !.pc = "try", !.left = @ \ {Min(@)}, !.open = None]
    /\ registry' = [registry EXCEPT ![Head1] = entry]

Cancelled == setup' = [setup EXCEPT !.pc = "closing"] /\ UNCHANGED registry

SetupTake ==
    /\ setup.pc = "idle" /\ mailbox.requested
    /\ mailbox' = [mailbox EXCEPT !.requested = FALSE, !.busy = mailbox.want]
    /\ setup' = [IdleSetup EXCEPT !.pc = "try", !.size = mailbox.want,
                     !.left = RankCandidates(Vendors, obs, {e \in Encoders : registry[e].black})]
    /\ UNCHANGED <<controller, filter, worker, history, yielded, target, blocked, reaping, registry, count>>

SetupTry ==
    /\ setup.pc = "try"
    /\ \/ Stop /\ setup.left # {} /\ Cancelled
       \/ setup.left = {} /\ setup' = [setup EXCEPT !.pc = "done"] /\ UNCHANGED registry
       \/ /\ ~Stop /\ setup.left # {}
          /\ LET entry == registry[Head1]
             IN  IF ~entry.ok /\ entry.failed = setup.size
                 THEN NextCandidate(entry)
                 ELSE setup' = [setup EXCEPT !.pc = "open"] /\ UNCHANGED registry
    /\ UNCHANGED <<controller, filter, worker, history, codec, yielded, reaping, count>>

\* HwEncoder::Open counts the encoder, then opens its session.
SetupOpens ==
    /\ setup.pc = "open"
    /\ setup' = [setup EXCEPT !.pc = "opened", !.open = [encoder |-> Head1, size |-> setup.size]]
    /\ UNCHANGED <<controller, filter, worker, history, codec, yielded, reaping, registry, count>>

Works == <<Head1, setup.size>> \in Working

SetupOpened ==
    /\ setup.pc = "opened"
    /\ \/ Stop /\ Cancelled
       \/ ~Stop /\ ~Works /\ NextCandidate([registry[Head1] EXCEPT !.failed = setup.size])
       \/ ~Stop /\ setup' = [setup EXCEPT !.pc = "probe"] /\ UNCHANGED registry
    /\ UNCHANGED <<controller, filter, worker, history, codec, yielded, reaping, count>>

SetupProbed ==
    /\ setup.pc = "probe"
    /\ \/ Stop /\ Cancelled
       \/ ~Stop /\ ~Works /\ NextCandidate([registry[Head1] EXCEPT !.failed = setup.size])
       \/ /\ ~Stop /\ Works
          /\ setup' = [setup EXCEPT !.pc = "done"]
          /\ registry' = [registry EXCEPT ![Head1].ok = TRUE, ![Head1].failed = None]
    /\ UNCHANGED <<controller, filter, worker, history, codec, yielded, reaping, count>>

\* Back under the lock.  What is no longer wanted is closed here, on this thread.
SetupFinish ==
    /\ setup.pc = "done"
    /\ \/ /\ Stop
          /\ mailbox' = [mailbox EXCEPT !.busy = None]
          /\ setup' = [setup EXCEPT !.pc = "closing"]
          /\ UNCHANGED <<reaping, news>>
       \/ /\ ~Stop /\ setup.open # None
          /\ mailbox' = [mailbox EXCEPT !.busy = None, !.result = setup.open, !.failed = None]
          /\ reaping' = reaping + Some(mailbox.result)
          /\ setup' = IdleSetup
          /\ UNCHANGED news
       \/ /\ ~Stop /\ setup.open = None
          /\ mailbox' = [mailbox EXCEPT !.busy = None, !.failed = setup.size]
          /\ news' = [news EXCEPT !.setupFailed = TRUE]
          /\ setup' = IdleSetup
          /\ UNCHANGED reaping
    /\ UNCHANGED <<controller, worker, history, ring, rung, policy, mayUse, yielded, target, blocked,
                   registry, count>>

SetupClosed ==
    /\ setup.pc = "closing"
    /\ setup' = IdleSetup
    /\ mailbox' = [mailbox EXCEPT !.busy = None]
    /\ UNCHANGED <<controller, filter, worker, history, yielded, target, blocked, reaping, registry, count>>

-----------------------------------------------------------------------------
(* Worker 0 of the pipeline, and the reaper. *)

\* A hardware encoder, ready or in use, that is no longer wanted goes before any job is taken.
InterUnwanted == inter # None /\ ~InterWanted
ResultUnwanted_Never == FALSE  \* Mutant: only a job drops it.

ResultUnwanted == mailbox.result # None /\ ~InterWanted

TakeJob ==
    /\ ring /\ job = None
    /\ ~release /\ ~InterUnwanted /\ ~ResultUnwanted
    /\ job' = [size |-> rung, wanted |-> InterWanted]
    /\ UNCHANGED <<controller, filter, codec, history, yielded, setup, inter, adopted, release, reaping, registry, count>>

\* ChooseInterEncoder: the encoder kept, adopted or asked for; another size's goes to the reaper.
AskFor(size) ==
    IF size \in {mailbox.failed, mailbox.busy} \/ (mailbox.requested /\ mailbox.want = size)
    THEN [mailbox EXCEPT !.result = None]
    ELSE [mailbox EXCEPT !.result = None, !.requested = TRUE, !.want = size]

ChooseInterEncoder(size) ==
    LET fits == mailbox.result # None /\ mailbox.result.size = size
    IN  \/ /\ inter # None /\ inter.size = size
           /\ UNCHANGED <<inter, adopted, mailbox, reaping, late>>
        \/ /\ (inter # None => inter.size # size) /\ fits
           /\ inter' = mailbox.result /\ adopted' = mailbox.result.encoder
           /\ mailbox' = [mailbox EXCEPT !.result = None]
           /\ reaping' = reaping + Some(inter)
           /\ UNCHANGED late
        \/ /\ (inter # None => inter.size # size) /\ ~fits
           /\ inter' = None
           /\ mailbox' = AskFor(size)
           /\ reaping' = reaping + Some(inter) + Some(mailbox.result)
           /\ late' = (late \/ (~ring /\ AskFor(size).requested))
           /\ UNCHANGED adopted

\* EncodeOne.  The frame's slot may have been reused meanwhile: nothing is chosen for it.  A job taken
\* while no hardware encoder was wanted drops one set up meanwhile.
RunJob ==
    /\ job # None
    /\ job' = None
    /\ \/ UNCHANGED <<inter, adopted, mailbox, reaping, late>>
       \/ job.wanted /\ ChooseInterEncoder(job.size)
       \/ /\ ~job.wanted
          /\ mailbox' = [mailbox EXCEPT !.result = None]
          /\ reaping' = reaping + Some(mailbox.result)
          /\ UNCHANGED <<inter, adopted, late>>
    /\ UNCHANGED <<controller, filter, yielded, target, blocked, setup, release, registry, count, lost, owed>>

\* EncodeLoop after Disable: the encoder is closed by the thread that opened it.
HandleRelease ==
    /\ job = None /\ release
    /\ release' = FALSE /\ inter' = None
    /\ UNCHANGED <<controller, filter, codec, history, yielded, setup, job, adopted, reaping, registry, count>>

\* RetireInter: after a yield closed on this thread, now; otherwise by the reaper.
RetireUnwanted ==
    /\ job = None /\ ~release /\ InterUnwanted
    /\ inter' = None
    /\ reaping' = reaping + IF yielded THEN 0 ELSE 1
    /\ UNCHANGED <<controller, filter, codec, history, yielded, setup, job, adopted, release, registry, count>>

CloseUnwantedResult ==
    /\ job = None /\ ~release /\ ~InterUnwanted /\ ResultUnwanted
    /\ mailbox' = [mailbox EXCEPT !.result = None]
    /\ UNCHANGED <<controller, filter, worker, history, yielded, target, blocked, setup, reaping, registry, count>>

\* FailInter: a send fails, packets out of order, a stall.  Nothing is set up until the filter says.
InterFails ==
    /\ inter # None /\ count < MaxEvents
    /\ inter' = None /\ reaping' = reaping + 1
    /\ blocked' = TRUE
    /\ news' = [news EXCEPT !.encoder = TRUE]
    /\ count' = count + 1
    /\ UNCHANGED <<controller, ring, rung, policy, mayUse, history, yielded, target, mailbox, setup, job,
                   adopted, release, registry>>

\* The hardware decoder fails: decoding goes on in software.
DecoderFails ==
    /\ ring /\ count < MaxEvents
    /\ news' = [news EXCEPT !.decoder = TRUE]
    /\ count' = count + 1
    /\ UNCHANGED <<controller, ring, rung, policy, mayUse, history, codec, worker, yielded, setup, reaping,
                   registry>>

ReaperCloses ==
    /\ reaping > 0
    /\ reaping' = reaping - 1
    /\ UNCHANGED <<controller, filter, codec, worker, history, yielded, setup, registry, count>>
-----------------------------------------------------------------------------
(* The graphics thread: the filter's cycles and its evaluation of the policy. *)

\* What yield_hw_encoder acts on: an NVENC session open, or one a setup may open.
MayUseNvenc(p) ==
    Hardware(p) /\ "nvidia" \in Vendors /\ (inter # None => FamilyOf(inter.encoder) = "nvenc")

\* EnsureRingSized with codecCycleFresh_: the storage codec starts over, and nobody has asked for the engine.
FirstRender ==
    /\ delay /\ ~ring
    /\ ring' = TRUE /\ rung' = 0
    /\ policy' = Policy(Vendors # {})
    /\ yielded' = FALSE
    /\ Target
    /\ news' = NoNews
    /\ lost' = FALSE /\ owed' = FALSE
    /\ UNCHANGED <<controller, worker, mayUse, registry, count, late>>

\* A ring of another geometry: the ladder starts at its top, the codecs stay.
Resized ==
    /\ ring /\ rung # 0 /\ count < MaxEvents
    /\ rung' = 0
    /\ count' = count + 1
    /\ UNCHANGED <<controller, ring, policy, news, mayUse, history, codec, worker, yielded, setup, reaping,
                   registry>>

\* The degradation policy: a rung down, or up again unless the storage codec forbids it.
ChangeRung ==
    /\ ring /\ count < MaxEvents
    /\ \E r \in Rungs :
         /\ r \in {rung - 1, rung + 1}
         /\ r < rung => ~BlockUp(policy)
         /\ rung' = r
    /\ count' = count + 1
    /\ UNCHANGED <<controller, ring, policy, news, mayUse, history, codec, worker, yielded, setup, reaping,
                   registry>>

\* CurrentEngineShare.  Before the first adoption the backend is the intra codec's.
EngineShared ==
    AnyShared(IF adopted = None THEN [known |-> obs.known, encode |-> FALSE, decode |-> FALSE]
              ELSE ShareOf(FamilyOf(adopted), TRUE, DecodeVendor, obs))

\* Mutant: a failed setup is news only once an encoder has been adopted.
Sample_NotProbing(load) ==
    [active |-> inter # None, setupFailed |-> news.setupFailed /\ policy.state # "Probing",
     hard |-> news.encoder \/ news.decoder, yielded |-> yielded,
     shared |-> EngineShared, obsError |-> news.obsError,
     obsSkipped |-> load = "skipped", latency |-> load = "late", queued |-> FALSE,
     canLower |-> rung < Floor]

Sample(load) ==
    [active |-> inter # None, setupFailed |-> news.setupFailed,
     hard |-> news.encoder \/ news.decoder, yielded |-> yielded,
     shared |-> EngineShared, obsError |-> news.obsError,
     obsSkipped |-> load = "skipped", latency |-> load = "late", queued |-> FALSE,
     canLower |-> rung < Floor]

\* Only an encoder that failed is never tried again, not one whose decoder did.
Blacklisted(d) == d.reason = "HardError" /\ news.encoder /\ adopted # None

EvaluateCodecPolicy ==
    /\ ring
    /\ \E load \in {"fine", "skipped", "late"} : \E s \in {Sample(load)} : \E d \in {Evaluate(policy, s)} :
         /\ load # "fine" => count < MaxEvents
         /\ count' = IF load = "fine" THEN count ELSE count + 1
         /\ policy' = d.policy
         /\ mayUse' = MayUseNvenc(d.policy)
         /\ IF d.action \in {"NoHardware", "Evacuate"}
            THEN Untarget
            ELSE UNCHANGED <<target, blocked, mailbox, setup, reaping>>
         /\ registry' = IF Blacklisted(d) THEN [registry EXCEPT ![adopted].black = TRUE] ELSE registry
         /\ rung' = IF d.action = "LowerRung" THEN rung + 1 ELSE rung
         /\ lost' = (lost \/ (s.setupFailed /\ d.action \in {"Yield", "Resume", "Adopted", "None"}))
         /\ owed' = (owed /\ ~Storing(policy) /\ d.policy.state \notin {"Mjpeg", "Evacuated"})
    /\ news' = NoNews
    /\ UNCHANGED <<controller, ring, yielded, worker, late>>

-----------------------------------------------------------------------------
(* The controller, on the UI thread, which waits inside a yield. *)

Enable ==
    /\ ~delay /\ ~giving.waits /\ count < MaxEvents
    /\ delay' = TRUE
    /\ giving' = NotGiving
    /\ count' = count + 1
    /\ UNCHANGED <<obs, filter, history, codec, worker, yielded, setup, reaping, registry>>

\* Disable, and ReleaseBuffersTask it waits for: Detach(true).  The target stays set.
Disable ==
    /\ delay /\ ~giving.waits
    /\ delay' = FALSE /\ ring' = FALSE
    /\ giving' = NotGiving
    /\ setup' = IF ring THEN Superseded ELSE setup
    /\ mailbox' = IF ring THEN [mailbox EXCEPT !.requested = FALSE, !.failed = None, !.result = None]
                  ELSE mailbox
    /\ reaping' = reaping + IF ring THEN Some(mailbox.result) ELSE 0
    /\ release' = (release \/ ring)
    /\ UNCHANGED <<obs, rung, policy, news, mayUse, history, target, blocked, job, inter, adopted, yielded,
                   registry, count>>

\* YieldForOutputStart and YieldHwEncoderProc: OBS's NVENC encoders, the one starting and the buffer's.
NearLimit == obs.count["nvenc"] + 2 >= 4

OutputStarting ==
    /\ delay /\ ~giving.waits /\ count < MaxEvents
    /\ count' = count + 1
    /\ giving' = [pending |-> TRUE, since |-> 0, started |-> -1,
                  waits |-> mayUse /\ ~yielded /\ NearLimit, closed |-> FALSE]
    /\ yielded' = (yielded \/ mayUse)
    /\ UNCHANGED <<delay, obs, filter, history, codec, worker, setup, reaping, registry>>

\* Every session closed, or 100 ms over.
YieldWaitEnds ==
    /\ giving.waits
    /\ giving' = [giving EXCEPT !.waits = FALSE, !.closed = openEncoders = 0]
    /\ UNCHANGED <<delay, obs, filter, history, codec, worker, yielded, setup, reaping, registry, count>>

OutputStarted ==
    /\ giving.pending /\ ~giving.waits /\ giving.started = -1
    /\ giving' = [giving EXCEPT !.started = 0]
    /\ obs' = [obs EXCEPT !.count["nvenc"] = @ + 1]
    /\ UNCHANGED <<delay, filter, history, codec, worker, yielded, setup, reaping, registry, count>>

OutputStopped ==
    /\ ~giving.waits /\ obs.count["nvenc"] > 0 /\ count < MaxEvents
    /\ obs' = [obs EXCEPT !.count["nvenc"] = @ - 1]
    /\ count' = count + 1
    /\ UNCHANGED <<delay, giving, filter, history, codec, worker, yielded, setup, reaping, registry>>

\* Once a second.  The engine is asked back some time after the output is up, or after long enough.
ResumeDue == giving.started >= ResumeAfterStart \/ giving.since >= ResumeAtMost

Tick ==
    /\ delay /\ ~giving.waits /\ giving.pending
    /\ IF ResumeDue
       THEN giving' = [giving EXCEPT !.pending = FALSE, !.closed = FALSE] /\ yielded' = FALSE
       ELSE /\ giving' = [giving EXCEPT !.since = @ + 1, !.started = IF @ = -1 THEN -1 ELSE @ + 1]
            /\ UNCHANGED yielded
    /\ UNCHANGED <<delay, obs, filter, history, codec, worker, setup, reaping, registry, count>>

\* An OBS output stopped on an encoder error: the filter is told.
ObsEncodeError ==
    /\ delay /\ ~giving.waits /\ count < MaxEvents
    /\ news' = [news EXCEPT !.obsError = TRUE]
    /\ owed' = ring
    /\ count' = count + 1
    /\ UNCHANGED <<controller, ring, rung, policy, mayUse, late, lost, codec, worker, yielded, setup, reaping,
                   registry>>

SetupStep == SetupTake \/ SetupTry \/ SetupOpens \/ SetupOpened \/ SetupProbed \/ SetupFinish \/ SetupClosed
WorkerStep == RunJob \/ HandleRelease \/ RetireUnwanted \/ CloseUnwantedResult

StorageCodecNext ==
    \/ SetupTake \/ SetupTry \/ SetupOpens \/ SetupOpened \/ SetupProbed \/ SetupFinish \/ SetupClosed
    \/ TakeJob \/ RunJob \/ HandleRelease \/ RetireUnwanted \/ CloseUnwantedResult
    \/ InterFails \/ DecoderFails \/ ReaperCloses
    \/ FirstRender \/ Resized \/ ChangeRung \/ EvaluateCodecPolicy
    \/ Enable \/ Disable \/ OutputStarting \/ YieldWaitEnds \/ OutputStarted \/ OutputStopped \/ Tick
    \/ ObsEncodeError

StorageCodecSpec == StorageCodecInit /\ [][StorageCodecNext]_codecVars

\* The threads that wait for these conditions run; whether a frame comes is up to OBS.
StorageCodecFairSpec ==
    /\ StorageCodecSpec
    /\ WF_codecVars(SetupStep) /\ WF_codecVars(WorkerStep) /\ WF_codecVars(ReaperCloses)
-----------------------------------------------------------------------------
(* Properties. *)

Encoders_ == Open \cup {None}

\* Types, and what a setup and the mailbox may hold.
StorageCodecTypeOK ==
    /\ delay \in BOOLEAN /\ ring \in BOOLEAN /\ rung \in Rungs /\ policy \in Policies
    /\ mayUse \in BOOLEAN /\ yielded \in BOOLEAN /\ target \in BOOLEAN /\ blocked \in BOOLEAN
    /\ mailbox.result \in Encoders_ /\ mailbox.want \in Rungs \cup {None}
    /\ setup.open \in Encoders_ /\ inter \in Encoders_ /\ adopted \in Encoders \cup {None}
    /\ reaping \in Nat

\* Once the wait of a yield has seen every session closed, none is open again before the engine is
\* asked back, save for one the setup thread was just opening, which it closes itself.
\* InterControl, EncodeLoop, SetupLoop, YieldHwEncoderProc.
YieldStaysClosed ==
    /\ StorageCodecTypeOK
    /\ giving.closed /\ yielded => mailbox.result = None /\ inter = None /\ reaping = 0

\* An encoder that failed hard is not used again: not by a setup that was under way, not from the
\* mailbox, not in a later cycle.  And once a cycle has left the hardware, no encoder comes into use in
\* it.  Provider::Blacklist, SetStorageTarget(false).
FailedNeverBack ==
    [][/\ inter' # None /\ inter' # inter => ~registry[inter'.encoder].black
       /\ ring /\ policy.state \in {"Mjpeg", "Evacuated"} /\ ring' => inter' \in {inter, None}]_codecVars

\* An OBS encoder error that comes while the hardware encoder does not store yet, or has yielded, is not
\* forgotten: the first evaluation with it storing on a shared engine leaves it.
ObsErrorActs ==
    [][owed /\ EngineShared /\ Storing(policy) /\ EvaluateCodecPolicy
           => policy'.state = "Evacuated"]_codecVars

\* A yield closes every session, wherever it is, without a frame having to come.
YieldFreesEngine == yielded ~> (openEncoders = 0 \/ ~yielded)

\* So does Disable, unless a job of the cycle was still to choose its encoder and asked for another.
DisableClosesSessions == ~delay ~> (openEncoders = 0 \/ delay \/ late)

\* A setup that failed is acted on: a cycle that keeps to the hardware does not wait on the bridge for
\* a size nobody will try again, unless the evaluation that saw the failure was one to see a yield
\* begin, last or end, or an encoder come into use.
FailedSetupIsHeard ==
    ring /\ policy.state \notin {"Mjpeg", "Evacuated"} /\ mailbox.failed # None => news.setupFailed \/ lost

\* What the setup thread does is heard by the rest: a failure by the policy, a
\* yield by the setup.
SetupIsHeeded == YieldStaysClosed /\ FailedSetupIsHeard

\* Failures count: an encoder that failed is not used again, and an error of
\* OBS's own encoder makes the buffer leave the engine they share.
FailuresCount == FailedNeverBack /\ ObsErrorActs

\* Sessions close: on a yield, and when the delay is switched off.
SessionsClose == YieldFreesEngine /\ DisableClosesSessions
=============================================================================
