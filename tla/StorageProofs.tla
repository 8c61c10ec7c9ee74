---------------------------- MODULE StorageProofs ----------------------------
(***************************************************************************)
(* Proofs about where the ring's frames are stored: StorageCodec, what the *)
(* setup thread finds out about the sessions that encode them is heeded,   *)
(* and failures count; FrameArena, the memory their payloads are carved    *)
(* from is nobody else's, and all of it is accounted for; HwCodec, what a  *)
(* hardware session hands the pipeline is the packet of the frame it asks. *)
(***************************************************************************)
EXTENDS StorageCodec, MCFilterParts, FiniteSetTheorems, SequenceTheorems, WellFoundedInduction, TLAPS

-----------------------------------------------------------------------------
(* The least of a set. *)

\* A nonempty set of naturals has a least element: < is well founded.
LEMMA NonemptyHasLeast ==
    ASSUME NEW S, S \subseteq Nat, S # {}
    PROVE  \E m \in S : \A n \in S : m <= n
<1> DEFINE R == {p \in Nat \X Nat : p[1] < p[2]}
<1>1. IsWellFoundedOn(R, Nat)
  BY NatLessThanWellFounded, Zenon DEF OpToRel
<1>2. PICK x \in S : \A y \in S : ~(<<y, x>> \in R)
  BY <1>1, WFMin, Zenon
<1>3. ASSUME NEW y \in S PROVE x <= y
  <2>1. <<y, x>> \notin R
    BY <1>2
  <2>2. ~(y < x)
    BY <2>1
  <2> QED BY <2>2
<1> QED
  BY <1>3

\* A nonempty set of naturals has a minimum.
LEMMA MinInSet ==
    ASSUME NEW S, S \subseteq Nat, S # {}
    PROVE  Min(S) \in S /\ \A x \in S : Min(S) <= x
  BY NonemptyHasLeast DEF Min

-----------------------------------------------------------------------------
(* The policy. *)

AtRest == {"Mjpeg", "Evacuated"}
Leaves == {"NoHardware", "Evacuate"}

\* SelectInSeq returns the first position that passes the test.
LEMMA FirstRule ==
    ASSUME NEW p, NEW s, NEW pending, NEW onHold, NEW k,
           k = SelectInSeq(Rules(p, s, pending, onHold), LAMBDA r : r.applies)
    PROVE  /\ k \in 1..15
           /\ Rules(p, s, pending, onHold)[k].applies
           /\ \A j \in 1..15 : j < k => ~Rules(p, s, pending, onHold)[j].applies
<1> DEFINE R == Rules(p, s, pending, onHold)
           I == {i \in 1..Len(R) : R[i].applies}
<1>1. Len(R) = 15 /\ R[15].applies  BY DEF Rules, Rule
<1>2. k = IF I # {} THEN Min(I) ELSE 0  BY DEF SelectInSeq
<1>3. I # {} /\ I \subseteq Nat  BY <1>1
<1> HIDE DEF R
<1>4. k = Min(I)  BY <1>2, <1>3
<1> HIDE DEF I
<1>5. k \in I /\ \A j \in I : k <= j  BY <1>3, <1>4, MinInSet
<1> USE DEF I
<1>6. k \in 1..15 /\ R[k].applies  BY <1>5, <1>1
<1>7. \A j \in 1..15 : j < k => ~R[j].applies  BY <1>5, <1>6, <1>1
<1> QED  BY <1>6, <1>7 DEF R

\* What an evaluation decides, by the first rule that applies.
LEMMA EvaluateDecides ==
    ASSUME NEW before \in Policies, NEW s, NEW d, d = Evaluate(before, s)
    PROVE  /\ before.state \in AtRest => d.action = "None" /\ d.reason = "None" /\ d.policy.state = before.state
           /\ before.state \notin AtRest => (d.policy.state \in AtRest <=> d.action \in Leaves)
           /\ d.reason = "HardError" => d.action = "Evacuate"
           /\ s.setupFailed => d.action \in Leaves \cup {"Yield", "Resume", "Adopted", "None"}
           /\ d.action = "LowerRung" => s.canLower
           /\ Storing(before) /\ (before.error \/ s.obsError) /\ s.shared => d.policy.state = "Evacuated"
<1> DEFINE p == Aged(before)
           pending == Pending(p, s)
           warned == CASE ~Storing(p) -> p.warned
                       [] Storing(p) /\ ~Warns(s) -> NoWarning
                       [] OTHER -> IF p.warned = NoWarning THEN 0 ELSE p.warned
           onHold == warned = WarnHold /\ p.since = Cooldown
           R == Rules(p, s, pending, onHold)
           k == SelectInSeq(R, LAMBDA r : r.applies)
<1>1. d.action = R[k].action /\ d.reason = R[k].reason /\ d.policy.state = R[k].state
  BY DEF Evaluate
<1>2. p.state = before.state /\ p.error = before.error  BY DEF Aged, Policies
<1>3. pending <=> before.error \/ s.obsError  BY <1>2 DEF Pending
<1> HIDE DEF p, pending, warned, onHold, k
<1>4. /\ k \in 1..15
      /\ R[k].applies
      /\ \A j \in 1..15 : j < k => ~R[j].applies
  BY FirstRule DEF k
<1>5. before.state \in PolicyStates  BY DEF Policies
<1>6. /\ R[1].applies <=> p.state \in AtRest
      /\ R[2].applies <=> s.hard
      /\ R[4].applies => p.state = "Probing"
      /\ R[6].applies => p.state = "Yielded"
      /\ R[7].applies <=> ~Storing(p)
      /\ R[8].applies <=> pending /\ s.shared
      /\ R[10].applies <=> s.setupFailed
      /\ R[12].applies => s.canLower
  BY DEF R, Rules, Rule, AtRest
<1>7. /\ R[1].action = "None" /\ R[3].action = "Yield" /\ R[4].action = "Adopted" /\ R[6].action = "Resume"
      /\ R[7].action = "None" /\ R[9].action = "Yield"
      /\ R[12].action = "LowerRung" /\ R[14].action = "VetoLifted" /\ R[15].action = "None"
      /\ R[2].action = "Evacuate" /\ R[8].action = "Evacuate" /\ R[10].action = "Evacuate"
      /\ R[11].action = "Evacuate" /\ R[13].action = "Evacuate"
      /\ \A i \in {2, 8, 10, 11, 13} : R[i].state = "Evacuated"
      /\ R[5].action = "NoHardware" /\ R[5].state = "Mjpeg"
  BY DEF R, Rules, Rule
<1>8. /\ \A i \in {1, 7, 15} : R[i].state = p.state
      /\ \A i \in {3, 4, 6, 9, 12, 14} : R[i].state \notin AtRest
      /\ \A i \in 1..15 : R[i].reason = "HardError" => i = 2
      /\ R[1].reason = "None"
  BY DEF R, Rules, Rule, AtRest
<1> HIDE DEF R
<1>9. k \in {1, 2, 3, 4, 5, 6, 7, 8, 9, 10, 11, 12, 13, 14, 15}  BY <1>4
<1>10. p.state \in AtRest => k = 1  BY <1>4, <1>6
<1>11. p.state \notin AtRest => k # 1  BY <1>4, <1>6
<1>12. d.reason = "HardError" => d.action = "Evacuate"
  <2>1. R[k].reason = "HardError" => k = 2
    <3>1. \A i \in 1..15 : R[i].reason = "HardError" => i = 2  BY <1>8
    <3> QED  BY <1>4, <3>1, Zenon
  <2>2. R[2].action = "Evacuate"  BY <1>7
  <2> QED  BY <1>1, <2>1, <2>2, Zenon
<1>13. d.action = "LowerRung" => s.canLower
  <2>1. d.action = "LowerRung" => k = 12  BY <1>1, <1>7, <1>9
  <2> QED  BY <1>4, <1>6, <2>1
<1>14. p.state \in AtRest => d.action = "None" /\ d.reason = "None" /\ d.policy.state = p.state
  BY <1>1, <1>7, <1>8, <1>10
<1>15. p.state \notin AtRest => (d.policy.state \in AtRest <=> d.action \in Leaves)
  BY <1>1, <1>7, <1>8, <1>9, <1>11 DEF Leaves, AtRest
<1>16. s.setupFailed => k \in 1..10  BY <1>4, <1>6
<1>17. s.setupFailed => d.action \in Leaves \cup {"Yield", "Resume", "Adopted", "None"}
  BY <1>1, <1>7, <1>16 DEF Leaves
<1>18. Storing(p) => p.state \notin AtRest \cup {"Probing", "Yielded"}  BY DEF Storing, AtRest
<1>19. Storing(before) /\ (before.error \/ s.obsError) /\ s.shared => d.policy.state = "Evacuated"
  <2> SUFFICES ASSUME Storing(before), before.error \/ s.obsError, s.shared
               PROVE  d.policy.state = "Evacuated"
    OBVIOUS
  <2>1. Storing(p) /\ R[8].applies  BY <1>2, <1>3, <1>6 DEF Storing
  <2>2. k \in 1..8 /\ k \notin {1, 4, 6, 7}  BY <1>4, <1>6, <1>18, <2>1
  <2>3. k \notin {3, 5}  BY <1>4, <1>6, <1>18, <2>1 DEF R, Rules, Rule
  <2> QED  BY <1>1, <1>7, <2>2, <2>3
<1> QED  BY <1>2, <1>12, <1>13, <1>14, <1>15, <1>17, <1>19

\* An evaluation leaves a policy a policy.
LEMMA EvaluateType ==
    ASSUME NEW before \in Policies, NEW s, NEW d, d = Evaluate(before, s)
    PROVE  d.policy \in Policies
<1> DEFINE p == Aged(before)
           pending == Pending(p, s)
           warned == CASE ~Storing(p) -> p.warned
                       [] Storing(p) /\ ~Warns(s) -> NoWarning
                       [] OTHER -> IF p.warned = NoWarning THEN 0 ELSE p.warned
           onHold == warned = WarnHold /\ p.since = Cooldown
           R == Rules(p, s, pending, onHold)
           k == SelectInSeq(R, LAMBDA r : r.applies)
           moved == R[k].action # "None"
           error == pending /\ p.state \notin {"Mjpeg", "Evacuated"} /\ (Storing(p) => s.hard)
<1>1. d.policy = [state  |-> R[k].state,
                  since  |-> IF moved THEN 0 ELSE p.since,
                  warned |-> IF moved THEN NoWarning ELSE warned,
                  veto   |-> R[k].veto,
                  error  |-> error]
  BY DEF Evaluate
<1>2. p \in Policies
  <2>1. /\ before.since \in 0..Cooldown /\ before.warned \in -1..WarnHold /\ before.veto \in 0..Veto
        /\ before.state \in PolicyStates /\ before.error \in BOOLEAN
        /\ Cooldown \in Nat /\ WarnHold \in Nat /\ Veto \in Nat
    BY StoragePolicyAssumption DEF Policies, NoWarning
  <2> DEFINE since == AtMost(before.since + 1, Cooldown)
             warn == IF before.warned = NoWarning THEN before.warned ELSE AtMost(before.warned + 1, WarnHold)
             veto == IF before.veto > 0 THEN before.veto - 1 ELSE 0
  <2>2. since \in 0..Cooldown  BY <2>1 DEF AtMost
  <2>3. veto \in 0..Veto  BY <2>1
  <2>4. warn \in -1..WarnHold  BY <2>1 DEF NoWarning, AtMost
  <2>5. p = [before EXCEPT !.since = since, !.warned = warn, !.veto = veto]
    BY DEF Aged, Policies
  <2> HIDE DEF p, since, warn, veto
  <2>6. p = [state |-> before.state, since |-> since, warned |-> warn, veto |-> veto,
             error |-> before.error]
    BY <2>5 DEF Policies
  <2> QED  BY <2>1, <2>2, <2>3, <2>4, <2>6 DEF Policies, NoWarning
<1>3. warned \in NoWarning..WarnHold  BY <1>2, StoragePolicyAssumption DEF Policies, NoWarning
<1> HIDE DEF p, pending, warned, onHold, k, moved
<1>4. k \in 1..15  BY FirstRule DEF k
<1>5. p.state \in PolicyStates /\ p.veto \in 0..Veto /\ p.since \in 0..Cooldown
  BY <1>2 DEF Policies
<1>6. \A i \in 1..15 : R[i].state \in PolicyStates /\ R[i].veto \in 0..Veto
  BY <1>5, StoragePolicyAssumption DEF Rules, Rule, PolicyStates
<1>7. error \in BOOLEAN  OBVIOUS
<1> HIDE DEF error, R
<1>8. 0 \in 0..Cooldown /\ NoWarning \in NoWarning..WarnHold
  BY StoragePolicyAssumption DEF NoWarning
<1> QED  BY <1>1, <1>3, <1>4, <1>5, <1>6, <1>7, <1>8 DEF Policies

\* An encoder error that finds no encoder storing is kept.
LEMMA EvaluateKeepsError ==
    ASSUME NEW before \in Policies, NEW s, NEW d, d = Evaluate(before, s),
           before.state \notin AtRest, ~Storing(before), before.error \/ s.obsError
    PROVE  d.policy.error
<1>1. /\ Aged(before).state = before.state /\ Aged(before).error = before.error
  BY DEF Aged, Policies
<1>2. Pending(Aged(before), s)  BY <1>1 DEF Pending
<1>3. ~Storing(Aged(before)) /\ Aged(before).state \notin {"Mjpeg", "Evacuated"}
  BY <1>1 DEF Storing, AtRest
<1> QED  BY <1>2, <1>3 DEF Evaluate

-----------------------------------------------------------------------------
(* The inductive invariant. *)

Places == 1..12
OpenSizes == Rungs \cup {None}

\* A request names a size.
MailboxOK ==
    /\ mailbox \in [requested : BOOLEAN, want : OpenSizes, busy : OpenSizes, result : Encoders_, failed : OpenSizes]
    /\ mailbox.requested => mailbox.want \in Rungs

\* A setup at a candidate has one, an idle setup has nothing.
SetupOK ==
    /\ setup \in [pc : {"idle", "try", "open", "opened", "probe", "done", "closing"},
                  left : SUBSET Places, size : Rungs, stale : BOOLEAN, open : Encoders_]
    /\ setup.pc \in {"open", "opened", "probe"} => setup.left # {}
    /\ setup.pc = "idle" => setup.left = {} /\ setup.open = None

RegistryOK == registry \in [Encoders -> [ok : BOOLEAN, black : BOOLEAN, failed : OpenSizes]]
JobOK == job \in [size : Rungs, wanted : BOOLEAN] \cup {None}
GivingOK == giving \in [pending : BOOLEAN, since : Nat, started : Int, waits : BOOLEAN, closed : BOOLEAN]
NewsOK == news \in [setupFailed : BOOLEAN, encoder : BOOLEAN, decoder : BOOLEAN, obsError : BOOLEAN]

\* The pipeline stores in hardware as long as the policy has not left it, and only then has an encoder
\* ready.
TargetTells ==
    /\ target <=> policy.state \notin AtRest
    /\ mailbox.result # None => target

\* Nothing on its way into use has failed before.
NothingBlack ==
    /\ mailbox.result # None => ~registry[mailbox.result.encoder].black
    /\ ~setup.stale => /\ \A p \in setup.left : ~registry[EncoderAt(p)].black
                       /\ setup.open # None => ~registry[setup.open.encoder].black

OwedIsPending == owed => news.obsError \/ policy.error

StorageInvariant ==
    /\ MailboxOK /\ SetupOK /\ RegistryOK /\ JobOK /\ GivingOK /\ NewsOK
    /\ TargetTells /\ NothingBlack /\ OwedIsPending
    /\ YieldStaysClosed /\ FailedSetupIsHeard

\* The places of a ranking are those of candidates not on the blacklist.
LEMMA RankedPlaces ==
    ASSUME NEW vendors, NEW o, NEW blacklist
    PROVE  /\ RankCandidates(vendors, o, blacklist) \subseteq Places
           /\ \A p \in RankCandidates(vendors, o, blacklist) : EncoderAt(p) \notin blacklist
<1>1. DOMAIN kCandidates = 1..6 /\ Len(kCandidates) = 6  BY DEF kCandidates
<1>2. \A i \in 1..6 : Place(i, o) \in Places /\ EncoderAt(Place(i, o)) = kCandidates[i].encoder
  BY <1>1 DEF Place, EncoderAt, Places
<1> QED  BY <1>1, <1>2 DEF RankCandidates, Allowed

LEMMA PlacesHoldEncoders == \A p \in Places : EncoderAt(p) \in Encoders
<1>1. DOMAIN kCandidates = 1..6 /\ Len(kCandidates) = 6  BY DEF kCandidates
<1> QED  BY <1>1 DEF Places, EncoderAt, Encoders

LEMMA FirstPlace == ASSUME NEW S \in SUBSET Places, S # {} PROVE Min(S) \in S
<1>1. S \subseteq Nat  BY DEF Places
<1> QED  BY <1>1, MinInSet

\* Which actions change what.
LEMMA Changers ==
    ASSUME [StorageCodecNext]_codecVars
    PROVE  /\ mailbox' # mailbox => \/ SetupTake \/ SetupFinish \/ SetupClosed \/ RunJob
                                   \/ CloseUnwantedResult \/ FirstRender \/ EvaluateCodecPolicy \/ Disable
           /\ setup' # setup => \/ SetupTake \/ SetupTry \/ SetupOpens \/ SetupOpened \/ SetupProbed
                               \/ SetupFinish \/ SetupClosed \/ EvaluateCodecPolicy \/ Disable
           /\ registry' # registry => SetupTry \/ SetupOpened \/ SetupProbed \/ EvaluateCodecPolicy
           /\ job' # job => TakeJob \/ RunJob
           /\ inter' # inter => RunJob \/ HandleRelease \/ RetireUnwanted \/ InterFails
           /\ adopted' # adopted => RunJob
           /\ giving' # giving => \/ Enable \/ Disable \/ OutputStarting \/ YieldWaitEnds \/ OutputStarted
                                 \/ Tick
           /\ yielded' # yielded => FirstRender \/ OutputStarting \/ Tick
           /\ news' # news => \/ SetupFinish \/ InterFails \/ DecoderFails \/ FirstRender
                             \/ EvaluateCodecPolicy \/ ObsEncodeError
           /\ policy' # policy => FirstRender \/ EvaluateCodecPolicy
           /\ rung' # rung => FirstRender \/ Resized \/ ChangeRung \/ EvaluateCodecPolicy
           /\ target' # target => FirstRender \/ EvaluateCodecPolicy
           /\ blocked' # blocked => FirstRender \/ InterFails
           /\ delay' # delay => Enable \/ Disable
           /\ ring' # ring => FirstRender \/ Disable
           /\ mayUse' # mayUse => EvaluateCodecPolicy
           /\ reaping' # reaping => \/ SetupFinish \/ RunJob \/ RetireUnwanted \/ InterFails
                                   \/ ReaperCloses \/ EvaluateCodecPolicy \/ Disable
           /\ owed' # owed => FirstRender \/ EvaluateCodecPolicy \/ ObsEncodeError
           /\ lost' # lost => FirstRender \/ EvaluateCodecPolicy
<1> USE DEF controller, filter, worker, history, codec
<1>1. CASE SetupTake  BY <1>1 DEF SetupTake
<1>2. CASE SetupTry  BY <1>2 DEF SetupTry
<1>3. CASE SetupOpens  BY <1>3 DEF SetupOpens
<1>4. CASE SetupOpened  BY <1>4 DEF SetupOpened
<1>5. CASE SetupProbed  BY <1>5 DEF SetupProbed
<1>6. CASE SetupFinish  BY <1>6 DEF SetupFinish
<1>7. CASE SetupClosed  BY <1>7 DEF SetupClosed
<1>8. CASE TakeJob  BY <1>8 DEF TakeJob
<1>9. CASE RunJob  BY <1>9 DEF RunJob
<1>10. CASE HandleRelease  BY <1>10 DEF HandleRelease
<1>11. CASE RetireUnwanted  BY <1>11 DEF RetireUnwanted
<1>12. CASE CloseUnwantedResult  BY <1>12 DEF CloseUnwantedResult
<1>13. CASE InterFails  BY <1>13 DEF InterFails
<1>14. CASE DecoderFails  BY <1>14 DEF DecoderFails
<1>15. CASE ReaperCloses  BY <1>15 DEF ReaperCloses
<1>16. CASE FirstRender  BY <1>16 DEF FirstRender, Target
<1>17. CASE Resized  BY <1>17 DEF Resized
<1>18. CASE ChangeRung  BY <1>18 DEF ChangeRung
<1>19. CASE EvaluateCodecPolicy  BY <1>19 DEF EvaluateCodecPolicy, Untarget
<1>20. CASE Enable  BY <1>20 DEF Enable
<1>21. CASE Disable  BY <1>21 DEF Disable
<1>22. CASE OutputStarting  BY <1>22 DEF OutputStarting
<1>23. CASE YieldWaitEnds  BY <1>23 DEF YieldWaitEnds
<1>24. CASE OutputStarted  BY <1>24 DEF OutputStarted
<1>25. CASE OutputStopped  BY <1>25 DEF OutputStopped
<1>26. CASE Tick  BY <1>26 DEF Tick
<1>27. CASE ObsEncodeError  BY <1>27 DEF ObsEncodeError
<1>28. CASE UNCHANGED codecVars  BY <1>28 DEF codecVars
<1> QED  BY <1>1, <1>2, <1>3, <1>4, <1>5, <1>6, <1>7, <1>8, <1>9, <1>10, <1>11, <1>12, <1>13, <1>14, <1>15, <1>16, <1>17, <1>18, <1>19, <1>20, <1>21, <1>22, <1>23, <1>24, <1>25, <1>26, <1>27, <1>28 DEF StorageCodecNext

\* What the filter's evaluation does, by what the policy decides.
LEMMA EvaluateStep ==
    ASSUME policy \in Policies, EvaluateCodecPolicy
    PROVE  \E s, d :
             /\ d = Evaluate(policy, s) /\ policy' = d.policy
             /\ s.setupFailed = news.setupFailed /\ s.obsError = news.obsError /\ s.shared = EngineShared
             /\ s.canLower => rung < Floor
             /\ d.action \in Leaves => Untarget
             /\ d.action \notin Leaves => UNCHANGED <<target, blocked, mailbox, setup, reaping>>
             /\ registry' = IF Blacklisted(d) THEN [registry EXCEPT ![adopted].black = TRUE] ELSE registry
             /\ rung' = IF d.action = "LowerRung" THEN rung + 1 ELSE rung
             /\ lost' = (lost \/ (s.setupFailed /\ d.action \in {"Yield", "Resume", "Adopted", "None"}))
             /\ owed' = (owed /\ ~Storing(policy) /\ d.policy.state \notin AtRest)
<1>1. PICK load \in {"fine", "skipped", "late"} : \E s \in {Sample(load)} : \E d \in {Evaluate(policy, s)} :
         /\ policy' = d.policy
         /\ IF d.action \in {"NoHardware", "Evacuate"}
            THEN Untarget
            ELSE UNCHANGED <<target, blocked, mailbox, setup, reaping>>
         /\ registry' = IF Blacklisted(d) THEN [registry EXCEPT ![adopted].black = TRUE] ELSE registry
         /\ rung' = IF d.action = "LowerRung" THEN rung + 1 ELSE rung
         /\ lost' = (lost \/ (s.setupFailed /\ d.action \in {"Yield", "Resume", "Adopted", "None"}))
         /\ owed' = (owed /\ ~Storing(policy) /\ d.policy.state \notin {"Mjpeg", "Evacuated"})
  BY DEF EvaluateCodecPolicy
<1> DEFINE s == Sample(load)
           d == Evaluate(policy, s)
<1>2. /\ s.setupFailed = news.setupFailed /\ s.obsError = news.obsError /\ s.shared = EngineShared
      /\ s.canLower => rung < Floor
  BY DEF Sample
<1> HIDE DEF d, s
<1> QED  BY <1>1, <1>2 DEF d, s, Leaves, AtRest

LEMMA MailboxStays ==
    ASSUME MailboxOK, SetupOK, JobOK, rung \in Rungs, [StorageCodecNext]_codecVars
    PROVE  MailboxOK'
<1> USE DEF MailboxOK
<1>m. /\ mailbox.requested \in BOOLEAN /\ mailbox.want \in OpenSizes /\ mailbox.busy \in OpenSizes
      /\ mailbox.result \in Encoders_ /\ mailbox.failed \in OpenSizes
      /\ None \in OpenSizes /\ None \in Encoders_ /\ Rungs \subseteq OpenSizes
  BY DEF OpenSizes, Encoders_
<1>s. setup.size \in Rungs /\ setup.open \in Encoders_  BY DEF SetupOK
<1>1. CASE UNCHANGED mailbox  BY <1>1
<1>2. CASE SetupTake  BY <1>2, <1>m DEF SetupTake
<1>3. CASE SetupFinish  BY <1>3, <1>m, <1>s DEF SetupFinish
<1>4. CASE SetupClosed  BY <1>4, <1>m DEF SetupClosed
<1>5. CASE RunJob
  <2>1. CASE UNCHANGED mailbox  BY <2>1
  <2>2. CASE mailbox' = [mailbox EXCEPT !.result = None]  BY <2>2, <1>m
  <2>3. CASE job \in [size : Rungs, wanted : BOOLEAN] /\ mailbox' = AskFor(job.size)
    BY <2>3, <1>m DEF AskFor
  <2> QED  BY <1>5, <2>1, <2>2, <2>3 DEF RunJob, ChooseInterEncoder, JobOK
<1>6. CASE CloseUnwantedResult  BY <1>6, <1>m DEF CloseUnwantedResult
<1>7. CASE FirstRender  BY <1>7, <1>m DEF FirstRender, Target
<1>8. CASE EvaluateCodecPolicy
  <2>1. UNCHANGED mailbox \/ mailbox' = [mailbox EXCEPT !.requested = FALSE, !.result = None]
    BY <1>8 DEF EvaluateCodecPolicy, Untarget
  <2> QED  BY <2>1, <1>m
<1>9. CASE Disable  BY <1>9, <1>m DEF Disable
<1> QED  BY <1>1, <1>2, <1>3, <1>4, <1>5, <1>6, <1>7, <1>8, <1>9, Changers

LEMMA SetupStays ==
    ASSUME MailboxOK, SetupOK, [StorageCodecNext]_codecVars
    PROVE  SetupOK'
<1> USE DEF SetupOK
<1>s. /\ setup.left \in SUBSET Places /\ setup.size \in Rungs /\ setup.stale \in BOOLEAN
      /\ setup.open \in Encoders_ /\ None \in Encoders_
  BY DEF Encoders_
<1>i. IdleSetup \in [pc : {"idle"}, left : {{}}, size : Rungs, stale : {FALSE}, open : {None}]
  BY StorageCodecAssumption DEF IdleSetup, Rungs
<1>1. CASE UNCHANGED setup  BY <1>1
<1>2. CASE SetupTake
  <2>1. mailbox.want \in Rungs  BY <1>2 DEF SetupTake, MailboxOK
  <2>2. RankCandidates(Vendors, obs, {e \in Encoders : registry[e].black}) \in SUBSET Places
    BY RankedPlaces
  <2> QED  BY <1>2, <1>s, <2>1, <2>2 DEF SetupTake, IdleSetup
<1>n. ASSUME NEW entry, NextCandidate(entry)
      PROVE  SetupOK'
  BY <1>n, <1>s DEF NextCandidate
<1>c. ASSUME Cancelled
      PROVE  SetupOK'
  BY <1>c, <1>s DEF Cancelled
<1>3. CASE SetupTry
  <2>1. CASE setup' = [setup EXCEPT !.pc = "done"]  BY <2>1, <1>s
  <2>2. CASE setup.left # {} /\ setup' = [setup EXCEPT !.pc = "open"]  BY <2>2, <1>s
  <2> QED  BY <1>3, <1>n, <1>c, <2>1, <2>2 DEF SetupTry
<1>4. CASE SetupOpens
  <2>1. Head1 \in Encoders  BY <1>4, <1>s, FirstPlace, PlacesHoldEncoders DEF SetupOpens, Head1
  <2>2. [encoder |-> Head1, size |-> setup.size] \in Encoders_  BY <2>1, <1>s DEF Encoders_, Open
  <2> QED  BY <1>4, <1>s, <2>2 DEF SetupOpens
<1>5. CASE SetupOpened
  <2>1. CASE setup.left # {} /\ setup' = [setup EXCEPT !.pc = "probe"]  BY <2>1, <1>s
  <2> QED  BY <1>5, <1>n, <1>c, <2>1 DEF SetupOpened
<1>6. CASE SetupProbed
  <2>1. CASE setup' = [setup EXCEPT !.pc = "done"]  BY <2>1, <1>s
  <2> QED  BY <1>6, <1>n, <1>c, <2>1 DEF SetupProbed
<1>7. CASE SetupFinish
  <2>1. CASE setup' = [setup EXCEPT !.pc = "closing"]  BY <2>1, <1>s
  <2> QED  BY <1>7, <1>i, <1>s, <2>1 DEF SetupFinish
<1>8. CASE SetupClosed  BY <1>8, <1>i, <1>s DEF SetupClosed
<1>u. Superseded \in [pc : {setup.pc}, left : {setup.left}, size : Rungs, stale : BOOLEAN, open : {setup.open}]
  BY <1>s DEF Superseded
<1>9. CASE EvaluateCodecPolicy
  <2>1. setup' \in {setup, Superseded}  BY <1>9 DEF EvaluateCodecPolicy, Untarget
  <2> QED  BY <2>1, <1>u
<1>10. CASE Disable
  <2>1. setup' \in {setup, Superseded}  BY <1>10 DEF Disable
  <2> QED  BY <2>1, <1>u
<1> QED  BY <1>1, <1>2, <1>3, <1>4, <1>5, <1>6, <1>7, <1>8, <1>9, <1>10, Changers

LEMMA RegistryStays ==
    ASSUME RegistryOK, SetupOK, StorageCodecTypeOK, [StorageCodecNext]_codecVars
    PROVE  /\ RegistryOK'
           /\ \A e \in Encoders :
                registry'[e].black # registry[e].black
                    => registry'[e].black /\ policy.state \notin AtRest /\ EvaluateCodecPolicy
<1> USE DEF RegistryOK
<1>e. \A e \in Encoders : registry[e] \in [ok : BOOLEAN, black : BOOLEAN, failed : OpenSizes]
  OBVIOUS
<1>h. setup.left # {} => Head1 \in Encoders
  BY FirstPlace, PlacesHoldEncoders DEF SetupOK, Head1
<1>s. setup.size \in OpenSizes /\ None \in OpenSizes  BY DEF SetupOK, OpenSizes
<1>1. CASE UNCHANGED registry  BY <1>1
<1>n. ASSUME NEW entry \in [ok : BOOLEAN, black : BOOLEAN, failed : OpenSizes],
             setup.left # {}, entry.black = registry[Head1].black,
             registry' = [registry EXCEPT ![Head1] = entry]
      PROVE  RegistryOK' /\ \A e \in Encoders : registry'[e].black = registry[e].black
  BY <1>n, <1>e, <1>h
<1> DEFINE failed == [registry[Head1] EXCEPT !.failed = setup.size]
           ok == [registry[Head1] EXCEPT !.ok = TRUE, !.failed = None]
<1>f. setup.left # {} => /\ failed \in [ok : BOOLEAN, black : BOOLEAN, failed : OpenSizes]
                        /\ failed.black = registry[Head1].black
  BY <1>e, <1>h, <1>s
<1>k. setup.left # {} => /\ ok \in [ok : BOOLEAN, black : BOOLEAN, failed : OpenSizes]
                        /\ ok.black = registry[Head1].black
  BY <1>e, <1>h, <1>s
<1>2. CASE SetupTry
  <2>1. CASE setup.left # {} /\ NextCandidate(registry[Head1])
    BY <2>1, <1>e, <1>h, <1>n DEF NextCandidate
  <2> QED  BY <1>2, <1>1, <2>1 DEF SetupTry, Cancelled
<1>3. CASE SetupOpened
  <2>1. setup.left # {}  BY <1>3 DEF SetupOpened, SetupOK
  <2>2. CASE NextCandidate(failed)
    <3> HIDE DEF failed
    <3> QED  BY <2>1, <2>2, <1>f, <1>n DEF NextCandidate
  <2> QED  BY <1>1, <1>3, <2>2 DEF SetupOpened, Cancelled
<1>4. CASE SetupProbed
  <2>1. setup.left # {}  BY <1>4 DEF SetupProbed, SetupOK
  <2>2. CASE NextCandidate(failed)
    <3> HIDE DEF failed
    <3> QED  BY <2>1, <2>2, <1>f, <1>n DEF NextCandidate
  <2>3. CASE registry' = [registry EXCEPT ![Head1].ok = TRUE, ![Head1].failed = None]
    <3>1. registry' = [registry EXCEPT ![Head1] = ok]  BY <2>1, <2>3, <1>h, <1>e
    <3> HIDE DEF ok
    <3> QED  BY <2>1, <3>1, <1>k, <1>n
  <2> QED  BY <1>1, <1>4, <2>2, <2>3 DEF SetupProbed, Cancelled
<1>5. CASE EvaluateCodecPolicy
  <2>1. policy \in Policies /\ adopted \in Encoders \cup {None}  BY DEF StorageCodecTypeOK
  <2>2. PICK s, d : /\ d = Evaluate(policy, s)
                    /\ registry' = IF Blacklisted(d) THEN [registry EXCEPT ![adopted].black = TRUE]
                                    ELSE registry
    BY <1>5, <2>1, EvaluateStep
  <2>3. CASE Blacklisted(d)
    <3>1. adopted \in Encoders /\ d.reason = "HardError"  BY <2>1, <2>3 DEF Blacklisted
    <3>2. policy.state \notin AtRest  BY <2>1, <2>2, <3>1, EvaluateDecides
    <3>3. registry' = [registry EXCEPT ![adopted].black = TRUE]  BY <2>2, <2>3
    <3> QED  BY <1>5, <3>1, <3>2, <3>3, <1>e
  <2> QED  BY <1>1, <2>2, <2>3
<1> QED  BY <1>1, <1>2, <1>3, <1>4, <1>5, Changers

LEMMA JobStays ==
    ASSUME JobOK, rung \in Rungs, [StorageCodecNext]_codecVars
    PROVE  JobOK'
<1> USE DEF JobOK
<1>1. CASE UNCHANGED job  BY <1>1
<1>2. CASE TakeJob
  <2>1. InterWanted \in BOOLEAN  BY DEF InterWanted
  <2> QED  BY <1>2, <2>1 DEF TakeJob
<1>3. CASE RunJob  BY <1>3 DEF RunJob
<1> QED  BY <1>1, <1>2, <1>3, Changers

LEMMA GivingStays ==
    ASSUME GivingOK, [StorageCodecNext]_codecVars
    PROVE  GivingOK'
<1> USE DEF GivingOK
<1>g. giving.since \in Nat /\ giving.started \in Int /\ giving.waits \in BOOLEAN /\ giving.closed \in BOOLEAN
      /\ giving.pending \in BOOLEAN
  OBVIOUS
<1>n. NotGiving \in [pending : BOOLEAN, since : Nat, started : Int, waits : BOOLEAN, closed : BOOLEAN]
  BY DEF NotGiving
<1>1. CASE UNCHANGED giving  BY <1>1
<1>2. CASE Enable  BY <1>2, <1>n DEF Enable
<1>3. CASE Disable  BY <1>3, <1>n DEF Disable
<1>4. CASE OutputStarting
  <2>1. (mayUse /\ ~yielded /\ NearLimit) \in BOOLEAN  OBVIOUS
  <2> QED  BY <1>4, <2>1 DEF OutputStarting
<1>5. CASE YieldWaitEnds
  <2>1. (openEncoders = 0) \in BOOLEAN  OBVIOUS
  <2> QED  BY <1>5, <1>g, <2>1 DEF YieldWaitEnds
<1>6. CASE OutputStarted  BY <1>6, <1>g DEF OutputStarted
<1>7. CASE Tick
  <2>1. CASE giving' = [giving EXCEPT !.pending = FALSE, !.closed = FALSE]  BY <2>1, <1>g
  <2> DEFINE started == IF giving.started = -1 THEN -1 ELSE giving.started + 1
  <2>2. CASE giving' = [giving EXCEPT !.since = @ + 1, !.started = IF @ = -1 THEN -1 ELSE @ + 1]
    <3>1. giving.since + 1 \in Nat /\ started \in Int  BY <1>g
    <3>2. giving' = [giving EXCEPT !.since = giving.since + 1, !.started = started]  BY <2>2
    <3> HIDE DEF started
    <3> QED  BY <3>1, <3>2, <1>g
  <2> QED  BY <1>7, <2>1, <2>2 DEF Tick
<1> QED  BY <1>1, <1>2, <1>3, <1>4, <1>5, <1>6, <1>7, Changers

LEMMA NewsStays ==
    ASSUME NewsOK, [StorageCodecNext]_codecVars
    PROVE  NewsOK'
<1> USE DEF NewsOK
<1>1. CASE UNCHANGED news  BY <1>1
<1>n. NoNews \in [setupFailed : BOOLEAN, encoder : BOOLEAN, decoder : BOOLEAN, obsError : BOOLEAN]
  BY DEF NoNews
<1>2. CASE SetupFinish  BY <1>1, <1>2 DEF SetupFinish
<1>3. CASE InterFails  BY <1>3 DEF InterFails
<1>4. CASE DecoderFails  BY <1>4 DEF DecoderFails
<1>5. CASE FirstRender  BY <1>5, <1>n DEF FirstRender
<1>6. CASE EvaluateCodecPolicy  BY <1>6, <1>n DEF EvaluateCodecPolicy
<1>7. CASE ObsEncodeError  BY <1>7 DEF ObsEncodeError
<1> QED  BY <1>1, <1>2, <1>3, <1>4, <1>5, <1>6, <1>7, Changers

LEMMA TypesStay ==
    ASSUME StorageCodecTypeOK, MailboxOK, MailboxOK', SetupOK, SetupOK', [StorageCodecNext]_codecVars
    PROVE  StorageCodecTypeOK'
<1> USE DEF StorageCodecTypeOK
<1>s. \A x : Some(x) \in Nat  BY DEF Some
<1>1. delay' \in BOOLEAN  BY Changers DEF Enable, Disable
<1>2. ring' \in BOOLEAN  BY Changers DEF FirstRender, Disable
<1>3. policy' \in Policies
  <2>1. Policy(Vendors # {}) \in Policies
    <3>1. (IF Vendors # {} THEN "Probing" ELSE "Mjpeg") \in PolicyStates  BY DEF PolicyStates
    <3>2. Cooldown \in 0..Cooldown /\ NoWarning \in NoWarning..WarnHold /\ 0 \in 0..Veto
      BY StoragePolicyAssumption DEF NoWarning
    <3> QED  BY <3>1, <3>2 DEF Policy, Policies
  <2>2. CASE FirstRender  BY <2>1, <2>2 DEF FirstRender
  <2>3. CASE EvaluateCodecPolicy  BY <2>3, EvaluateStep, EvaluateType
  <2> QED  BY <2>2, <2>3, Changers
<1>4. rung' \in Rungs
  <2>1. Floor \in Nat  BY StorageCodecAssumption
  <2>2. CASE FirstRender \/ Resized  BY <2>1, <2>2 DEF FirstRender, Resized, Rungs
  <2>3. CASE ChangeRung  BY <2>3 DEF ChangeRung
  <2>4. CASE EvaluateCodecPolicy
    <3>1. PICK s, d : /\ d = Evaluate(policy, s) /\ (s.canLower => rung < Floor)
                      /\ rung' = IF d.action = "LowerRung" THEN rung + 1 ELSE rung
      BY <2>4, EvaluateStep
    <3>2. d.action = "LowerRung" => rung < Floor  BY <3>1, EvaluateDecides
    <3> QED  BY <2>1, <3>1, <3>2 DEF Rungs
  <2> QED  BY <2>2, <2>3, <2>4, Changers
<1>5. mayUse' \in BOOLEAN
  <2>1. \A p : MayUseNvenc(p) \in BOOLEAN  BY DEF MayUseNvenc
  <2> QED  BY <2>1, Changers DEF EvaluateCodecPolicy
<1>6. yielded' \in BOOLEAN
  <2>1. (yielded \/ mayUse) \in BOOLEAN  OBVIOUS
  <2> QED  BY <2>1, Changers DEF FirstRender, OutputStarting, Tick
<1>7. target' \in BOOLEAN /\ blocked' \in BOOLEAN
  BY Changers DEF FirstRender, Target, EvaluateCodecPolicy, Untarget, InterFails
<1>8. mailbox'.result \in Encoders_ /\ mailbox'.want \in Rungs \cup {None} /\ setup'.open \in Encoders_
  BY DEF MailboxOK, SetupOK, OpenSizes
<1>9. inter' \in Encoders_ /\ adopted' \in Encoders \cup {None}
  <2>1. None \in Encoders_  BY DEF Encoders_
  <2>2. CASE HandleRelease \/ RetireUnwanted \/ InterFails
    <3>1. inter' = None /\ adopted' = adopted
      BY <2>2 DEF HandleRelease, RetireUnwanted, InterFails
    <3> QED  BY <2>1, <3>1
  <2>3. CASE RunJob
    <3>1. mailbox.result # None => mailbox.result.encoder \in Encoders  BY DEF Encoders_, Open
    <3> QED  BY <2>1, <2>3, <3>1 DEF RunJob, ChooseInterEncoder
  <2> QED  BY <2>2, <2>3, Changers
<1>10. reaping' \in Nat
  <2>1. CASE SetupFinish  BY <2>1, <1>s DEF SetupFinish
  <2>2. CASE RunJob  BY <2>2, <1>s DEF RunJob, ChooseInterEncoder
  <2>3. CASE RetireUnwanted \/ InterFails \/ ReaperCloses  BY <2>3 DEF RetireUnwanted, InterFails, ReaperCloses
  <2>4. CASE EvaluateCodecPolicy  BY <2>4, <1>s DEF EvaluateCodecPolicy, Untarget
  <2>5. CASE Disable  BY <2>5, <1>s DEF Disable
  <2> QED  BY <2>1, <2>2, <2>3, <2>4, <2>5, Changers
<1> QED  BY <1>1, <1>2, <1>3, <1>4, <1>5, <1>6, <1>7, <1>8, <1>9, <1>10

\* The pipeline is told when the policy leaves the hardware, and only a setup still wanted leaves an
\* encoder ready.
LEMMA TargetStays ==
    ASSUME TargetTells, MailboxOK, policy \in Policies, [StorageCodecNext]_codecVars
    PROVE  TargetTells'
<1> USE DEF TargetTells
<1>1. CASE FirstRender
  <2>1. Vendors # {}  BY StorageCodecAssumption
  <2> QED  BY <1>1, <2>1 DEF FirstRender, Target, Policy, AtRest
<1>2. CASE EvaluateCodecPolicy
  <2>1. PICK s, d : /\ d = Evaluate(policy, s) /\ policy' = d.policy
                    /\ d.action \in Leaves => Untarget
                    /\ d.action \notin Leaves => UNCHANGED <<target, mailbox>>
    BY <1>2, EvaluateStep
  <2>2. CASE policy.state \in AtRest
    <3>1. d.action \notin Leaves /\ policy'.state = policy.state  BY <2>1, <2>2, EvaluateDecides DEF Leaves
    <3> QED  BY <2>1, <3>1
  <2>3. CASE policy.state \notin AtRest
    <3>1. policy'.state \in AtRest <=> d.action \in Leaves  BY <2>1, <2>3, EvaluateDecides
    <3>2. CASE d.action \in Leaves
      <4>1. target /\ Untarget  BY <2>1, <2>3, <3>2
      <4>2. target' = FALSE /\ mailbox' = [mailbox EXCEPT !.requested = FALSE, !.result = None]
        BY <4>1 DEF Untarget
      <4> QED  BY <3>1, <3>2, <4>2 DEF MailboxOK
    <3> QED  BY <2>1, <2>3, <3>1, <3>2
  <2> QED  BY <2>2, <2>3
<1>3. CASE ~(FirstRender \/ EvaluateCodecPolicy)
  <2>1. UNCHANGED <<target, policy>>  BY <1>3, Changers
  <2>2. mailbox'.result # None => target
    <3>1. CASE UNCHANGED mailbox  BY <3>1
    <3>2. CASE SetupTake \/ SetupClosed  BY <3>2 DEF SetupTake, SetupClosed, MailboxOK
    <3>3. CASE SetupFinish  BY <3>3 DEF SetupFinish, Stop, InterWanted, MailboxOK
    <3>4. CASE RunJob
      <4>1. mailbox'.result \in {mailbox.result, None}
        BY <3>4 DEF RunJob, ChooseInterEncoder, AskFor, MailboxOK
      <4> QED  BY <4>1
    <3>5. CASE CloseUnwantedResult \/ Disable  BY <3>5 DEF CloseUnwantedResult, Disable, MailboxOK
    <3> QED  BY <1>3, <3>1, <3>2, <3>3, <3>4, <3>5, Changers
  <2> QED  BY <2>1, <2>2
<1> QED  BY <1>1, <1>2, <1>3

\* An encoder is put on the blacklist only while the policy keeps to the hardware, and that evaluation
\* leaves it: what was under way is no longer wanted.
LEMMA BlackStays ==
    ASSUME NothingBlack, RegistryOK, MailboxOK, SetupOK, SetupOK', StorageCodecTypeOK, TargetTells,
           [StorageCodecNext]_codecVars
    PROVE  NothingBlack'
<1> USE DEF NothingBlack
<1>p. \A p \in Places : EncoderAt(p) \in Encoders  BY PlacesHoldEncoders
<1>t. /\ mailbox.result # None => mailbox.result.encoder \in Encoders
      /\ setup.open # None => setup.open.encoder \in Encoders
      /\ setup.left \subseteq Places
  BY DEF MailboxOK, SetupOK, Encoders_, Open
<1>t2. /\ setup'.open # None => setup'.open.encoder \in Encoders
       /\ setup'.left \subseteq Places
  BY DEF SetupOK, Encoders_, Open
<1>1. CASE EvaluateCodecPolicy /\ \E e \in Encoders : registry'[e].black # registry[e].black
  <2>1. policy.state \notin AtRest /\ target  BY <1>1, RegistryStays DEF TargetTells
  <2>2. PICK s, d : /\ d = Evaluate(policy, s)
                    /\ d.action \in Leaves => Untarget
                    /\ registry' = IF Blacklisted(d) THEN [registry EXCEPT ![adopted].black = TRUE]
                                    ELSE registry
    BY <1>1, EvaluateStep DEF StorageCodecTypeOK
  <2>3. Blacklisted(d)  BY <1>1, <2>2
  <2>4. d.action = "Evacuate"  BY <2>2, <2>3, EvaluateDecides DEF Blacklisted, StorageCodecTypeOK
  <2>5. mailbox'.result = None /\ setup' = Superseded
    BY <2>1, <2>2, <2>4 DEF Untarget, Leaves, MailboxOK
  <2>6. setup'.stale \/ (setup'.left = {} /\ setup'.open = None)
    BY <2>5 DEF Superseded, SetupOK
  <2> QED  BY <2>5, <2>6
<1>2. CASE \A e \in Encoders : registry'[e].black = registry[e].black
  <2>1. mailbox'.result # None => ~registry'[mailbox'.result.encoder].black
    <3>1. mailbox'.result # None
            => \/ mailbox'.result = mailbox.result
               \/ mailbox'.result = setup.open /\ ~setup.stale
      <4>1. CASE UNCHANGED mailbox  BY <4>1
      <4>2. CASE SetupTake \/ SetupClosed  BY <4>2 DEF SetupTake, SetupClosed, MailboxOK
      <4>3. CASE SetupFinish  BY <4>3 DEF SetupFinish, Stop, MailboxOK
      <4>4. CASE RunJob  BY <4>4 DEF RunJob, ChooseInterEncoder, AskFor, MailboxOK
      <4>5. CASE CloseUnwantedResult \/ Disable  BY <4>5 DEF CloseUnwantedResult, Disable, MailboxOK
      <4>6. CASE FirstRender  BY <4>6 DEF FirstRender, Target, MailboxOK
      <4>7. CASE EvaluateCodecPolicy  BY <4>7 DEF EvaluateCodecPolicy, Untarget, MailboxOK
      <4> QED  BY <4>1, <4>2, <4>3, <4>4, <4>5, <4>6, <4>7, Changers
    <3> QED  BY <1>2, <1>t, <3>1
  <2>2. ~setup'.stale => /\ \A p \in setup'.left : ~registry'[EncoderAt(p)].black
                         /\ setup'.open # None => ~registry'[setup'.open.encoder].black
    <3>1. ASSUME ~setup'.stale => ~setup.stale, setup'.left \subseteq setup.left,
                 setup'.open # None => \/ setup'.open = setup.open
                                       \/ \E p \in setup.left : setup'.open.encoder = EncoderAt(p)
          PROVE  ~setup'.stale => /\ \A p \in setup'.left : ~registry'[EncoderAt(p)].black
                                  /\ setup'.open # None => ~registry'[setup'.open.encoder].black
      <4> SUFFICES ASSUME ~setup.stale, ~setup'.stale
                   PROVE  /\ \A p \in setup'.left : ~registry'[EncoderAt(p)].black
                          /\ setup'.open # None => ~registry'[setup'.open.encoder].black
        BY <3>1
      <4>1. \A p \in setup.left : ~registry'[EncoderAt(p)].black  BY <1>2, <1>p, <1>t
      <4>2. setup.open # None => ~registry'[setup.open.encoder].black  BY <1>2, <1>t
      <4> QED  BY <3>1, <4>1, <4>2
    <3>2. CASE UNCHANGED setup  BY <3>1, <3>2
    <3>3. CASE SetupTake
      <4> DEFINE black == {e \in Encoders : registry[e].black}
      <4>1. setup'.left = RankCandidates(Vendors, obs, black) /\ setup'.open = None
        BY <3>3 DEF SetupTake, IdleSetup
      <4>2. \A p \in setup'.left : EncoderAt(p) \in Encoders \ black
        BY <4>1, <1>p, <1>t2, RankedPlaces
      <4> QED  BY <1>2, <4>1, <4>2
    <3>n. ASSUME NEW entry, NextCandidate(entry)
          PROVE  setup'.left \subseteq setup.left /\ setup'.stale = setup.stale /\ setup'.open = None
      BY <3>n DEF NextCandidate, SetupOK
    <3>c. ASSUME NEW pc, setup' = [setup EXCEPT !.pc = pc]
          PROVE  setup'.left = setup.left /\ setup'.stale = setup.stale /\ setup'.open = setup.open
      BY <3>c DEF SetupOK
    <3>i. ASSUME setup' = IdleSetup
          PROVE  setup'.left = {} /\ setup'.open = None
      BY <3>i DEF IdleSetup
    <3>u. ASSUME setup' = Superseded
          PROVE  setup'.left = setup.left /\ (~setup'.stale => ~setup.stale) /\ setup'.open = setup.open
      BY <3>u DEF Superseded, SetupOK
    <3>4. CASE SetupTry  BY <3>1, <3>4, <3>n, <3>c DEF SetupTry, Cancelled
    <3>5. CASE SetupOpens
      <4>1. Min(setup.left) \in setup.left /\ Head1 = EncoderAt(Min(setup.left))
        BY <3>5, FirstPlace DEF SetupOpens, SetupOK, Head1
      <4>2. /\ setup'.left = setup.left /\ setup'.stale = setup.stale
            /\ setup'.open.encoder = Head1
        BY <3>5 DEF SetupOpens, SetupOK
      <4> QED  BY <3>1, <4>1, <4>2
    <3>6. CASE SetupOpened  BY <3>1, <3>6, <3>n, <3>c DEF SetupOpened, Cancelled
    <3>7. CASE SetupProbed  BY <3>1, <3>7, <3>n, <3>c DEF SetupProbed, Cancelled
    <3>8. CASE SetupFinish  BY <3>1, <3>8, <3>i, <3>c DEF SetupFinish
    <3>9. CASE SetupClosed  BY <3>9, <3>i DEF SetupClosed
    <3>10. CASE EvaluateCodecPolicy
      <4>1. setup' = setup \/ setup' = Superseded  BY <3>10 DEF EvaluateCodecPolicy, Untarget
      <4> QED  BY <3>1, <3>2, <3>u, <4>1
    <3>11. CASE Disable
      <4>1. setup' = setup \/ setup' = Superseded  BY <3>11 DEF Disable
      <4> QED  BY <3>1, <3>2, <3>u, <4>1
    <3> QED  BY <3>2, <3>3, <3>4, <3>5, <3>6, <3>7, <3>8, <3>9, <3>10, <3>11, Changers
  <2> QED  BY <2>1, <2>2
<1> QED  BY <1>1, <1>2, RegistryStays

LEMMA OwedStays ==
    ASSUME OwedIsPending, NewsOK, policy \in Policies, [StorageCodecNext]_codecVars
    PROVE  OwedIsPending'
<1> USE DEF OwedIsPending
<1>1. CASE FirstRender  BY <1>1 DEF FirstRender
<1>2. CASE EvaluateCodecPolicy
  <2>1. PICK s, d : /\ d = Evaluate(policy, s) /\ policy' = d.policy /\ s.obsError = news.obsError
                    /\ owed' = (owed /\ ~Storing(policy) /\ d.policy.state \notin AtRest)
    BY <1>2, EvaluateStep
  <2>2. CASE policy.state \in AtRest
    <3>1. d.policy.state \in AtRest  BY <2>1, <2>2, EvaluateDecides
    <3> QED  BY <2>1, <3>1
  <2>3. CASE policy.state \notin AtRest  BY <2>1, <2>3, EvaluateKeepsError
  <2> QED  BY <2>2, <2>3
<1>3. CASE ObsEncodeError  BY <1>3 DEF ObsEncodeError, NewsOK
<1>4. CASE ~(FirstRender \/ EvaluateCodecPolicy \/ ObsEncodeError)
  <2>1. UNCHANGED <<owed, policy>>  BY <1>4, Changers
  <2>2. news.obsError => news'.obsError
    <3>1. CASE UNCHANGED news  BY <3>1
    <3>2. CASE SetupFinish \/ InterFails \/ DecoderFails
      BY <3>2 DEF SetupFinish, InterFails, DecoderFails, NewsOK
    <3> QED  BY <1>4, <3>1, <3>2, Changers
  <2> QED  BY <2>1, <2>2
<1> QED  BY <1>1, <1>2, <1>3, <1>4

\* While a yield holds, a setup stops at its next step and nothing is handed over.
LEMMA YieldStays ==
    ASSUME YieldStaysClosed, MailboxOK, SetupOK, GivingOK, StorageCodecTypeOK', [StorageCodecNext]_codecVars
    PROVE  YieldStaysClosed'
<1> USE DEF YieldStaysClosed
<1> SUFFICES ASSUME giving'.closed, yielded'
             PROVE  mailbox'.result = None /\ inter' = None /\ reaping' = 0
  OBVIOUS
<1>1. CASE YieldWaitEnds
  <2>1. openEncoders = 0  BY <1>1 DEF YieldWaitEnds, GivingOK
  <2>2. \A x : Some(x) \in {0, 1} /\ (Some(x) = 0 => x = None)  BY DEF Some
  <2>3. reaping \in Nat  BY DEF StorageCodecTypeOK
  <2>4. Some(setup.open) \in Nat /\ Some(mailbox.result) \in Nat /\ Some(inter) \in Nat  BY <2>2
  <2> DEFINE a == Some(setup.open)
             b == Some(mailbox.result)
             c == Some(inter)
  <2>5. a \in Nat /\ b \in Nat /\ c \in Nat /\ a + b + c + reaping = 0
    BY <2>1, <2>4 DEF openEncoders
  <2> HIDE DEF a, b, c
  <2>7. b = 0 /\ c = 0 /\ reaping = 0  BY <2>3, <2>5
  <2>6. UNCHANGED <<mailbox, inter, reaping>>  BY <1>1 DEF YieldWaitEnds, codec, worker
  <2> QED  BY <2>2, <2>6, <2>7 DEF b, c
<1>2. CASE ~YieldWaitEnds
  <2>0. giving' # NotGiving /\ ~Enable /\ ~Disable /\ ~OutputStarting
    <3>1. giving' = NotGiving => ~giving'.closed  BY DEF NotGiving
    <3>2. giving' # NotGiving  BY <3>1
    <3>3. OutputStarting => ~giving'.closed
      <4>1. OutputStarting => giving' = [pending |-> TRUE, since |-> 0, started |-> -1,
                                         waits |-> mayUse /\ ~yielded /\ NearLimit, closed |-> FALSE]
        BY DEF OutputStarting
      <4> QED  BY <4>1
    <3> QED  BY <3>2, <3>3 DEF Enable, Disable
  <2>1. giving.closed
    <3>1. CASE UNCHANGED giving  BY <3>1
    <3>2. CASE OutputStarted  BY <3>2 DEF OutputStarted, GivingOK
    <3>3. CASE Tick
      <4>1. \/ giving' = [giving EXCEPT !.pending = FALSE, !.closed = FALSE]
            \/ giving' = [giving EXCEPT !.since = @ + 1, !.started = IF @ = -1 THEN -1 ELSE @ + 1]
        BY <3>3 DEF Tick
      <4>2. giving' # [giving EXCEPT !.pending = FALSE, !.closed = FALSE]  BY DEF GivingOK
      <4> QED  BY <4>1, <4>2 DEF GivingOK
    <3> QED  BY <1>2, <2>0, <3>1, <3>2, <3>3, Changers
  <2>2. yielded /\ ~FirstRender  BY <2>0, Changers DEF FirstRender, Tick
  <2>3. mailbox.result = None /\ inter = None /\ reaping = 0 /\ Stop /\ ~InterWanted
    BY <2>1, <2>2 DEF Stop, InterWanted
  <2>4. Some(None) = 0  BY DEF Some
  <2>5. mailbox'.result = None
    <3>1. CASE SetupTake \/ SetupFinish \/ SetupClosed
      BY <2>3, <3>1 DEF SetupTake, SetupFinish, SetupClosed, MailboxOK
    <3>2. CASE RunJob  BY <2>3, <3>2 DEF RunJob, ChooseInterEncoder, AskFor, MailboxOK
    <3>3. CASE CloseUnwantedResult \/ EvaluateCodecPolicy
      BY <2>3, <3>3 DEF CloseUnwantedResult, EvaluateCodecPolicy, Untarget, MailboxOK
    <3> QED  BY <2>0, <2>2, <2>3, <3>1, <3>2, <3>3, Changers
  <2>6. inter' = None
    <3>1. CASE RunJob  BY <2>3, <3>1 DEF RunJob, ChooseInterEncoder
    <3>2. CASE HandleRelease \/ RetireUnwanted \/ InterFails
      BY <3>2 DEF HandleRelease, RetireUnwanted, InterFails
    <3> QED  BY <2>3, <3>1, <3>2, Changers
  <2>7. reaping' = 0
    <3>1. CASE SetupFinish  BY <2>3, <3>1 DEF SetupFinish
    <3>2. CASE RunJob  BY <2>3, <2>4, <3>2 DEF RunJob, ChooseInterEncoder
    <3>3. CASE RetireUnwanted \/ InterFails \/ ReaperCloses
      BY <2>3, <3>3 DEF RetireUnwanted, InterUnwanted, InterFails, ReaperCloses
    <3>4. CASE EvaluateCodecPolicy  BY <2>3, <2>4, <3>4 DEF EvaluateCodecPolicy, Untarget
    <3> QED  BY <2>0, <2>3, <3>1, <3>2, <3>3, <3>4, Changers
  <2> QED  BY <2>5, <2>6, <2>7
<1> QED  BY <1>1, <1>2

\* The first evaluation with a failure in it leaves the hardware, or records that something else decided.
LEMMA HeardStays ==
    ASSUME FailedSetupIsHeard, MailboxOK, NewsOK, policy \in Policies, [StorageCodecNext]_codecVars
    PROVE  FailedSetupIsHeard'
<1> USE DEF FailedSetupIsHeard
<1>1. CASE FirstRender  BY <1>1 DEF FirstRender, Target, MailboxOK
<1>2. CASE EvaluateCodecPolicy
  <2> SUFFICES ASSUME policy'.state \notin AtRest, mailbox'.failed # None
               PROVE  lost'
    BY DEF AtRest
  <2>1. PICK s, d : /\ d = Evaluate(policy, s) /\ policy' = d.policy /\ s.setupFailed = news.setupFailed
                    /\ d.action \in Leaves => Untarget
                    /\ d.action \notin Leaves => UNCHANGED mailbox
                    /\ lost' = (lost \/ (s.setupFailed /\ d.action \in {"Yield", "Resume", "Adopted", "None"}))
    BY <1>2, EvaluateStep
  <2>2. policy.state \notin AtRest  BY <2>1, EvaluateDecides
  <2>3. d.action \notin Leaves  BY <2>1, <2>2, EvaluateDecides
  <2>4. news.setupFailed \/ lost  BY <1>2, <2>1, <2>2, <2>3 DEF AtRest, EvaluateCodecPolicy
  <2>5. s.setupFailed => d.action \in {"Yield", "Resume", "Adopted", "None"}
    BY <2>1, <2>3, EvaluateDecides
  <2> QED  BY <2>1, <2>4, <2>5
<1>3. CASE Disable  BY <1>3 DEF Disable
<1>4. CASE ~(FirstRender \/ EvaluateCodecPolicy \/ Disable)
  <2>1. UNCHANGED <<ring, policy, lost>>  BY <1>4, Changers
  <2>2. mailbox'.failed # None => mailbox'.failed = mailbox.failed \/ news'.setupFailed
    <3>1. CASE UNCHANGED mailbox  BY <3>1
    <3>2. CASE SetupFinish  BY <3>2 DEF SetupFinish, MailboxOK, NewsOK
    <3>3. CASE SetupTake \/ SetupClosed \/ CloseUnwantedResult
      BY <3>3 DEF SetupTake, SetupClosed, CloseUnwantedResult, MailboxOK
    <3>4. CASE RunJob  BY <3>4 DEF RunJob, ChooseInterEncoder, AskFor, MailboxOK
    <3> QED  BY <1>4, <3>1, <3>2, <3>3, <3>4, Changers
  <2>3. news.setupFailed => news'.setupFailed
    <3>1. CASE UNCHANGED news  BY <3>1
    <3>2. CASE SetupFinish \/ InterFails \/ DecoderFails \/ ObsEncodeError
      BY <3>2 DEF SetupFinish, InterFails, DecoderFails, ObsEncodeError, NewsOK
    <3> QED  BY <1>4, <3>1, <3>2, Changers
  <2> QED  BY <2>1, <2>2, <2>3
<1> QED  BY <1>1, <1>2, <1>3, <1>4

LEMMA InitHolds == StorageCodecInit => StorageInvariant
<1> SUFFICES ASSUME StorageCodecInit
             PROVE  StorageInvariant
  OBVIOUS
<1> USE DEF StorageCodecInit
<1>1. Floor \in Nat /\ 0 \in Rungs  BY StorageCodecAssumption DEF Rungs
<1>2. MailboxOK  BY <1>1 DEF MailboxOK, EmptyMailbox, OpenSizes, Encoders_
<1>3. SetupOK  BY <1>1 DEF SetupOK, IdleSetup, Encoders_
<1>4. RegistryOK  BY DEF RegistryOK, Fresh, OpenSizes
<1>5. JobOK /\ GivingOK /\ NewsOK  BY DEF JobOK, GivingOK, NotGiving, NewsOK, NoNews
<1>6. policy \in Policies /\ policy.state = "Mjpeg"
  <2>1. Cooldown \in 0..Cooldown /\ NoWarning \in NoWarning..WarnHold /\ 0 \in 0..Veto
    BY StoragePolicyAssumption DEF NoWarning
  <2> QED  BY <2>1 DEF Policy, Policies, PolicyStates
<1>7. StorageCodecTypeOK  BY <1>1, <1>6 DEF StorageCodecTypeOK, EmptyMailbox, IdleSetup, Encoders_
<1>8. TargetTells /\ NothingBlack /\ OwedIsPending
  BY <1>6 DEF TargetTells, NothingBlack, OwedIsPending, AtRest, EmptyMailbox, IdleSetup
<1>9. YieldStaysClosed /\ FailedSetupIsHeard
  BY <1>7 DEF YieldStaysClosed, FailedSetupIsHeard, NotGiving
<1> QED  BY <1>2, <1>3, <1>4, <1>5, <1>7, <1>8, <1>9 DEF StorageInvariant

LEMMA NextKeepsInvariant == StorageInvariant /\ [StorageCodecNext]_codecVars => StorageInvariant'
<1> SUFFICES ASSUME StorageInvariant, [StorageCodecNext]_codecVars
             PROVE  StorageInvariant'
  OBVIOUS
<1>1. /\ MailboxOK /\ SetupOK /\ RegistryOK /\ JobOK /\ GivingOK /\ NewsOK
      /\ TargetTells /\ NothingBlack /\ OwedIsPending /\ YieldStaysClosed /\ FailedSetupIsHeard
  BY DEF StorageInvariant
<1>2. StorageCodecTypeOK /\ rung \in Rungs /\ policy \in Policies
  BY <1>1 DEF YieldStaysClosed, StorageCodecTypeOK
<1>3. MailboxOK' /\ SetupOK' /\ RegistryOK' /\ JobOK' /\ GivingOK' /\ NewsOK'
  BY <1>1, <1>2, MailboxStays, SetupStays, RegistryStays, JobStays, GivingStays, NewsStays
<1>4. StorageCodecTypeOK'  BY <1>1, <1>2, <1>3, TypesStay
<1>5. TargetTells' /\ NothingBlack' /\ OwedIsPending'
  BY <1>1, <1>2, <1>3, TargetStays, BlackStays, OwedStays
<1>6. YieldStaysClosed' /\ FailedSetupIsHeard'  BY <1>1, <1>2, <1>4, YieldStays, HeardStays
<1> QED  BY <1>3, <1>5, <1>6 DEF StorageInvariant

\* An encoder that failed hard never comes into use again, and a cycle that has left the hardware takes
\* no encoder into use.
LEMMA FailedStaysOut ==
    ASSUME StorageInvariant, [StorageCodecNext]_codecVars
    PROVE  /\ inter' # None /\ inter' # inter => ~registry[inter'.encoder].black
           /\ ring /\ policy.state \in {"Mjpeg", "Evacuated"} /\ ring' => inter' \in {inter, None}
<1>1. NothingBlack /\ TargetTells  BY DEF StorageInvariant
<1>2. inter' \in {inter, None} \/ (inter' = mailbox.result /\ mailbox.result # None)
  BY Changers DEF RunJob, ChooseInterEncoder, HandleRelease, RetireUnwanted, InterFails
<1> QED  BY <1>1, <1>2 DEF NothingBlack, TargetTells, AtRest

\* An OBS encoder error that is owed evacuates once the encoder stores on a shared engine.
LEMMA OwedErrorActs ==
    ASSUME StorageInvariant, owed, EngineShared, Storing(policy), EvaluateCodecPolicy
    PROVE  policy'.state = "Evacuated"
<1>1. policy \in Policies /\ OwedIsPending
  BY DEF StorageInvariant, YieldStaysClosed, StorageCodecTypeOK
<1>2. PICK s, d : /\ d = Evaluate(policy, s) /\ policy' = d.policy
                  /\ s.obsError = news.obsError /\ s.shared = EngineShared
  BY <1>1, EvaluateStep
<1>3. policy.error \/ s.obsError  BY <1>1, <1>2 DEF OwedIsPending
<1>4. s.shared  BY <1>2
<1> QED  BY <1>1, <1>2, <1>3, <1>4, EvaluateDecides

-----------------------------------------------------------------------------
(* Theorems. *)

\* The invariant of the hardware encoder's path holds in every state.
THEOREM StorageHolds == StorageCodecSpec => []StorageInvariant
<1>1. StorageCodecInit => StorageInvariant  BY InitHolds
<1>2. StorageInvariant /\ [StorageCodecNext]_codecVars => StorageInvariant'  BY NextKeepsInvariant
<1> QED  BY <1>1, <1>2, PTL DEF StorageCodecSpec

\* What the setup thread does is heard: a yield whose wait saw every session closed stays closed, and a
\* setup that failed is acted on.
THEOREM SetupTheorem == StorageCodecSpec => []SetupIsHeeded
<1>1. StorageInvariant => SetupIsHeeded  BY DEF StorageInvariant, SetupIsHeeded
<1> QED  BY <1>1, StorageHolds, PTL

\* Failures count: an encoder that failed hard is not used again, whatever was under way, and an error
\* of OBS's own encoder makes the buffer leave the engine they share.
THEOREM FailuresTheorem == StorageCodecSpec => FailuresCount
<1> DEFINE NeverBack == /\ inter' # None /\ inter' # inter => ~registry[inter'.encoder].black
                        /\ ring /\ policy.state \in {"Mjpeg", "Evacuated"} /\ ring'
                               => inter' \in {inter, None}
           Acts == owed /\ EngineShared /\ Storing(policy) /\ EvaluateCodecPolicy
                       => policy'.state = "Evacuated"
<1>1. StorageInvariant /\ [StorageCodecNext]_codecVars => [NeverBack]_codecVars
  <2> SUFFICES ASSUME StorageInvariant, [StorageCodecNext]_codecVars
               PROVE  NeverBack
    OBVIOUS
  <2> QED  BY FailedStaysOut
<1>2. StorageInvariant /\ [StorageCodecNext]_codecVars => [Acts]_codecVars  BY OwedErrorActs
<1>3. FailuresCount <=> [][NeverBack]_codecVars /\ [][Acts]_codecVars
  BY DEF FailuresCount, FailedNeverBack, ObsErrorActs
<1> HIDE DEF NeverBack, Acts
<1> QED  BY <1>1, <1>2, <1>3, StorageHolds, PTL DEF StorageCodecSpec

-----------------------------------------------------------------------------
(* The smallest of finite sets. *)

\* Of finite sets, with the property that makes them bad, one is smallest.
LEMMA SmallestSet ==
    ASSUME NEW Bad, Bad # {}, \A s \in Bad : IsFiniteSet(s)
    PROVE  \E s \in Bad : \A t \in Bad : Cardinality(s) <= Cardinality(t)
<1> DEFINE sizes == {Cardinality(s) : s \in Bad}
<1>1. sizes \subseteq Nat /\ sizes # {}
  BY FS_CardinalityType
<1>2. PICK m \in sizes : \A n \in sizes : m <= n
  <2> HIDE DEF sizes
  <2> QED
    BY <1>1, NonemptyHasLeast
<1> QED
  BY <1>2

-----------------------------------------------------------------------------
(* Sums. *)

Chosen(s) == CHOOSE x \in s : TRUE
Rest(s) == s \ {Chosen(s)}
SumStep(f, g, s) == IF s = {} THEN 0 ELSE f[Chosen(s)] + g[Rest(s)]
\* g is a solution of the fold's recursion over the subsets of S.
Sums(f, S, g) == g = [s \in SUBSET S |-> SumStep(f, g, s)]

\* What is left of a set without the element the fold takes.
LEMMA RestIs ==
    ASSUME NEW s, IsFiniteSet(s), s # {}
    PROVE  /\ Chosen(s) \in s /\ Rest(s) \subseteq s /\ IsFiniteSet(Rest(s))
           /\ Cardinality(s) \in Nat /\ Cardinality(Rest(s)) = Cardinality(s) - 1 /\ Cardinality(Rest(s)) \in Nat
<1>1. Chosen(s) \in s
  BY DEF Chosen
<1>2. IsFiniteSet(Rest(s)) /\ Cardinality(Rest(s)) = Cardinality(s) - 1
  BY <1>1, FS_RemoveElement, Zenon DEF Rest
<1>3. Cardinality(s) \in Nat /\ Cardinality(Rest(s)) \in Nat
  BY <1>2, FS_CardinalityType, Zenon
<1> QED
  BY <1>1, <1>2, <1>3 DEF Rest

\* g sums the subsets of up to n elements.
SumsTo(f, S, g, n) == \A s \in SUBSET S : Cardinality(s) <= n => g[s] = SumStep(f, g, s)

\* A solution for the sets of n elements gives one for those of n + 1.
LEMMA SumsOneMore ==
    ASSUME NEW f, NEW S, IsFiniteSet(S), NEW n \in Nat, NEW g, SumsTo(f, S, g, n)
    PROVE  \E h : SumsTo(f, S, h, n + 1)
<1> DEFINE h == [s \in SUBSET S |-> IF Cardinality(s) <= n THEN g[s] ELSE SumStep(f, g, s)]
<1>1. ASSUME NEW s \in SUBSET S, Cardinality(s) <= n + 1 PROVE h[s] = SumStep(f, h, s)
  <2>1. IsFiniteSet(s) /\ Cardinality(s) \in Nat
    BY FS_Subset, FS_CardinalityType
  <2>2. h[s] = SumStep(f, g, s)
    BY DEF SumsTo
  <2>3. CASE s = {}
    BY <2>2, <2>3, Zenon DEF SumStep
  <2>4. CASE s # {}
    <3>1. Rest(s) \in SUBSET S /\ Cardinality(Rest(s)) <= n
      BY <1>1, <2>1, <2>4, RestIs
    <3>2. h[Rest(s)] = g[Rest(s)]
      BY <3>1
    <3> HIDE DEF h
    <3> QED
      BY <2>2, <3>2, Zenon DEF SumStep
  <2> QED
    BY <2>3, <2>4
<1> HIDE DEF h
<1>2. SumsTo(f, S, h, n + 1)
  BY <1>1, Zenon DEF SumsTo
<1> QED
  BY <1>2, Zenon

\* The recursion has a solution over the subsets of any finite set.
LEMMA SumsExist ==
    ASSUME NEW f, NEW S, IsFiniteSet(S)
    PROVE  \E g : Sums(f, S, g)
<1> DEFINE bad == {n \in Nat : ~(\E g : SumsTo(f, S, g, n))}
<1>1. \E g : SumsTo(f, S, g, 0)
  <2> DEFINE g == [s \in SUBSET S |-> 0]
  <2>1. ASSUME NEW s \in SUBSET S, Cardinality(s) <= 0 PROVE g[s] = SumStep(f, g, s)
    <3>1. IsFiniteSet(s) /\ Cardinality(s) \in Nat
      BY FS_Subset, FS_CardinalityType
    <3>2. s = {}
      BY <2>1, <3>1, FS_EmptySet
    <3> QED
      BY <3>2 DEF SumStep
  <2> HIDE DEF g
  <2>2. SumsTo(f, S, g, 0)
    BY <2>1, Zenon DEF SumsTo
  <2> QED
    BY <2>2, Zenon
<1>2. bad = {}
  <2> SUFFICES ASSUME bad # {} PROVE FALSE
    OBVIOUS
  <2>1. bad \subseteq Nat
    OBVIOUS
  <2>2. PICK n \in bad : \A m \in bad : n <= m
    <3> HIDE DEF bad
    <3> QED
      BY <2>1, NonemptyHasLeast
  <2>3. n \in Nat /\ ~(\E g : SumsTo(f, S, g, n))
    BY <2>2, Zenon
  <2>4. n # 0
    BY <1>1, <2>3, Zenon
  <2>5. PICK m \in Nat : n = m + 1
    <3>1. n - 1 \in Nat /\ n = (n - 1) + 1
      BY <2>3, <2>4
    <3> QED
      BY <3>1
  <2>6. m \notin bad
    <3> HIDE DEF bad
    <3> QED
      BY <2>2, <2>5
  <2>7. PICK g : SumsTo(f, S, g, m)
    BY <2>6, Zenon
  <2>8. \E h : SumsTo(f, S, h, m + 1)
    BY <2>7, SumsOneMore, Zenon
  <2> QED
    BY <2>3, <2>5, <2>8, Zenon
<1>3. PICK n \in Nat : n = Cardinality(S)
  BY FS_CardinalityType
<1>4. PICK g : SumsTo(f, S, g, n)
  BY <1>2, Zenon
<1> DEFINE h == [s \in SUBSET S |-> g[s]]
<1>5. ASSUME NEW s \in SUBSET S PROVE h[s] = SumStep(f, h, s)
  <2>1. IsFiniteSet(s) /\ Cardinality(s) <= n
    BY <1>3, FS_Subset
  <2>2. h[s] = SumStep(f, g, s)
    BY <1>4, <2>1 DEF SumsTo
  <2>3. CASE s = {}
    BY <2>2, <2>3, Zenon DEF SumStep
  <2>4. CASE s # {}
    <3>1. Rest(s) \in SUBSET S
      BY <2>1, <2>4, RestIs
    <3>2. h[Rest(s)] = g[Rest(s)]
      BY <3>1
    <3> HIDE DEF h
    <3> QED
      BY <2>2, <3>2, Zenon DEF SumStep
  <2> QED
    BY <2>3, <2>4
<1>6. h = [s \in SUBSET S |-> SumStep(f, h, s)]
  <2>1. h = [s \in SUBSET S |-> h[s]]
    OBVIOUS
  <2> HIDE DEF h
  <2> QED
    BY <1>5, <2>1, Zenon
<1> HIDE DEF h
<1> QED
  BY <1>6, Zenon DEF Sums

\* Solutions agree where both are defined.
LEMMA SumsAgree ==
    ASSUME NEW f, NEW S, NEW T, NEW g, NEW h, Sums(f, S, g), Sums(f, T, h), IsFiniteSet(T), T \subseteq S
    PROVE  \A s \in SUBSET T : g[s] = h[s]
<1> DEFINE bad == {s \in SUBSET T : g[s] # h[s]}
<1>1. ASSUME NEW s \in SUBSET T PROVE g[s] = SumStep(f, g, s) /\ h[s] = SumStep(f, h, s)
  BY Zenon DEF Sums
<1>2. ASSUME bad # {} PROVE FALSE
  <2>1. PICK s \in bad : \A t \in bad : Cardinality(s) <= Cardinality(t)
    <3>1. \A t \in bad : IsFiniteSet(t)
      BY FS_Subset
    <3> HIDE DEF bad
    <3> QED
      BY <1>2, <3>1, SmallestSet
  <2>2. s \in SUBSET T /\ g[s] # h[s] /\ IsFiniteSet(s)
    BY <2>1, FS_Subset
  <2>3. s # {}
    BY <1>1, <2>2 DEF SumStep
  <2>4. Rest(s) \in SUBSET T /\ Cardinality(Rest(s)) < Cardinality(s)
        /\ Cardinality(s) \in Nat /\ Cardinality(Rest(s)) \in Nat
    BY <2>2, <2>3, RestIs
  <2>5. Rest(s) \notin bad
    <3> HIDE DEF bad
    <3> QED
      BY <2>1, <2>4
  <2>6. g[Rest(s)] = h[Rest(s)]
    BY <2>4, <2>5, Zenon
  <2> QED
    BY <1>1, <2>2, <2>6, Zenon DEF SumStep
<1> QED
  BY <1>2, Zenon

\* Total is such a solution, taken at the whole set.
LEMMA TotalIs ==
    ASSUME NEW f, NEW S, IsFiniteSet(S)
    PROVE  \E g : Sums(f, S, g) /\ Total(f, S) = g[S]
<1> DEFINE g == CHOOSE g : Sums(f, S, g)
<1>1. Sums(f, S, g)
  BY SumsExist, Zenon
<1>2. Total(f, S) = g[S]
  BY Zenon DEF Total, MapThenSumSet, MapThenFoldSet, Sums, SumStep, Chosen, Rest
<1> QED
  BY <1>1, <1>2, Zenon

\* The sum of nothing.
LEMMA TotalOfNone == ASSUME NEW f PROVE Total(f, {}) = 0
<1>1. PICK g : Sums(f, {}, g) /\ Total(f, {}) = g[{}]
  BY TotalIs, FS_EmptySet, Zenon
<1>2. g[{}] = SumStep(f, g, {})
  BY <1>1, Zenon DEF Sums
<1> QED
  BY <1>1, <1>2, Zenon DEF SumStep

\* One step of the fold.
LEMMA TotalUnfolds ==
    ASSUME NEW f, NEW S, IsFiniteSet(S), S # {}
    PROVE  Total(f, S) = f[Chosen(S)] + Total(f, Rest(S))
<1>1. PICK g : Sums(f, S, g) /\ Total(f, S) = g[S]
  BY TotalIs, Zenon
<1>2. IsFiniteSet(Rest(S)) /\ Rest(S) \subseteq S
  BY RestIs, Zenon
<1>3. PICK h : Sums(f, Rest(S), h) /\ Total(f, Rest(S)) = h[Rest(S)]
  BY <1>2, TotalIs, Zenon
<1>4. Rest(S) \in SUBSET Rest(S) /\ S \in SUBSET S
  OBVIOUS
<1>5. g[Rest(S)] = h[Rest(S)]
  <2>1. PICK R : R = Rest(S)
    OBVIOUS
  <2>2. Sums(f, R, h) /\ IsFiniteSet(R) /\ R \subseteq S
    BY <1>2, <1>3, <2>1
  <2>3. \A s \in SUBSET R : g[s] = h[s]
    BY <1>1, <2>2, SumsAgree
  <2> QED
    BY <1>4, <2>1, <2>3
<1>6. g[S] = SumStep(f, g, S)
  BY <1>1, <1>4, Zenon DEF Sums
<1> QED
  BY <1>1, <1>3, <1>5, <1>6, Zenon DEF SumStep

\* A sum of naturals is a natural.
LEMMA TotalIsNat ==
    ASSUME NEW f, NEW S, IsFiniteSet(S), \A x \in S : f[x] \in Nat
    PROVE  \A T \in SUBSET S : Total(f, T) \in Nat
<1> DEFINE bad == {T \in SUBSET S : Total(f, T) \notin Nat}
<1>1. ASSUME bad # {} PROVE FALSE
  <2>1. PICK T \in bad : \A U \in bad : Cardinality(T) <= Cardinality(U)
    <3>1. \A U \in bad : IsFiniteSet(U)
      BY FS_Subset
    <3> HIDE DEF bad
    <3> QED
      BY <1>1, <3>1, SmallestSet
  <2>2. T \in SUBSET S /\ Total(f, T) \notin Nat /\ IsFiniteSet(T)
    BY <2>1, FS_Subset
  <2>3. T # {}
    BY <2>2, TotalOfNone
  <2>4. /\ Chosen(T) \in T /\ Rest(T) \in SUBSET S /\ Cardinality(Rest(T)) < Cardinality(T)
        /\ Cardinality(T) \in Nat /\ Cardinality(Rest(T)) \in Nat
    BY <2>2, <2>3, RestIs
  <2>5. Rest(T) \notin bad
    <3> HIDE DEF bad
    <3> QED
      BY <2>1, <2>4
  <2>6. Total(f, Rest(T)) \in Nat
    BY <2>4, <2>5, Zenon
  <2>7. Total(f, T) = f[Chosen(T)] + Total(f, Rest(T)) /\ f[Chosen(T)] \in Nat
    BY <2>2, <2>3, <2>4, TotalUnfolds, Zenon
  <2> QED
    BY <2>2, <2>6, <2>7
<1> QED
  BY <1>1, Zenon

\* The sum does not depend on the order: any element can be taken first.
LEMMA TotalTakes ==
    ASSUME NEW f, NEW S, IsFiniteSet(S), \A x \in S : f[x] \in Nat
    PROVE  \A T \in SUBSET S : \A x \in T : Total(f, T) = f[x] + Total(f, T \ {x})
<1> DEFINE bad == {T \in SUBSET S : \E x \in T : Total(f, T) # f[x] + Total(f, T \ {x})}
<1>1. ASSUME bad # {} PROVE FALSE
  <2>1. PICK T \in bad : \A U \in bad : Cardinality(T) <= Cardinality(U)
    <3>1. \A U \in bad : IsFiniteSet(U)
      BY FS_Subset
    <3> HIDE DEF bad
    <3> QED
      BY <1>1, <3>1, SmallestSet
  <2>2. PICK x \in T : Total(f, T) # f[x] + Total(f, T \ {x})
    BY <2>1
  <2>3. T \in SUBSET S /\ IsFiniteSet(T) /\ T # {}
    BY <2>1, <2>2, FS_Subset
  <2>4. PICK c \in T : c = Chosen(T) /\ Rest(T) = T \ {c}
    BY <2>3, RestIs DEF Rest
  <2>5. Total(f, T) = f[c] + Total(f, T \ {c})
    BY <2>3, <2>4, TotalUnfolds, Zenon
  <2>6. c # x
    BY <2>2, <2>5
  <2>7. \A y \in T : /\ T \ {y} \in SUBSET S /\ IsFiniteSet(T \ {y})
                     /\ Cardinality(T \ {y}) < Cardinality(T)
    <3> SUFFICES ASSUME NEW y \in T
                 PROVE  /\ T \ {y} \in SUBSET S /\ IsFiniteSet(T \ {y})
                        /\ Cardinality(T \ {y}) < Cardinality(T)
      OBVIOUS
    <3>1. IsFiniteSet(T \ {y}) /\ Cardinality(T \ {y}) = Cardinality(T) - 1 /\ Cardinality(T) \in Nat
      BY <2>3, FS_RemoveElement, FS_CardinalityType, Zenon
    <3> QED
      BY <2>3, <3>1
  <2>8. ASSUME NEW y \in T PROVE T \ {y} \notin bad
    <3>1. /\ T \ {y} \in SUBSET S
          /\ Cardinality(T \ {y}) < Cardinality(T) /\ Cardinality(T) \in Nat /\ Cardinality(T \ {y}) \in Nat
      BY <2>3, <2>7, FS_CardinalityType
    <3> HIDE DEF bad
    <3> QED
      BY <2>1, <3>1
  <2>9. ASSUME NEW y \in T, NEW z \in T \ {y}
        PROVE  Total(f, T \ {y}) = f[z] + Total(f, (T \ {y}) \ {z})
    BY <2>7, <2>8, <2>9, Zenon
  <2>10. Total(f, T \ {c}) = f[x] + Total(f, (T \ {c}) \ {x})
    BY <2>2, <2>4, <2>6, <2>9
  <2>11. Total(f, T \ {x}) = f[c] + Total(f, (T \ {x}) \ {c})
    BY <2>2, <2>4, <2>6, <2>9
  <2>12. (T \ {c}) \ {x} = (T \ {x}) \ {c}
    OBVIOUS
  <2>13. PICK n \in Nat : n = Total(f, (T \ {x}) \ {c})
    <3>1. (T \ {x}) \ {c} \in SUBSET S
      BY <2>3
    <3> QED
      BY <3>1, TotalIsNat
  <2>14. f[c] \in Nat /\ f[x] \in Nat
    BY <2>2, <2>3, <2>4
  <2> QED
    BY <2>2, <2>5, <2>10, <2>11, <2>12, <2>13, <2>14
<1> QED
  BY <1>1, Zenon

\* One more element adds its value.
LEMMA TotalAdds ==
    ASSUME NEW f, NEW S, IsFiniteSet(S), NEW x, x \notin S, \A y \in S \cup {x} : f[y] \in Nat
    PROVE  Total(f, S \cup {x}) = f[x] + Total(f, S)
<1>1. IsFiniteSet(S \cup {x}) /\ (S \cup {x}) \ {x} = S /\ x \in S \cup {x} /\ S \cup {x} \in SUBSET (S \cup {x})
  BY FS_AddElement
<1>2. \A T \in SUBSET (S \cup {x}) : \A y \in T : Total(f, T) = f[y] + Total(f, T \ {y})
  BY <1>1, TotalTakes, Zenon
<1> QED
  BY <1>1, <1>2, Zenon

\* Functions that agree on a set have the same sum.
LEMMA TotalAgrees ==
    ASSUME NEW f, NEW h, NEW S, IsFiniteSet(S), \A x \in S : f[x] = h[x]
    PROVE  Total(f, S) = Total(h, S)
<1> DEFINE bad == {T \in SUBSET S : Total(f, T) # Total(h, T)}
<1>1. ASSUME bad # {} PROVE FALSE
  <2>1. PICK T \in bad : \A U \in bad : Cardinality(T) <= Cardinality(U)
    <3>1. \A U \in bad : IsFiniteSet(U)
      BY FS_Subset
    <3> HIDE DEF bad
    <3> QED
      BY <1>1, <3>1, SmallestSet
  <2>2. T \in SUBSET S /\ Total(f, T) # Total(h, T) /\ IsFiniteSet(T)
    BY <2>1, FS_Subset
  <2>3. T # {}
    BY <2>2, TotalOfNone
  <2>4. /\ Chosen(T) \in T /\ Rest(T) \in SUBSET S /\ Cardinality(Rest(T)) < Cardinality(T)
        /\ Cardinality(T) \in Nat /\ Cardinality(Rest(T)) \in Nat
    BY <2>2, <2>3, RestIs
  <2>5. Rest(T) \notin bad
    <3> HIDE DEF bad
    <3> QED
      BY <2>1, <2>4
  <2>6. Total(f, Rest(T)) = Total(h, Rest(T)) /\ f[Chosen(T)] = h[Chosen(T)]
    BY <2>2, <2>4, <2>5, Zenon
  <2> QED
    BY <2>2, <2>3, <2>6, TotalUnfolds, Zenon
<1> QED
  BY <1>1, Zenon

\* The sum of a set is those of a part of it and of the rest.
LEMMA TotalSplits ==
    ASSUME NEW f, NEW S, IsFiniteSet(S), \A x \in S : f[x] \in Nat
    PROVE  \A T \in SUBSET S : Total(f, S) = Total(f, T) + Total(f, S \ T)
<1> DEFINE bad == {T \in SUBSET S : Total(f, S) # Total(f, T) + Total(f, S \ T)}
<1>1. ASSUME bad # {} PROVE FALSE
  <2>1. PICK T \in bad : \A U \in bad : Cardinality(T) <= Cardinality(U)
    <3>1. \A U \in bad : IsFiniteSet(U)
      BY FS_Subset
    <3> HIDE DEF bad
    <3> QED
      BY <1>1, <3>1, SmallestSet
  <2>2. T \in SUBSET S /\ Total(f, S) # Total(f, T) + Total(f, S \ T) /\ IsFiniteSet(T)
    BY <2>1, FS_Subset
  <2>3. S \in SUBSET S /\ Total(f, S) \in Nat
    BY TotalIsNat
  <2>4. T # {}
    <3>1. S \ {} = S
      OBVIOUS
    <3> QED
      BY <2>2, <2>3, <3>1, TotalOfNone
  <2>5. /\ Chosen(T) \in T /\ Rest(T) \in SUBSET S /\ Cardinality(Rest(T)) < Cardinality(T)
        /\ Cardinality(T) \in Nat /\ Cardinality(Rest(T)) \in Nat
    BY <2>2, <2>4, RestIs
  <2>6. Rest(T) \notin bad
    <3> HIDE DEF bad
    <3> QED
      BY <2>1, <2>5
  <2>7. Total(f, S) = Total(f, Rest(T)) + Total(f, S \ Rest(T))
    BY <2>5, <2>6, Zenon
  <2>8. Total(f, T) = f[Chosen(T)] + Total(f, Rest(T))
    BY <2>2, <2>4, TotalUnfolds, Zenon
  <2>9. Total(f, S \ Rest(T)) = f[Chosen(T)] + Total(f, S \ T)
    <3>1. S \ Rest(T) \in SUBSET S /\ Chosen(T) \in S \ Rest(T) /\ (S \ Rest(T)) \ {Chosen(T)} = S \ T
      <4>1. PICK c \in T : c = Chosen(T) /\ Rest(T) = T \ {c}
        BY <2>5 DEF Rest
      <4>2. c \in S
        BY <2>2, <4>1
      <4> QED
        BY <4>1, <4>2
    <3>2. \A U \in SUBSET S : \A x \in U : Total(f, U) = f[x] + Total(f, U \ {x})
      BY TotalTakes, Zenon
    <3> QED
      BY <3>1, <3>2, Zenon
  <2>10. f[Chosen(T)] \in Nat /\ Total(f, Rest(T)) \in Nat /\ Total(f, S \ T) \in Nat
    <3>1. S \ T \in SUBSET S
      OBVIOUS
    <3> QED
      BY <2>2, <2>5, <3>1, TotalIsNat
  <2> QED
    BY <2>2, <2>7, <2>8, <2>9, <2>10
<1> QED
  BY <1>1, Zenon

-----------------------------------------------------------------------------
(* Lists of different members. *)

\* The sequences of members of S without repetition.
Lists(S) == {s \in Seq(S) : IsInjective(s)}
Different(s) == \A i, j \in 1..Len(s) : s[i] = s[j] => i = j

\* A sequence by its places and by its members.
LEMMA SeqIs ==
    ASSUME NEW S, NEW s \in Seq(S)
    PROVE  /\ Len(s) \in Nat /\ DOMAIN s = 1..Len(s) /\ ToSet(s) \subseteq S
           /\ \A i \in 1..Len(s) : s[i] \in S /\ s[i] \in ToSet(s)
           /\ \A x \in ToSet(s) : \E i \in 1..Len(s) : x = s[i]
           /\ s \in Lists(S) <=> Different(s)
<1>1. Len(s) \in Nat /\ DOMAIN s = 1..Len(s) /\ s \in [1..Len(s) -> S]
  BY LenProperties, Zenon
<1>2. \A i \in 1..Len(s) : s[i] \in S
  BY <1>1, Zenon
<1>3. \A x : x \in ToSet(s) <=> \E i \in 1..Len(s) : x = s[i]
  BY <1>1, Zenon DEF ToSet
<1>4. ToSet(s) \subseteq S /\ \A i \in 1..Len(s) : s[i] \in ToSet(s)
  BY <1>2, <1>3, Zenon
<1>5. s \in Lists(S) <=> Different(s)
  BY <1>1, Zenon DEF Lists, IsInjective, Different
<1> QED
  BY <1>1, <1>2, <1>3, <1>4, <1>5, Zenon

\* Appending a new member.
LEMMA ListAdds ==
    ASSUME NEW S, NEW s \in Lists(S), NEW x \in S, x \notin ToSet(s)
    PROVE  Append(s, x) \in Lists(S) /\ ToSet(Append(s, x)) = ToSet(s) \cup {x}
<1>1. /\ s \in Seq(S) /\ Len(s) \in Nat /\ Different(s)
      /\ \A i \in 1..Len(s) : s[i] \in ToSet(s)
      /\ \A y \in ToSet(s) : \E i \in 1..Len(s) : y = s[i]
  <2>1. s \in Seq(S)
    BY Zenon DEF Lists
  <2> QED
    BY <2>1, SeqIs, Zenon
<1>2. PICK t : t = Append(s, x)
  OBVIOUS
<1>3. t \in Seq(S)
  BY <1>1, <1>2
<1>4. Len(t) = Len(s) + 1 /\ t[Len(s) + 1] = x /\ \A i \in 1..Len(s) : t[i] = s[i]
  BY <1>1, <1>2
<1>5. Different(t)
  <2> SUFFICES ASSUME NEW i \in 1..Len(s) + 1, NEW j \in 1..Len(s) + 1, t[i] = t[j] PROVE i = j
    BY <1>4 DEF Different
  <2>1. CASE i \in 1..Len(s) /\ j \in 1..Len(s)
    BY <1>1, <1>4, <2>1 DEF Different
  <2>2. CASE i = Len(s) + 1 /\ j = Len(s) + 1
    BY <2>2
  <2>3. CASE i \in 1..Len(s) /\ j = Len(s) + 1
    BY <1>1, <1>4, <2>3
  <2>4. CASE i = Len(s) + 1 /\ j \in 1..Len(s)
    BY <1>1, <1>4, <2>4
  <2>5. \A m \in 1..Len(s) + 1 : m \in 1..Len(s) \/ m = Len(s) + 1
    BY <1>1
  <2> QED
    BY <2>1, <2>2, <2>3, <2>4, <2>5
<1>6. /\ t \in Lists(S)
      /\ \A i \in 1..Len(t) : t[i] \in ToSet(t)
      /\ \A y \in ToSet(t) : \E i \in 1..Len(t) : y = t[i]
  BY <1>3, <1>5, SeqIs, Zenon
<1>7. ToSet(t) = ToSet(s) \cup {x}
  <2>1. \A m \in 1..Len(t) : m \in 1..Len(s) \/ m = Len(s) + 1
    BY <1>1, <1>4
  <2>2. \A m \in 1..Len(s) : m \in 1..Len(t)
    BY <1>1, <1>4
  <2>3. Len(s) + 1 \in 1..Len(t)
    BY <1>1, <1>4
  <2>4. ASSUME NEW y \in ToSet(t) PROVE y \in ToSet(s) \cup {x}
    <3>1. PICK i \in 1..Len(t) : y = t[i]
      BY <1>6, <2>4, Zenon
    <3> QED
      BY <1>1, <1>4, <2>1, <3>1
  <2>5. ASSUME NEW y \in ToSet(s) PROVE y \in ToSet(t)
    <3>1. PICK i \in 1..Len(s) : y = s[i]
      BY <1>1, <2>5, Zenon
    <3> QED
      BY <1>4, <1>6, <2>2, <3>1
  <2>6. x \in ToSet(t)
    BY <1>4, <1>6, <2>3, Zenon
  <2> QED
    BY <2>4, <2>5, <2>6, Zenon
<1> QED
  BY <1>2, <1>6, <1>7

\* A list cut in two: its parts have different members.
LEMMA PartsOfList ==
    ASSUME NEW S, NEW s \in Lists(S), NEW n \in Nat, n <= Len(s), NEW a \in Seq(S), NEW b \in Seq(S),
           Len(a) = n, \A i \in 1..n : a[i] = s[i],
           Len(b) = Len(s) - n, \A i \in 1..Len(s) - n : b[i] = s[n + i]
    PROVE  /\ a \in Lists(S) /\ b \in Lists(S)
           /\ ToSet(a) \subseteq ToSet(s) /\ ToSet(b) = ToSet(s) \ ToSet(a)
<1>1. /\ s \in Seq(S) /\ Len(s) \in Nat /\ Different(s)
      /\ \A i \in 1..Len(s) : s[i] \in ToSet(s) /\ s[i] \in S
      /\ \A y \in ToSet(s) : \E i \in 1..Len(s) : y = s[i]
  <2>1. s \in Seq(S)
    BY Zenon DEF Lists
  <2> QED
    BY <2>1, SeqIs, Zenon
<1>2. n \in Nat /\ n <= Len(s)
  OBVIOUS
<1>3. a \in Seq(S) /\ Len(a) = n /\ \A i \in 1..n : a[i] = s[i]
  OBVIOUS
<1>4. b \in Seq(S) /\ Len(b) = Len(s) - n /\ \A i \in 1..Len(s) - n : b[i] = s[n + i]
  OBVIOUS
<1>5. Different(a) /\ Different(b)
  <2>1. Different(a)
    BY <1>1, <1>2, <1>3 DEF Different
  <2>2. ASSUME NEW i \in 1..Len(b), NEW j \in 1..Len(b), b[i] = b[j] PROVE i = j
    <3>1. n + i \in 1..Len(s) /\ n + j \in 1..Len(s) /\ i \in Nat /\ j \in Nat
      BY <1>1, <1>2, <1>4
    <3>2. s[n + i] = s[n + j]
      BY <1>4, <2>2
    <3>3. n + i = n + j
      BY <1>1, <3>1, <3>2 DEF Different
    <3> QED
      BY <1>2, <3>1, <3>3
  <2> QED
    BY <2>1, <2>2 DEF Different
<1>6. /\ a \in Lists(S) /\ \A i \in 1..Len(a) : a[i] \in ToSet(a)
      /\ \A y \in ToSet(a) : \E i \in 1..Len(a) : y = a[i]
  BY <1>3, <1>5, SeqIs, Zenon
<1>7. /\ b \in Lists(S) /\ \A i \in 1..Len(b) : b[i] \in ToSet(b)
      /\ \A y \in ToSet(b) : \E i \in 1..Len(b) : y = b[i]
  <2>1. b \in Seq(S) /\ Different(b)
    BY <1>4, <1>5
  <2> QED
    BY <2>1, SeqIs, Zenon
<1>8. ToSet(a) \subseteq ToSet(s)
  <2>1. \A i \in 1..Len(a) : i \in 1..Len(s) /\ a[i] = s[i]
    BY <1>1, <1>2, <1>3
  <2>2. ASSUME NEW y \in ToSet(a) PROVE y \in ToSet(s)
    <3>1. PICK i \in 1..Len(a) : y = a[i]
      BY <1>6, <2>2, Zenon
    <3> QED
      BY <1>1, <2>1, <3>1
  <2> QED
    BY <2>2
<1>9. ASSUME NEW y \in ToSet(b) PROVE y \in ToSet(s) /\ y \notin ToSet(a)
  <2>1. PICK i \in 1..Len(b) : y = b[i]
    BY <1>7, Zenon
  <2>2. n + i \in 1..Len(s) /\ i \in Nat \ {0} /\ y = s[n + i]
    BY <1>1, <1>2, <1>4, <2>1
  <2>3. y \in ToSet(s)
    BY <1>1, <2>2
  <2>4. ASSUME NEW j \in 1..Len(a), y = a[j] PROVE FALSE
    <3>1. j \in 1..Len(s) /\ j <= n /\ s[j] = s[n + i]
      BY <1>1, <1>2, <1>3, <2>2, <2>4
    <3>2. j = n + i
      BY <1>1, <2>2, <3>1 DEF Different
    <3> QED
      BY <1>2, <2>2, <3>1, <3>2
  <2> QED
    BY <1>6, <2>3, <2>4, Zenon
<1>10. ASSUME NEW y \in ToSet(s), y \notin ToSet(a) PROVE y \in ToSet(b)
  <2>1. PICK i \in 1..Len(s) : y = s[i]
    BY <1>1, Zenon
  <2>2. i > n
    <3>1. CASE i <= n
      <4>1. i \in 1..Len(a) /\ a[i] = y
        BY <1>1, <1>2, <1>3, <2>1, <3>1
      <4> QED
        BY <1>6, <1>10, <4>1
    <3> QED
      BY <1>1, <1>2, <3>1
  <2>3. i - n \in 1..Len(s) - n /\ n + (i - n) = i /\ Len(b) = Len(s) - n
    <3>1. i \in Nat /\ i <= Len(s) /\ Len(s) \in Nat /\ Len(b) = Len(s) - n
      BY <1>1, <1>4
    <3> QED
      BY <1>2, <2>2, <3>1
  <2>4. b[i - n] = y
    BY <1>4, <2>1, <2>3
  <2> QED
    BY <1>7, <2>3, <2>4
<1> QED
  BY <1>3, <1>6, <1>7, <1>8, <1>9, <1>10

\* So do the two SubSeqs at a place.
LEMMA ListIsCut ==
    ASSUME NEW S, NEW s \in Lists(S), NEW n \in Nat, n <= Len(s)
    PROVE  /\ SubSeq(s, 1, n) \in Lists(S) /\ SubSeq(s, n + 1, Len(s)) \in Lists(S)
           /\ Len(SubSeq(s, 1, n)) = n
           /\ \A i \in 1..Len(s) - n : SubSeq(s, n + 1, Len(s))[i] = s[n + i]
           /\ Len(SubSeq(s, n + 1, Len(s))) = Len(s) - n
           /\ ToSet(SubSeq(s, 1, n)) \subseteq ToSet(s)
           /\ ToSet(SubSeq(s, n + 1, Len(s))) = ToSet(s) \ ToSet(SubSeq(s, 1, n))
<1> DEFINE a == SubSeq(s, 1, n)
           b == SubSeq(s, n + 1, Len(s))
<1>1. /\ s \in Seq(S) /\ Len(s) \in Nat
      /\ \A i \in 1..Len(s) : s[i] \in S
  <2>1. s \in Seq(S)
    BY Zenon DEF Lists
  <2> QED
    BY <2>1, SeqIs, Zenon
<1>2. n \in Nat /\ n <= Len(s)
  OBVIOUS
<1>3. a \in Seq(S) /\ Len(a) = n /\ \A i \in 1..n : a[i] = s[i]
  <2>1. \A i \in 1..n : s[i] \in S
    BY <1>1
  <2>2. 1 \in Int /\ n \in Int
    BY <1>2
  <2>0. /\ SubSeq(s, 1, n) \in Seq(S) /\ Len(SubSeq(s, 1, n)) = IF 1 <= n THEN n - 1 + 1 ELSE 0
        /\ \A i \in 1..n - 1 + 1 : SubSeq(s, 1, n)[i] = s[1 + i - 1]
    BY <2>1, <2>2, SubSeqProperties, SMTT(30)
  <2>3. /\ a \in Seq(S) /\ Len(a) = IF 1 <= n THEN n - 1 + 1 ELSE 0
        /\ \A i \in 1..n - 1 + 1 : a[i] = s[1 + i - 1]
    BY <2>0, Zenon
  <2>4. n - 1 + 1 = n /\ Len(a) = n /\ \A i \in 1..n : 1 + i - 1 = i
    BY <1>2, <2>3
  <2> QED
    BY <2>3, <2>4
<1>4. b \in Seq(S) /\ Len(b) = Len(s) - n /\ \A i \in 1..Len(s) - n : b[i] = s[n + i]
  <2>1. \A i \in n + 1..Len(s) : s[i] \in S
    BY <1>1, <1>2
  <2>2. n + 1 \in Int /\ Len(s) \in Int
    BY <1>1, <1>2
  <2>0. /\ SubSeq(s, n + 1, Len(s)) \in Seq(S)
        /\ Len(SubSeq(s, n + 1, Len(s))) = IF n + 1 <= Len(s) THEN Len(s) - (n + 1) + 1 ELSE 0
        /\ \A i \in 1..Len(s) - (n + 1) + 1 : SubSeq(s, n + 1, Len(s))[i] = s[n + 1 + i - 1]
    BY <2>1, <2>2, SubSeqProperties, SMTT(30)
  <2>3. /\ b \in Seq(S) /\ Len(b) = IF n + 1 <= Len(s) THEN Len(s) - (n + 1) + 1 ELSE 0
        /\ \A i \in 1..Len(s) - (n + 1) + 1 : b[i] = s[n + 1 + i - 1]
    BY <2>0, Zenon
  <2>4. Len(s) - (n + 1) + 1 = Len(s) - n /\ \A i \in 1..Len(s) - n : n + 1 + i - 1 = n + i
    BY <1>1, <1>2
  <2>5. Len(b) = Len(s) - n
    BY <1>1, <1>2, <2>3
  <2> QED
    BY <2>3, <2>4, <2>5
<1> HIDE DEF a, b
<1>5. a \in Lists(S) /\ b \in Lists(S) /\ ToSet(a) \subseteq ToSet(s) /\ ToSet(b) = ToSet(s) \ ToSet(a)
  BY <1>2, <1>3, <1>4, PartsOfList
<1> QED
  BY <1>3, <1>4, <1>5 DEF a, b

\* Front and Last.
LEMMA ListDropsLast ==
    ASSUME NEW S, NEW s \in Lists(S), s # <<>>
    PROVE  /\ Front(s) \in Lists(S) /\ ToSet(Front(s)) = ToSet(s) \ {Last(s)}
           /\ Last(s) \in ToSet(s) /\ Last(s) \in S
<1>1. /\ s \in Seq(S) /\ Len(s) \in Nat \ {0} /\ Different(s) /\ ToSet(s) \subseteq S
      /\ \A i \in 1..Len(s) : s[i] \in ToSet(s) /\ s[i] \in S
      /\ \A y \in ToSet(s) : \E i \in 1..Len(s) : y = s[i]
  <2>1. s \in Seq(S)
    BY Zenon DEF Lists
  <2>2. Len(s) \in Nat \ {0}
    BY <2>1, EmptySeq
  <2> QED
    BY <2>1, <2>2, SeqIs, Zenon
<1>2. PICK n \in Nat : n = Len(s) - 1 /\ n + 1 = Len(s) /\ n \in 0..Len(s)
  <2>1. Len(s) - 1 \in Nat /\ Len(s) - 1 + 1 = Len(s) /\ Len(s) - 1 \in 0..Len(s)
    BY <1>1
  <2> QED
    BY <2>1
<1>3. PICK b : b = SubSeq(s, n + 1, Len(s))
  OBVIOUS
<1>4. Front(s) = SubSeq(s, 1, n)
  BY <1>2 DEF Front
<1>5. Front(s) \in Lists(S) /\ ToSet(b) = ToSet(s) \ ToSet(Front(s)) /\ ToSet(Front(s)) \subseteq ToSet(s)
  BY <1>2, <1>3, <1>4, ListIsCut
<1>6. ToSet(b) = {Last(s)}
  <2>1. b \in Seq(S) /\ Len(b) = Len(s) - n /\ \A i \in 1..Len(s) - n : b[i] = s[n + i]
    <3>1. b \in Lists(S) /\ Len(b) = Len(s) - n /\ \A i \in 1..Len(s) - n : b[i] = s[n + i]
      BY <1>2, <1>3, ListIsCut
    <3> QED
      BY <3>1 DEF Lists
  <2>3. Len(s) - n = 1 /\ 1 \in 1..1 /\ 1..1 = {1}
    BY <1>1, <1>2
  <2>4. Len(b) = 1 /\ 1..Len(b) = {1}
    BY <2>1, <2>3
  <2>5. b[1] = s[Len(s)]
    BY <1>2, <2>1, <2>3
  <2>6. /\ \A i \in 1..Len(b) : b[i] \in ToSet(b)
        /\ \A y \in ToSet(b) : \E i \in 1..Len(b) : y = b[i]
    BY <2>1, SeqIs, Zenon
  <2> QED
    BY <2>4, <2>5, <2>6 DEF Last
<1>7. Last(s) \in ToSet(s)
  <2>1. Len(s) \in 1..Len(s)
    BY <1>1
  <2> QED
    BY <1>1, <2>1 DEF Last
<1> QED
  BY <1>1, <1>5, <1>6, <1>7

\* Lists with no member in common, joined.
LEMMA ListsJoin ==
    ASSUME NEW S, NEW s \in Lists(S), NEW t \in Lists(S), \A x \in ToSet(s) : x \notin ToSet(t)
    PROVE  s \o t \in Lists(S) /\ ToSet(s \o t) = ToSet(s) \cup ToSet(t) /\ Len(s \o t) = Len(s) + Len(t)
<1>1. /\ s \in Seq(S) /\ Len(s) \in Nat /\ Different(s)
      /\ \A i \in 1..Len(s) : s[i] \in ToSet(s)
      /\ \A y \in ToSet(s) : \E i \in 1..Len(s) : y = s[i]
  <2>1. s \in Seq(S)
    BY Zenon DEF Lists
  <2> QED
    BY <2>1, SeqIs, Zenon
<1>2. /\ t \in Seq(S) /\ Len(t) \in Nat /\ Different(t)
      /\ \A i \in 1..Len(t) : t[i] \in ToSet(t)
      /\ \A y \in ToSet(t) : \E i \in 1..Len(t) : y = t[i]
  <2>1. t \in Seq(S)
    BY Zenon DEF Lists
  <2> QED
    BY <2>1, SeqIs, Zenon
<1>3. PICK u : u = s \o t
  OBVIOUS
<1>4. /\ u \in Seq(S) /\ Len(u) = Len(s) + Len(t)
      /\ \A i \in 1..Len(s) + Len(t) : u[i] = IF i <= Len(s) THEN s[i] ELSE t[i - Len(s)]
  <2>1. /\ s \o t \in Seq(S) /\ Len(s \o t) = Len(s) + Len(t)
        /\ \A i \in 1..Len(s) + Len(t) : (s \o t)[i] = IF i <= Len(s) THEN s[i] ELSE t[i - Len(s)]
    BY <1>1, <1>2, SMTT(30)
  <2> QED
    BY <1>3, <2>1, Zenon
\* A place of the joined list is one of the first or one of the second.
<1>5. ASSUME NEW i \in 1..Len(u)
      PROVE  \/ i \in 1..Len(s) /\ u[i] = s[i] /\ u[i] \in ToSet(s)
             \/ /\ i > Len(s) /\ i - Len(s) \in 1..Len(t)
                /\ u[i] = t[i - Len(s)] /\ u[i] \in ToSet(t)
  <2>1. CASE i <= Len(s)
    <3>1. i \in 1..Len(s) /\ u[i] = s[i]
      BY <1>1, <1>2, <1>4, <2>1
    <3> QED
      BY <1>1, <3>1
  <2>2. CASE i > Len(s)
    <3>1. i - Len(s) \in 1..Len(t) /\ ~(i <= Len(s)) /\ i \in 1..Len(s) + Len(t)
      BY <1>1, <1>2, <1>4, <2>2
    <3>2. u[i] = t[i - Len(s)]
      BY <1>4, <3>1
    <3> QED
      BY <1>2, <2>2, <3>1, <3>2
  <2> QED
    BY <1>1, <2>1, <2>2
<1>6. Different(u)
  <2> SUFFICES ASSUME NEW i \in 1..Len(u), NEW j \in 1..Len(u), u[i] = u[j] PROVE i = j
    BY DEF Different
  <2>1. CASE i \in 1..Len(s) /\ u[i] = s[i] /\ u[i] \in ToSet(s)
    <3>1. j \in 1..Len(s) /\ u[j] = s[j]
      BY <1>5, <2>1
    <3> QED
      BY <1>1, <2>1, <3>1 DEF Different
  <2>2. CASE /\ i > Len(s) /\ i - Len(s) \in 1..Len(t)
             /\ u[i] = t[i - Len(s)] /\ u[i] \in ToSet(t)
    <3>1. j > Len(s) /\ j - Len(s) \in 1..Len(t) /\ u[j] = t[j - Len(s)]
      BY <1>5, <2>2
    <3>2. i - Len(s) = j - Len(s)
      BY <1>2, <2>2, <3>1 DEF Different
    <3>3. i \in Int /\ j \in Int
      OBVIOUS
    <3> QED
      BY <1>1, <3>2, <3>3
  <2> QED
    BY <1>5, <2>1, <2>2
<1>7. /\ u \in Lists(S) /\ \A i \in 1..Len(u) : u[i] \in ToSet(u)
      /\ \A y \in ToSet(u) : \E i \in 1..Len(u) : y = u[i]
  BY <1>4, <1>6, SeqIs, Zenon
<1>8. ToSet(u) \subseteq ToSet(s) \cup ToSet(t)
  BY <1>5, <1>7
<1>9. ASSUME NEW y \in ToSet(s) PROVE y \in ToSet(u)
  <2>1. PICK i \in 1..Len(s) : y = s[i]
    BY <1>1, Zenon
  <2>2. i \in 1..Len(u) /\ i <= Len(s) /\ i \in 1..Len(s) + Len(t)
    BY <1>1, <1>2, <1>4
  <2>3. u[i] = s[i]
    BY <1>4, <2>2
  <2> QED
    BY <1>7, <2>1, <2>2, <2>3
<1>10. ASSUME NEW y \in ToSet(t) PROVE y \in ToSet(u)
  <2>1. PICK i \in 1..Len(t) : y = t[i]
    BY <1>2, Zenon
  <2>2. /\ Len(s) + i \in 1..Len(u) /\ ~(Len(s) + i <= Len(s)) /\ Len(s) + i \in 1..Len(s) + Len(t)
        /\ Len(s) + i - Len(s) = i
    BY <1>1, <1>2, <1>4
  <2>3. u[Len(s) + i] = t[i]
    BY <1>4, <2>2
  <2> QED
    BY <1>7, <2>1, <2>2, <2>3
<1> QED
  BY <1>3, <1>4, <1>7, <1>8, <1>9, <1>10

\* A finite set of numbers has a list in ascending order.
InOrder(s) == \A i, j \in DOMAIN s : i < j => s[i] < s[j]

\* By the smallest set that had none: its least member goes first.
LEMMA AscendingExists ==
    ASSUME NEW S, IsFiniteSet(S), S \subseteq Nat
    PROVE  \E s \in [1..Cardinality(S) -> S] : InOrder(s)
<1> DEFINE bad == {T \in SUBSET S : ~\E s \in [1..Cardinality(T) -> T] : InOrder(s)}
<1>1. ASSUME bad # {} PROVE FALSE
  <2>1. PICK T \in bad : \A U \in bad : Cardinality(T) <= Cardinality(U)
    <3>1. \A U \in bad : IsFiniteSet(U)
      BY FS_Subset
    <3> HIDE DEF bad
    <3> QED
      BY <1>1, <3>1, SmallestSet
  <2>2. T \in SUBSET S /\ IsFiniteSet(T)
    BY <2>1, FS_Subset
  <2>3. ASSUME NEW s \in [1..Cardinality(T) -> T], InOrder(s) PROVE FALSE
    BY <2>1, <2>3, Zenon
  <2>4. T # {}
    <3>1. CASE T = {}
      <4>1. Cardinality(T) = 0
        BY <3>1, FS_EmptySet
      <4>2. PICK s : s = [i \in 1..Cardinality(T) |-> 0]
        OBVIOUS
      <4>3. s \in [1..Cardinality(T) -> T] /\ InOrder(s)
        BY <4>1, <4>2 DEF InOrder
      <4> QED
        BY <2>3, <4>3
    <3> QED
      BY <3>1
  <2>5. PICK m \in T : \A x \in T : m <= x
    BY <2>2, <2>4, NonemptyHasLeast
  <2>6. PICK n \in Nat : n = Cardinality(T \ {m}) /\ Cardinality(T) = n + 1 /\ T \ {m} \in SUBSET S
    <3>1. IsFiniteSet(T \ {m}) /\ Cardinality(T \ {m}) = Cardinality(T) - 1
      BY <2>2, FS_RemoveElement, Zenon
    <3>2. Cardinality(T) \in Nat /\ Cardinality(T \ {m}) \in Nat
      BY <2>2, <3>1, FS_CardinalityType
    <3> QED
      BY <2>2, <3>1, <3>2
  <2>7. T \ {m} \notin bad
    <3> HIDE DEF bad
    <3> QED
      BY <2>1, <2>6
  <2>8. PICK r \in [1..n -> T \ {m}] : InOrder(r)
    BY <2>6, <2>7, Zenon
  <2>9. PICK s : s = [i \in 1..n + 1 |-> IF i = 1 THEN m ELSE r[i - 1]]
    OBVIOUS
  <2>10. \A i \in 1..n + 1 : i # 1 => i - 1 \in 1..n
    OBVIOUS
  <2>11. s \in [1..Cardinality(T) -> T]
    BY <2>6, <2>8, <2>9, <2>10
  <2>12. InOrder(s)
    <3> SUFFICES ASSUME NEW i \in 1..n + 1, NEW j \in 1..n + 1, i < j PROVE s[i] < s[j]
      BY <2>9 DEF InOrder
    <3>1. j # 1 /\ j - 1 \in 1..n /\ s[j] = r[j - 1] /\ r[j - 1] \in T \ {m}
      BY <2>8, <2>9, <2>10
    <3>2. CASE i = 1
      <4>1. s[i] = m /\ m <= r[j - 1] /\ m # r[j - 1] /\ m \in Nat /\ r[j - 1] \in Nat
        BY <2>2, <2>5, <2>9, <3>1, <3>2
      <4> QED
        BY <3>1, <4>1
    <3>3. CASE i # 1
      <4>1. i - 1 \in 1..n /\ s[i] = r[i - 1] /\ i - 1 < j - 1
        BY <2>9, <2>10, <3>3
      <4> QED
        BY <2>8, <3>1, <4>1 DEF InOrder
    <3> QED
      BY <3>2, <3>3
  <2> QED
    BY <2>3, <2>11, <2>12
<1>2. S \notin bad
  BY <1>1, Zenon
<1> QED
  BY <1>2, Zenon

\* Ascending lists the set, each member once.
LEMMA AscendingIs ==
    ASSUME NEW S, IsFiniteSet(S), S \subseteq Nat
    PROVE  /\ Ascending(S) \in Lists(S) /\ ToSet(Ascending(S)) = S
           /\ Len(Ascending(S)) = Cardinality(S) /\ Cardinality(S) \in Nat
<1>1. PICK s : s = Ascending(S)
  OBVIOUS
<1>2. s \in [1..Cardinality(S) -> S] /\ InOrder(s)
  BY <1>1, AscendingExists, Zenon DEF Ascending, InOrder
<1>3. PICK n \in Nat : n = Cardinality(S)
  BY FS_CardinalityType
<1>4. s \in Seq(S) /\ Len(s) = n /\ DOMAIN s = 1..n
  BY <1>2, <1>3
<1>5. \A i, j \in 1..n : s[i] = s[j] => i = j
  <2> SUFFICES ASSUME NEW i \in 1..n, NEW j \in 1..n, s[i] = s[j] PROVE i = j
    OBVIOUS
  <2>1. i \in DOMAIN s /\ j \in DOMAIN s /\ s[i] \in S
    BY <1>2, <1>3, <1>4
  <2>2. i < j => s[i] < s[j]
    BY <1>2, <2>1, Zenon DEF InOrder
  <2>3. j < i => s[j] < s[i]
    BY <1>2, <2>1, Zenon DEF InOrder
  <2>4. s[i] \in Nat
    BY <2>1, Zenon
  <2>5. i \in Int /\ j \in Int
    OBVIOUS
  <2> QED
    BY <2>2, <2>3, <2>4, <2>5
<1>6. ToSet(s) = S
  <2>1. s \in Injection(1..n, S)
    <3>1. s \in [1..n -> S] /\ IsInjective(s)
      BY <1>2, <1>3, <1>4, <1>5 DEF IsInjective
    <3> QED
      BY <3>1, Zenon DEF Injection
  <2>2. IsFiniteSet(1..n) /\ Cardinality(1..n) = n
    BY FS_Interval
  <2>3. s \in Surjection(1..n, S)
    BY <1>3, <2>1, <2>2, FS_Injection, Zenon
  <2> QED
    BY <1>4, <2>3 DEF Surjection, ToSet
<1> QED
  BY <1>1, <1>3, <1>4, <1>5, <1>6 DEF Lists, IsInjective

-----------------------------------------------------------------------------
(* The arena. *)

\* The inductive invariant. The blocks: one given back is NoMemory, and a block is
\* of the standard size unless it is oversized. The lists: where each block is found.
\* What is held lies apart and is counted by its block. The counters are the sums.
EmptyBlock(id) == blocks[id].memory /\ blocks[id].live = 0
HeldIn(id) == {a \in held : a.block = id}
Bytes == [a \in held |-> a.bytes]

BlocksKept ==
    /\ blocks \in Seq(Block)
    /\ \A id \in DOMAIN blocks :
           /\ ~blocks[id].memory => blocks[id] = NoMemory
           /\ blocks[id].memory /\ ~blocks[id].oversized => blocks[id].capacity = BlockBytes
ListsKept ==
    /\ spare \in Lists(DOMAIN blocks) /\ vacant \in Lists(DOMAIN blocks)
    /\ \A id \in DOMAIN blocks :
           /\ id \in ToSet(vacant) <=> ~blocks[id].memory
           /\ id \in ToSet(spare) <=> EmptyBlock(id) /\ ~blocks[id].oversized /\ id # current
           /\ blocks[id].spare <=> id \in ToSet(spare)
    /\ current \in {NoBlock} \cup DOMAIN blocks
    /\ current # NoBlock => blocks[current].memory /\ ~blocks[current].oversized
PayloadsKept ==
    /\ IsFiniteSet(held) /\ held \subseteq Allocation
    /\ PayloadsNeverOverlap
    /\ liveBytes \in Nat /\ liveBytes = Total(Bytes, held)
    /\ \A id \in DOMAIN blocks : blocks[id].live = Cardinality(HeldIn(id))
MemoryCounted ==
    /\ committedBytes \in Nat /\ committedBytes <= LimitBytes
    /\ committedBytes = Total(Capacities, DOMAIN blocks)
    /\ emptyOversized \in Nat /\ emptyOversized = Cardinality(EmptyOversized)
ArenaInvariant == BlocksKept /\ ListsKept /\ PayloadsKept /\ MemoryCounted

\* The invariant is what the runs check, and more.
LEMMA ArenaInvariantImplies == ArenaInvariant => ArenaIsSound
<1> SUFFICES ASSUME ArenaInvariant PROVE ArenaIsSound
  OBVIOUS
<1>1. spare \in Seq(DOMAIN blocks) /\ vacant \in Seq(DOMAIN blocks) /\ IsInjective(spare) /\ IsInjective(vacant)
  BY Zenon DEF ArenaInvariant, ListsKept, Lists
<1>2. ToSet(spare) \subseteq DOMAIN blocks /\ ToSet(vacant) \subseteq DOMAIN blocks
  BY <1>1, SeqIs, Zenon
<1>3. TypeOK
  BY <1>1, Zenon DEF ArenaInvariant, BlocksKept, ListsKept, PayloadsKept, MemoryCounted, TypeOK
<1>4. ToSet(vacant) = {id \in DOMAIN blocks : ~blocks[id].memory}
  BY <1>2, Zenon DEF ArenaInvariant, ListsKept
<1>5. ToSet(spare) = {id \in DOMAIN blocks :
                        (blocks[id].memory /\ blocks[id].live = 0) /\ ~blocks[id].oversized /\ id # current}
  BY <1>2, Zenon DEF ArenaInvariant, ListsKept, EmptyBlock
<1>6. emptyOversized = Cardinality({id \in DOMAIN blocks : (blocks[id].memory /\ blocks[id].live = 0) /\ blocks[id].oversized})
  <2>1. EmptyOversized = {id \in DOMAIN blocks : (blocks[id].memory /\ blocks[id].live = 0) /\ blocks[id].oversized}
    BY Zenon DEF EmptyOversized
  <2> QED
    BY <2>1, Zenon DEF ArenaInvariant, MemoryCounted
<1>7. \A id \in DOMAIN blocks : blocks[id].live = Cardinality({a \in held : a.block = id})
  BY Zenon DEF ArenaInvariant, PayloadsKept, HeldIn
<1>8. liveBytes = Total([a \in held |-> a.bytes], held)
  BY Zenon DEF ArenaInvariant, PayloadsKept, Bytes
<1>9. EveryBlockAccounted
  BY <1>1, <1>3, <1>4, <1>5, <1>6, <1>7, <1>8, Zenon
     DEF ArenaInvariant, EveryBlockAccounted, ListsKept, MemoryCounted
<1> QED
  BY <1>9, Zenon DEF ArenaIsSound, ArenaInvariant, PayloadsKept

\* An arena without blocks.
LEMMA ArenaStarts == Init => ArenaInvariant
<1> SUFFICES ASSUME Init PROVE ArenaInvariant
  OBVIOUS
<1>1. blocks = <<>> /\ spare = <<>> /\ vacant = <<>> /\ held = {} /\ current = 0
      /\ emptyOversized = 0 /\ committedBytes = 0 /\ liveBytes = 0
  BY DEF Init, NoBlock
<1>2. DOMAIN blocks = {} /\ blocks \in Seq(Block)
  BY <1>1
<1>3. BlocksKept
  BY <1>2 DEF BlocksKept
<1>4. spare \in Lists(DOMAIN blocks) /\ vacant \in Lists(DOMAIN blocks)
  <2>1. spare \in Seq({}) /\ vacant \in Seq({}) /\ DOMAIN spare = {} /\ DOMAIN vacant = {}
    BY <1>1
  <2> QED
    BY <1>2, <2>1, Zenon DEF Lists, IsInjective
<1>5. ListsKept
  BY <1>1, <1>2, <1>4, Zenon DEF ListsKept, NoBlock
<1>6. PayloadsKept
  <2>1. IsFiniteSet(held) /\ held \subseteq Allocation /\ PayloadsNeverOverlap
    BY <1>1, FS_EmptySet DEF PayloadsNeverOverlap
  <2>2. liveBytes \in Nat /\ liveBytes = Total(Bytes, held)
    BY <1>1, TotalOfNone
  <2> QED
    BY <1>2, <2>1, <2>2, Zenon DEF PayloadsKept
<1>7. MemoryCounted
  <2>1. EmptyOversized = {}
    BY <1>2 DEF EmptyOversized
  <2>2. Total(Capacities, DOMAIN blocks) = 0 /\ Cardinality(EmptyOversized) = 0
    BY <1>2, <2>1, TotalOfNone, FS_EmptySet
  <2>3. LimitBytes \in Nat
    BY ArenaAssumption
  <2> QED
    BY <1>1, <2>2, <2>3 DEF MemoryCounted
<1> QED
  BY <1>3, <1>5, <1>6, <1>7 DEF ArenaInvariant

\* A payload goes into block id, after those already there.
LEMMA PayloadIsTaken ==
    ASSUME BlocksKept, PayloadsKept, BlocksKept',
           NEW id \in DOMAIN blocks', NEW offset \in Nat, NEW bytes \in Nat \ {0},
           DOMAIN blocks \subseteq DOMAIN blocks',
           \A j \in DOMAIN blocks' : j # id => j \in DOMAIN blocks /\ blocks'[j] = blocks[j],
           \A a \in HeldIn(id) : a.offset + a.bytes <= offset,
           blocks'[id].memory, blocks'[id].used = offset + bytes, offset + bytes <= blocks'[id].capacity,
           blocks'[id].live = Cardinality(HeldIn(id)) + 1,
           held' = held \cup {[block |-> id, offset |-> offset, bytes |-> bytes]},
           liveBytes' = liveBytes + bytes
    PROVE  PayloadsKept'
<1>1. PICK n : n = [block |-> id, offset |-> offset, bytes |-> bytes]
  OBVIOUS
<1>2. n.block = id /\ n.offset = offset /\ n.bytes = bytes /\ held' = held \cup {n} /\ n \in Allocation'
  BY <1>1 DEF Allocation
<1>3. \A a \in held : a.block \in DOMAIN blocks /\ a.offset \in Nat /\ a.bytes \in Nat \ {0}
  BY DEF PayloadsKept, Allocation
<1>4. n \notin held
  <2>1. ASSUME n \in held PROVE FALSE
    <3>1. n.offset + n.bytes <= offset
      BY <1>2, <2>1 DEF HeldIn
    <3> QED
      BY <1>2, <3>1
  <2> QED
    BY <2>1
<1>5. IsFiniteSet(held) /\ IsFiniteSet(held')
  BY <1>2, FS_AddElement DEF PayloadsKept
<1>6. held' \subseteq Allocation'
  <2>1. held \subseteq Allocation'
    BY DEF PayloadsKept, Allocation
  <2> QED
    BY <1>2, <2>1
<1>7. ASSUME NEW a \in held, a.block = id PROVE a.offset + a.bytes <= n.offset
  BY <1>2, <1>7 DEF HeldIn
<1>8. ASSUME NEW a \in held'
      PROVE  /\ blocks'[a.block].memory /\ a.offset + a.bytes <= blocks'[a.block].used
             /\ blocks'[a.block].used <= blocks'[a.block].capacity
  <2>1. CASE a = n
    BY <1>2, <2>1
  <2>2. CASE a \in held /\ a.block # id
    <3>1. a.block \in DOMAIN blocks'
      BY <1>3, <2>2
    <3> QED
      BY <2>2, <3>1 DEF PayloadsKept, PayloadsNeverOverlap
  <2>3. CASE a \in held /\ a.block = id
    <3>1. a.offset + a.bytes <= offset /\ a.offset + a.bytes \in Nat
      BY <1>2, <1>3, <1>7, <2>3
    <3>2. a.offset + a.bytes <= offset + bytes
      BY <3>1
    <3> QED
      BY <2>3, <3>2
  <2> QED
    BY <1>2, <2>1, <2>2, <2>3
<1>9. ASSUME NEW a \in held', NEW b \in held', a # b PROVE Disjoint(a, b)
  <2>1. CASE a \in held /\ b \in held
    BY <1>9, <2>1 DEF PayloadsKept, PayloadsNeverOverlap
  <2>2. CASE a = n /\ b \in held
    BY <1>2, <1>7, <2>2 DEF Disjoint
  <2>3. CASE a \in held /\ b = n
    BY <1>2, <1>7, <2>3 DEF Disjoint
  <2> QED
    BY <1>2, <1>9, <2>1, <2>2, <2>3
<1>10. PayloadsNeverOverlap'
  <2>1. \A a \in held' : /\ blocks'[a.block].memory /\ a.offset + a.bytes <= blocks'[a.block].used
                         /\ blocks'[a.block].used <= blocks'[a.block].capacity
    BY <1>8
  <2>2. \A a, b \in held' : a # b => Disjoint(a, b)
    BY <1>9
  <2> QED
    BY <2>1, <2>2 DEF PayloadsNeverOverlap, Disjoint
<1>11. liveBytes' \in Nat /\ liveBytes' = Total(Bytes', held')
  <2>1. Bytes' = [a \in held' |-> a.bytes]
    BY DEF Bytes
  <2>2. \A a \in held \cup {n} : Bytes'[a] \in Nat
    BY <1>2, <1>3, <2>1
  <2>3. Total(Bytes', held \cup {n}) = Bytes'[n] + Total(Bytes', held)
    BY <1>4, <1>5, <2>2, TotalAdds, Zenon
  <2>4. \A a \in held : Bytes'[a] = Bytes[a]
    BY <1>2, <2>1 DEF Bytes
  <2>5. Total(Bytes', held) = Total(Bytes, held)
    BY <1>5, <2>4, TotalAgrees, Zenon
  <2>6. Bytes'[n] = bytes
    BY <1>2, <2>1
  <2>7. liveBytes \in Nat /\ Total(Bytes, held) = liveBytes
    BY DEF PayloadsKept
  <2>8. Total(Bytes', held') = bytes + liveBytes
    BY <1>2, <2>3, <2>5, <2>6, <2>7, Zenon
  <2>9. bytes + liveBytes = liveBytes + bytes /\ bytes + liveBytes \in Nat
    BY <2>7
  <2> QED
    BY <2>8, <2>9, Zenon
<1>12. ASSUME NEW j \in DOMAIN blocks' PROVE blocks'[j].live = Cardinality(HeldIn(j)')
  <2>1. CASE j # id
    <3>1. HeldIn(j)' = HeldIn(j)
      BY <1>2, <2>1 DEF HeldIn
    <3> QED
      BY <2>1, <3>1 DEF PayloadsKept
  <2>2. CASE j = id
    <3>1. HeldIn(j)' = HeldIn(id) \cup {n} /\ n \notin HeldIn(id) /\ HeldIn(id) \in SUBSET held
      BY <1>2, <1>4, <2>2 DEF HeldIn
    <3>2. IsFiniteSet(HeldIn(id))
      BY <1>5, <3>1, FS_Subset
    <3>3. Cardinality(HeldIn(id) \cup {n}) = Cardinality(HeldIn(id)) + 1
      BY <3>1, <3>2, FS_AddElement
    <3> QED
      BY <2>2, <3>1, <3>3
  <2> QED
    BY <2>1, <2>2
<1> QED
  BY <1>5, <1>6, <1>10, <1>11, <1>12 DEF PayloadsKept

\* The blocks are numbered from 1.
LEMMA Numbered ==
    ASSUME BlocksKept
    PROVE  /\ DOMAIN blocks = 1..Len(blocks) /\ Len(blocks) \in Nat /\ DOMAIN blocks \subseteq Nat
           /\ NoBlock \notin DOMAIN blocks /\ IsFiniteSet(DOMAIN blocks)
           /\ \A id \in DOMAIN blocks :
                  /\ blocks[id] \in Block /\ blocks[id].capacity \in Nat /\ blocks[id].used \in Nat
                  /\ blocks[id].live \in Nat /\ blocks[id].memory \in BOOLEAN
                  /\ blocks[id].oversized \in BOOLEAN /\ blocks[id].spare \in BOOLEAN
<1>1. blocks \in Seq(Block)
  BY DEF BlocksKept
<1>2. DOMAIN blocks = 1..Len(blocks) /\ Len(blocks) \in Nat /\ \A id \in 1..Len(blocks) : blocks[id] \in Block
  BY <1>1
<1>3. IsFiniteSet(1..Len(blocks))
  BY <1>2, FS_Interval
<1> QED
  BY <1>2, <1>3 DEF Block, NoBlock

\* Blocks of the same sizes take the same memory.
LEMMA SameMemory ==
    ASSUME BlocksKept, DOMAIN blocks' = DOMAIN blocks,
           \A id \in DOMAIN blocks : blocks'[id].capacity = blocks[id].capacity
    PROVE  Total(Capacities', DOMAIN blocks') = Total(Capacities, DOMAIN blocks)
<1>1. IsFiniteSet(DOMAIN blocks)
  BY Numbered
<1>2. \A id \in DOMAIN blocks : Capacities'[id] = Capacities[id]
  BY DEF Capacities
<1>3. Total(Capacities', DOMAIN blocks) = Total(Capacities, DOMAIN blocks)
  BY <1>1, <1>2, TotalAgrees, Zenon
<1> QED
  BY <1>3

\* One more payload in a standard block.
LEMMA CarveKeeps ==
    ASSUME ArenaInvariant, NEW id \in DOMAIN blocks, NEW offset \in Nat, NEW bytes \in Nat \ {0},
           blocks[id].memory, ~blocks[id].oversized, offset + bytes <= BlockBytes,
           \A a \in HeldIn(id) : a.offset + a.bytes <= offset,
           Carve(id, offset, bytes)
    PROVE  /\ BlocksKept' /\ PayloadsKept' /\ MemoryCounted'
           /\ DOMAIN blocks' = DOMAIN blocks
           /\ \A j \in DOMAIN blocks : j # id => blocks'[j] = blocks[j]
           /\ blocks'[id].memory /\ ~blocks'[id].oversized /\ ~blocks'[id].spare
           /\ blocks'[id].live \in Nat /\ blocks'[id].live > 0
<1>0. BlocksKept /\ PayloadsKept /\ MemoryCounted
  BY DEF ArenaInvariant
<1>1. PICK b : b = [blocks[id] EXCEPT !.used = offset + bytes, !.live = blocks[id].live + 1, !.spare = FALSE]
  OBVIOUS
<1>2. blocks' = [blocks EXCEPT ![id] = b]
  <2>1. blocks' = [blocks EXCEPT ![id] = [blocks[id] EXCEPT !.used = offset + bytes, !.live = @ + 1, !.spare = FALSE]]
    BY DEF Carve
  <2>2. [blocks[id] EXCEPT !.used = offset + bytes, !.live = @ + 1, !.spare = FALSE] = b
    BY <1>1
  <2> QED
    BY <2>1, <2>2
<1>3. blocks[id] \in Block /\ blocks[id].live \in Nat
  BY <1>0, Numbered
<1>4. b \in Block
  <2>1. offset + bytes \in Nat /\ blocks[id].live + 1 \in Nat
    BY <1>3
  <2>2. PICK u \in Nat, l \in Nat : u = offset + bytes /\ l = blocks[id].live + 1
    BY <2>1
  <2>3. b = [blocks[id] EXCEPT !.used = u, !.live = l, !.spare = FALSE]
    BY <1>1, <2>2
  <2> QED
    BY <1>3, <2>3 DEF Block
<1>5. /\ b.memory /\ ~b.oversized /\ ~b.spare /\ b.live = blocks[id].live + 1
      /\ b.used = offset + bytes /\ b.capacity = blocks[id].capacity
  BY <1>1, <1>3 DEF Block
<1>6. blocks' \in Seq(Block) /\ DOMAIN blocks' = DOMAIN blocks
  <2>1. blocks \in Seq(Block)
    BY <1>0 DEF BlocksKept
  <2> QED
    BY <1>2, <1>4, <2>1
<1>7. blocks'[id] = b /\ \A j \in DOMAIN blocks : j # id => blocks'[j] = blocks[j]
  BY <1>2
<1>8. b.capacity = BlockBytes
  BY <1>0, <1>5 DEF BlocksKept
<1>9. BlocksKept'
  BY <1>0, <1>5, <1>6, <1>7, <1>8 DEF BlocksKept
<1>10. PayloadsKept'
  <2>1. blocks[id].live = Cardinality(HeldIn(id))
    BY <1>0 DEF PayloadsKept
  <2>2. /\ blocks'[id].memory /\ blocks'[id].used = offset + bytes /\ offset + bytes <= blocks'[id].capacity
        /\ blocks'[id].live = Cardinality(HeldIn(id)) + 1
    BY <1>5, <1>7, <1>8, <2>1
  <2>3. /\ held' = held \cup {[block |-> id, offset |-> offset, bytes |-> bytes]}
        /\ liveBytes' = liveBytes + bytes
    BY DEF Carve
  <2> QED
    BY <1>0, <1>6, <1>7, <1>9, <2>2, <2>3, PayloadIsTaken
<1>11. MemoryCounted'
  <2>1. Total(Capacities', DOMAIN blocks') = Total(Capacities, DOMAIN blocks)
    <3>1. \A j \in DOMAIN blocks : blocks'[j].capacity = blocks[j].capacity
      BY <1>5, <1>7
    <3> QED
      BY <1>0, <1>6, <3>1, SameMemory
  <2>2. EmptyOversized' = EmptyOversized
    BY <1>5, <1>6, <1>7 DEF EmptyOversized
  <2>3. committedBytes' = committedBytes /\ emptyOversized' = emptyOversized
    BY DEF Carve
  <2> QED
    BY <1>0, <2>1, <2>2, <2>3 DEF MemoryCounted
<1> QED
  BY <1>3, <1>5, <1>6, <1>7, <1>9, <1>10, <1>11

\* In the current block, after what it holds.
LEMMA AllocateInCurrentKeeps ==
    ASSUME ArenaInvariant, NEW bytes \in Sizes, AllocateInCurrent(bytes)
    PROVE  ArenaInvariant'
<1>0. BlocksKept /\ PayloadsKept /\ MemoryCounted /\ ListsKept
  BY DEF ArenaInvariant
<1>1. PICK id \in DOMAIN blocks : id = current /\ blocks[id].memory /\ ~blocks[id].oversized
  <2>1. current # NoBlock
    BY DEF AllocateInCurrent, FitsCurrent
  <2> QED
    BY <1>0, <2>1 DEF ListsKept
<1>2. blocks[id].used \in Nat /\ blocks[id].used + bytes <= blocks[id].capacity /\ blocks[id].capacity = BlockBytes
  BY <1>0, <1>1, Numbered DEF AllocateInCurrent, FitsCurrent, BlocksKept
<1>3. bytes \in Nat \ {0}
  BY ArenaAssumption
<1>4. Carve(id, blocks[id].used, bytes) /\ spare' = spare
  BY <1>1 DEF AllocateInCurrent
<1>5. \A a \in HeldIn(id) : a.offset + a.bytes <= blocks[id].used
  BY <1>0 DEF PayloadsKept, PayloadsNeverOverlap, HeldIn
<1>6. /\ BlocksKept' /\ PayloadsKept' /\ MemoryCounted'
      /\ DOMAIN blocks' = DOMAIN blocks
      /\ \A j \in DOMAIN blocks : j # id => blocks'[j] = blocks[j]
      /\ blocks'[id].memory /\ ~blocks'[id].oversized /\ ~blocks'[id].spare
      /\ blocks'[id].live \in Nat /\ blocks'[id].live > 0
  BY <1>1, <1>2, <1>3, <1>4, <1>5, CarveKeeps
<1>7. ListsKept'
  <2>1. vacant' = vacant /\ current' = id
    BY <1>4 DEF Carve
  <2>2. ASSUME NEW j \in DOMAIN blocks
        PROVE  /\ j \in ToSet(vacant) <=> ~blocks'[j].memory
               /\ j \in ToSet(spare) <=> blocks'[j].memory /\ blocks'[j].live = 0 /\ ~blocks'[j].oversized /\ j # id
               /\ blocks'[j].spare <=> j \in ToSet(spare)
    <3>1. CASE j # id
      BY <1>0, <1>1, <1>6, <3>1 DEF ListsKept, EmptyBlock
    <3>2. CASE j = id
      BY <1>0, <1>1, <1>6, <3>2 DEF ListsKept, EmptyBlock
    <3> QED
      BY <3>1, <3>2
  <2> QED
    BY <1>0, <1>4, <1>6, <2>1, <2>2 DEF ListsKept, EmptyBlock
<1> QED
  BY <1>6, <1>7 DEF ArenaInvariant

\* A block whose count is zero holds nothing.
LEMMA NothingHeldIn ==
    ASSUME PayloadsKept, NEW id \in DOMAIN blocks, blocks[id].live = 0
    PROVE  HeldIn(id) = {}
<1>1. HeldIn(id) \in SUBSET held
  BY DEF HeldIn
<1>2. IsFiniteSet(HeldIn(id))
  BY <1>1, FS_Subset DEF PayloadsKept
<1>3. Cardinality(HeldIn(id)) = 0
  BY DEF PayloadsKept
<1> QED
  BY <1>2, <1>3, FS_EmptySet

\* In an empty block: the current one, or the last spare.
LEMMA AllocateInSpareKeeps ==
    ASSUME ArenaInvariant, NEW bytes \in Sizes, AllocateInSpare(bytes)
    PROVE  ArenaInvariant'
<1>0. BlocksKept /\ PayloadsKept /\ MemoryCounted /\ ListsKept
  BY DEF ArenaInvariant
<1>1. bytes \in Nat \ {0} /\ bytes <= BlockBytes
  BY ArenaAssumption DEF AllocateInSpare
<1>2. ASSUME NEW id \in DOMAIN blocks, EmptyBlock(id), ~blocks[id].oversized, Carve(id, 0, bytes)
      PROVE  /\ BlocksKept' /\ PayloadsKept' /\ MemoryCounted'
             /\ DOMAIN blocks' = DOMAIN blocks
             /\ \A j \in DOMAIN blocks : j # id => blocks'[j] = blocks[j]
             /\ blocks'[id].memory /\ ~blocks'[id].oversized /\ ~blocks'[id].spare
             /\ blocks'[id].live \in Nat /\ blocks'[id].live > 0
  <2>1. HeldIn(id) = {}
    BY <1>0, <1>2, NothingHeldIn DEF EmptyBlock
  <2>2. \A a \in HeldIn(id) : a.offset + a.bytes <= 0
    BY <2>1
  <2>3. 0 + bytes <= BlockBytes /\ 0 \in Nat
    BY <1>1
  <2>4. blocks[id].memory
    BY <1>2 DEF EmptyBlock
  <2> QED
    BY <1>1, <1>2, <2>2, <2>3, <2>4, CarveKeeps
<1>3. CASE CurrentEmpty /\ Carve(current, 0, bytes) /\ spare' = spare
  <2>1. PICK id \in DOMAIN blocks : id = current /\ EmptyBlock(id) /\ ~blocks[id].oversized
    BY <1>0, <1>3 DEF CurrentEmpty, ListsKept, EmptyBlock
  <2>2. Carve(id, 0, bytes)
    BY <1>3, <2>1
  <2>3. /\ BlocksKept' /\ PayloadsKept' /\ MemoryCounted'
        /\ DOMAIN blocks' = DOMAIN blocks
        /\ \A j \in DOMAIN blocks : j # id => blocks'[j] = blocks[j]
        /\ blocks'[id].memory /\ ~blocks'[id].oversized /\ ~blocks'[id].spare
        /\ blocks'[id].live \in Nat /\ blocks'[id].live > 0
    BY <1>2, <2>1, <2>2
  <2>4. vacant' = vacant /\ current' = id
    BY <2>2 DEF Carve
  <2>5. ASSUME NEW j \in DOMAIN blocks
        PROVE  /\ j \in ToSet(vacant) <=> ~blocks'[j].memory
               /\ j \in ToSet(spare) <=> blocks'[j].memory /\ blocks'[j].live = 0 /\ ~blocks'[j].oversized /\ j # id
               /\ blocks'[j].spare <=> j \in ToSet(spare)
    <3>1. CASE j # id
      BY <1>0, <2>1, <2>3, <3>1 DEF ListsKept, EmptyBlock
    <3>2. CASE j = id
      BY <1>0, <2>1, <2>3, <3>2 DEF ListsKept, EmptyBlock
    <3> QED
      BY <3>1, <3>2
  <2>6. ListsKept'
    BY <1>0, <1>3, <2>3, <2>4, <2>5 DEF ListsKept, EmptyBlock
  <2> QED
    BY <2>3, <2>6 DEF ArenaInvariant
<1>4. CASE ~CurrentEmpty /\ spare # <<>> /\ Carve(Last(spare), 0, bytes) /\ spare' = Front(spare)
  <2>1. /\ spare' \in Lists(DOMAIN blocks) /\ ToSet(spare') = ToSet(spare) \ {Last(spare)}
        /\ Last(spare) \in ToSet(spare) /\ Last(spare) \in DOMAIN blocks
    BY <1>0, <1>4, ListDropsLast, Zenon DEF ListsKept
  <2>2. PICK id \in DOMAIN blocks : id = Last(spare) /\ EmptyBlock(id) /\ ~blocks[id].oversized /\ id # current
    BY <1>0, <2>1, Zenon DEF ListsKept
  <2>3. Carve(id, 0, bytes)
    BY <1>4, <2>2
  <2>4. /\ BlocksKept' /\ PayloadsKept' /\ MemoryCounted'
        /\ DOMAIN blocks' = DOMAIN blocks
        /\ \A j \in DOMAIN blocks : j # id => blocks'[j] = blocks[j]
        /\ blocks'[id].memory /\ ~blocks'[id].oversized /\ ~blocks'[id].spare
        /\ blocks'[id].live \in Nat /\ blocks'[id].live > 0
    BY <1>2, <2>2, <2>3
  <2>5. vacant' = vacant /\ current' = id
    BY <2>3 DEF Carve
  <2>6. ASSUME NEW j \in DOMAIN blocks
        PROVE  /\ j \in ToSet(vacant) <=> ~blocks'[j].memory
               /\ j \in ToSet(spare') <=> blocks'[j].memory /\ blocks'[j].live = 0 /\ ~blocks'[j].oversized /\ j # id
               /\ blocks'[j].spare <=> j \in ToSet(spare')
    <3>1. CASE j # id /\ j # current
      BY <1>0, <2>1, <2>2, <2>4, <3>1 DEF ListsKept, EmptyBlock
    <3>2. CASE j = id
      BY <1>0, <2>1, <2>2, <2>4, <3>2 DEF ListsKept, EmptyBlock
    <3>3. CASE j # id /\ j = current
      <4>1. blocks[j].live # 0
        <5>1. current # NoBlock
          BY <1>0, <3>3, Numbered
        <5> QED
          BY <1>4, <3>3, <5>1 DEF CurrentEmpty
      <4> QED
        BY <1>0, <2>1, <2>2, <2>4, <3>3, <4>1 DEF ListsKept, EmptyBlock
    <3> QED
      BY <3>1, <3>2, <3>3
  <2>7. ListsKept'
    BY <1>0, <2>1, <2>4, <2>5, <2>6 DEF ListsKept, EmptyBlock
  <2> QED
    BY <2>4, <2>7 DEF ArenaInvariant
<1> QED
  BY <1>3, <1>4 DEF AllocateInSpare

\* A list of members of a set is one of a larger set.
LEMMA ListsGrow ==
    ASSUME NEW S, NEW T, S \subseteq T, NEW s \in Lists(S)
    PROVE  s \in Lists(T)
<1>1. s \in Seq(S) /\ IsInjective(s)
  BY Zenon DEF Lists
<1>2. s \in Seq(T)
  BY <1>1, SeqMonotonic, Zenon
<1> QED
  BY <1>1, <1>2, Zenon DEF Lists

\* Where a new block goes: at the end, or in place of one given back.
Placed(b, id) ==
    IF vacant = <<>> THEN blocks' = Append(blocks, b) /\ vacant' = vacant
    ELSE blocks' = [blocks EXCEPT ![id] = b] /\ vacant' = Front(vacant)

LEMMA NewBlockGoes ==
    ASSUME ArenaInvariant, NEW b \in Block, NEW id, id = NewId, Placed(b, id)
    PROVE  /\ blocks' \in Seq(Block) /\ DOMAIN blocks' = DOMAIN blocks \cup {id} /\ blocks'[id] = b
           /\ \A j \in DOMAIN blocks : j # id => blocks'[j] = blocks[j]
           /\ (id \in DOMAIN blocks => blocks[id] = NoMemory) /\ id # NoBlock
           /\ vacant' \in Lists(DOMAIN blocks') /\ id \notin ToSet(vacant')
           /\ \A j \in DOMAIN blocks : j # id => (j \in ToSet(vacant') <=> j \in ToSet(vacant))
<1>0. BlocksKept /\ ListsKept
  BY DEF ArenaInvariant
<1>1. blocks \in Seq(Block) /\ DOMAIN blocks = 1..Len(blocks) /\ Len(blocks) \in Nat
  BY <1>0, Numbered DEF BlocksKept
<1>2. vacant \in Lists(DOMAIN blocks) /\ vacant \in Seq(DOMAIN blocks) /\ ToSet(vacant) \subseteq DOMAIN blocks
  <2>1. vacant \in Lists(DOMAIN blocks) /\ vacant \in Seq(DOMAIN blocks)
    BY <1>0 DEF ListsKept, Lists
  <2> QED
    BY <2>1, SeqIs, Zenon
<1>3. CASE vacant = <<>>
  <2>1. id = Len(blocks) + 1 /\ vacant' = vacant
    BY <1>3 DEF NewId, Placed
  <2>2. PICK f : f = Append(blocks, b)
    OBVIOUS
  <2>3. f \in Seq(Block) /\ Len(f) = Len(blocks) + 1
    BY <1>1, <2>2
  <2>4. DOMAIN f = 1..Len(blocks) + 1 /\ f[Len(blocks) + 1] = b /\ \A j \in 1..Len(blocks) : f[j] = blocks[j]
    BY <1>1, <2>2
  <2>5. blocks' = f
    BY <1>3, <2>2 DEF Placed
  <2>6. id \notin DOMAIN blocks /\ DOMAIN f = DOMAIN blocks \cup {id} /\ id # NoBlock
    BY <1>1, <2>1, <2>4 DEF NoBlock
  <2>7. vacant' \in Lists(DOMAIN blocks')
    BY <1>2, <2>1, <2>5, <2>6, ListsGrow
  <2> QED
    BY <1>1, <1>2, <2>1, <2>3, <2>4, <2>5, <2>6, <2>7
<1>4. CASE vacant # <<>>
  <2>1. id = Last(vacant) /\ vacant' = Front(vacant) /\ blocks' = [blocks EXCEPT ![id] = b]
    BY <1>4 DEF NewId, Placed
  <2>2. /\ vacant' \in Lists(DOMAIN blocks) /\ ToSet(vacant') = ToSet(vacant) \ {id}
        /\ id \in ToSet(vacant) /\ id \in DOMAIN blocks
    <3>1. /\ Front(vacant) \in Lists(DOMAIN blocks) /\ ToSet(Front(vacant)) = ToSet(vacant) \ {Last(vacant)}
          /\ Last(vacant) \in ToSet(vacant) /\ Last(vacant) \in DOMAIN blocks
      BY <1>2, <1>4, ListDropsLast, Zenon
    <3> QED
      BY <2>1, <3>1
  <2>3. blocks' \in Seq(Block) /\ DOMAIN blocks' = DOMAIN blocks
    <3>1. id \in 1..Len(blocks) /\ blocks \in Seq(Block)
      BY <1>1, <2>2
    <3>2. [blocks EXCEPT ![id] = b] \in Seq(Block)
      BY <3>1, ExceptSeq, Zenon
    <3> QED
      BY <2>1, <3>2
  <2>4. blocks'[id] = b /\ \A j \in DOMAIN blocks : j # id => blocks'[j] = blocks[j]
    BY <2>1, <2>2
  <2>5. blocks[id] = NoMemory /\ id # NoBlock
    BY <1>0, <2>2, Numbered DEF ListsKept, BlocksKept
  <2> QED
    BY <2>2, <2>3, <2>4, <2>5
<1> QED
  BY <1>3, <1>4

\* A block from the system, with its first payload.
LEMMA NewBlockKeeps ==
    ASSUME ArenaInvariant, NEW capacity \in Nat, NEW bytes \in Nat \ {0}, bytes <= capacity,
           NEW oversized \in BOOLEAN, ~oversized => capacity = BlockBytes,
           NewBlock(capacity, bytes, oversized), emptyOversized' = emptyOversized
    PROVE  /\ BlocksKept' /\ PayloadsKept' /\ MemoryCounted'
           /\ DOMAIN blocks' = DOMAIN blocks \cup {NewId}
           /\ \A j \in DOMAIN blocks : j # NewId => blocks'[j] = blocks[j]
           /\ (NewId \in DOMAIN blocks => blocks[NewId] = NoMemory) /\ NewId # NoBlock
           /\ blocks'[NewId].memory /\ (blocks'[NewId].oversized <=> oversized) /\ ~blocks'[NewId].spare
           /\ blocks'[NewId].live = 1
           /\ vacant' \in Lists(DOMAIN blocks') /\ NewId \notin ToSet(vacant')
           /\ \A j \in DOMAIN blocks : j # NewId => (j \in ToSet(vacant') <=> j \in ToSet(vacant))
<1>0. BlocksKept /\ PayloadsKept /\ MemoryCounted /\ ListsKept
  BY DEF ArenaInvariant
<1>1. PICK b : b = [memory |-> TRUE, capacity |-> capacity, used |-> bytes, live |-> 1,
                    oversized |-> oversized, spare |-> FALSE]
  OBVIOUS
<1>2. b \in Block /\ b.memory /\ b.capacity = capacity /\ b.used = bytes /\ b.live = 1
      /\ b.oversized = oversized /\ ~b.spare
  BY <1>1 DEF Block
<1>3. PICK id : id = NewId
  OBVIOUS
<1>4. Placed(b, id)
  BY <1>1, <1>3, Zenon DEF NewBlock, Placed
<1>5. /\ blocks' \in Seq(Block) /\ DOMAIN blocks' = DOMAIN blocks \cup {id} /\ blocks'[id] = b
      /\ \A j \in DOMAIN blocks : j # id => blocks'[j] = blocks[j]
      /\ (id \in DOMAIN blocks => blocks[id] = NoMemory) /\ id # NoBlock
      /\ vacant' \in Lists(DOMAIN blocks') /\ id \notin ToSet(vacant')
      /\ \A j \in DOMAIN blocks : j # id => (j \in ToSet(vacant') <=> j \in ToSet(vacant))
  <2>1. b \in Block
    BY <1>2, Zenon
  <2> QED
    BY <1>3, <1>4, <2>1, NewBlockGoes, Zenon
<1>6. BlocksKept'
  BY <1>0, <1>2, <1>5 DEF BlocksKept
<1>7. HeldIn(id) = {}
  <2>1. CASE id \in DOMAIN blocks
    <3>1. blocks[id].live = 0
      BY <1>5, <2>1 DEF NoMemory
    <3> QED
      BY <1>0, <2>1, <3>1, NothingHeldIn
  <2>2. CASE id \notin DOMAIN blocks
    BY <1>0, <2>2 DEF PayloadsKept, Allocation, HeldIn
  <2> QED
    BY <2>1, <2>2
<1>8. PayloadsKept'
  <2>1. Cardinality(HeldIn(id)) = 0
    BY <1>7, FS_EmptySet
  <2>2. /\ blocks'[id].memory /\ blocks'[id].used = 0 + bytes /\ 0 + bytes <= blocks'[id].capacity
        /\ blocks'[id].live = Cardinality(HeldIn(id)) + 1 /\ 0 \in Nat
    BY <1>2, <1>5, <2>1
  <2>3. /\ held' = held \cup {[block |-> id, offset |-> 0, bytes |-> bytes]}
        /\ liveBytes' = liveBytes + bytes
    BY <1>3 DEF NewBlock
  <2>4. \A a \in HeldIn(id) : a.offset + a.bytes <= 0
    BY <1>7
  <2>5. /\ id \in DOMAIN blocks' /\ DOMAIN blocks \subseteq DOMAIN blocks'
        /\ \A j \in DOMAIN blocks' : j # id => j \in DOMAIN blocks /\ blocks'[j] = blocks[j]
    BY <1>5
  <2> QED
    BY <1>0, <1>6, <2>2, <2>3, <2>4, <2>5, PayloadIsTaken
<1>9. Total(Capacities', DOMAIN blocks') = Total(Capacities, DOMAIN blocks) + capacity
  <2>1. IsFiniteSet(DOMAIN blocks) /\ IsFiniteSet(DOMAIN blocks \ {id})
    <3>1. IsFiniteSet(DOMAIN blocks)
      BY <1>0, Numbered
    <3> QED
      BY <3>1, FS_RemoveElement, Zenon
  <2>2. \A j \in (DOMAIN blocks \ {id}) \cup {id} : Capacities'[j] \in Nat
    <3>1. \A j \in DOMAIN blocks' : blocks'[j].capacity \in Nat
      <4>0. blocks' \in Seq(Block)
        BY <1>5
      <4>1. \A j \in DOMAIN blocks' : blocks'[j] \in Block
        BY <4>0
      <4> QED
        BY <4>1 DEF Block
    <3>2. \A j \in DOMAIN blocks' : Capacities'[j] = blocks'[j].capacity
      BY DEF Capacities
    <3> QED
      BY <1>5, <3>1, <3>2
  <2>3. Total(Capacities', (DOMAIN blocks \ {id}) \cup {id}) = Capacities'[id] + Total(Capacities', DOMAIN blocks \ {id})
    BY <2>1, <2>2, TotalAdds, Zenon
  <2>4. (DOMAIN blocks \ {id}) \cup {id} = DOMAIN blocks' /\ Capacities'[id] = capacity
    BY <1>2, <1>5 DEF Capacities
  <2>5. \A j \in DOMAIN blocks \ {id} : Capacities'[j] = Capacities[j]
    BY <1>5 DEF Capacities
  <2>6. Total(Capacities', DOMAIN blocks \ {id}) = Total(Capacities, DOMAIN blocks \ {id})
    BY <2>1, <2>5, TotalAgrees, Zenon
  <2>7. \A j \in DOMAIN blocks : Capacities[j] \in Nat
    BY <1>0, Numbered DEF Capacities
  <2>8. Total(Capacities, DOMAIN blocks \ {id}) = Total(Capacities, DOMAIN blocks)
    <3>1. CASE id \in DOMAIN blocks
      <4>1. Capacities[id] = 0
        BY <1>5, <3>1 DEF Capacities, NoMemory
      <4>2. Total(Capacities, DOMAIN blocks) = Capacities[id] + Total(Capacities, DOMAIN blocks \ {id})
        <5>1. DOMAIN blocks \in SUBSET DOMAIN blocks
          OBVIOUS
        <5>2. \A T \in SUBSET DOMAIN blocks : \A x \in T :
                  Total(Capacities, T) = Capacities[x] + Total(Capacities, T \ {x})
          BY <2>1, <2>7, TotalTakes, Zenon
        <5> QED
          BY <3>1, <5>1, <5>2, Zenon
      <4>3. Total(Capacities, DOMAIN blocks \ {id}) \in Nat
        BY <2>1, <2>7, TotalIsNat
      <4> QED
        BY <4>1, <4>2, <4>3
    <3>2. CASE id \notin DOMAIN blocks
      <4>1. DOMAIN blocks \ {id} = DOMAIN blocks
        BY <3>2
      <4> QED
        BY <4>1, Zenon
    <3> QED
      BY <3>1, <3>2
  <2>9. Total(Capacities, DOMAIN blocks) \in Nat
    BY <1>0 DEF MemoryCounted
  <2> QED
    BY <2>3, <2>4, <2>6, <2>8, <2>9
<1>10. MemoryCounted'
  <2>1. EmptyOversized' = EmptyOversized
    <3>1. id \notin EmptyOversized
      BY <1>5 DEF EmptyOversized, NoMemory
    <3> QED
      BY <1>2, <1>5, <3>1 DEF EmptyOversized
  <2>2. committedBytes' = committedBytes + capacity /\ committedBytes + capacity <= LimitBytes
    BY DEF NewBlock, RoomFor
  <2>3. committedBytes' = Total(Capacities', DOMAIN blocks')
    BY <1>0, <1>9, <2>2 DEF MemoryCounted
  <2> QED
    BY <1>0, <2>1, <2>2, <2>3 DEF MemoryCounted
<1> QED
  BY <1>2, <1>3, <1>5, <1>6, <1>8, <1>10

\* A payload with a block of its own.
LEMMA AllocateOversizedKeeps ==
    ASSUME ArenaInvariant, NEW bytes \in Sizes, AllocateOversized(bytes)
    PROVE  ArenaInvariant'
<1>0. BlocksKept /\ PayloadsKept /\ MemoryCounted /\ ListsKept
  BY DEF ArenaInvariant
<1>1. bytes \in Nat \ {0} /\ bytes <= bytes /\ bytes \in Nat
  BY ArenaAssumption
<1>2. PICK id : id = NewId
  OBVIOUS
<1>3. /\ BlocksKept' /\ PayloadsKept' /\ MemoryCounted'
      /\ DOMAIN blocks' = DOMAIN blocks \cup {id}
      /\ \A j \in DOMAIN blocks : j # id => blocks'[j] = blocks[j]
      /\ (id \in DOMAIN blocks => blocks[id] = NoMemory) /\ id # NoBlock
      /\ blocks'[id].memory /\ blocks'[id].oversized /\ ~blocks'[id].spare
      /\ blocks'[id].live = 1
      /\ vacant' \in Lists(DOMAIN blocks') /\ id \notin ToSet(vacant')
      /\ \A j \in DOMAIN blocks : j # id => (j \in ToSet(vacant') <=> j \in ToSet(vacant))
  BY <1>1, <1>2, NewBlockKeeps DEF AllocateOversized
<1>4. spare' = spare /\ current' = current
  BY DEF AllocateOversized
<1>5. id \notin ToSet(spare) /\ current # id
  <2>1. ToSet(spare) \subseteq DOMAIN blocks
    BY <1>0, SeqIs DEF ListsKept, Lists
  <2>2. CASE id \in DOMAIN blocks
    <3>1. ~blocks[id].memory
      BY <1>3, <2>2 DEF NoMemory
    <3> QED
      BY <1>0, <1>3, <2>2, <3>1 DEF ListsKept, EmptyBlock
  <2>3. CASE id \notin DOMAIN blocks
    BY <1>0, <1>3, <2>1, <2>3 DEF ListsKept
  <2> QED
    BY <2>2, <2>3
<1>6. ASSUME NEW j \in DOMAIN blocks'
      PROVE  /\ j \in ToSet(vacant') <=> ~blocks'[j].memory
             /\ j \in ToSet(spare) <=> blocks'[j].memory /\ blocks'[j].live = 0 /\ ~blocks'[j].oversized /\ j # current
             /\ blocks'[j].spare <=> j \in ToSet(spare)
  <2>1. CASE j # id
    BY <1>0, <1>3, <2>1 DEF ListsKept, EmptyBlock
  <2>2. CASE j = id
    BY <1>3, <1>5, <2>2
  <2> QED
    BY <2>1, <2>2
<1>7. spare' \in Lists(DOMAIN blocks')
  BY <1>0, <1>3, <1>4, ListsGrow DEF ListsKept
<1>8. current' \in {NoBlock} \cup DOMAIN blocks' /\ (current' # NoBlock => blocks'[current'].memory /\ ~blocks'[current'].oversized)
  BY <1>0, <1>3, <1>4, <1>5 DEF ListsKept
<1>9. ListsKept'
  BY <1>3, <1>4, <1>6, <1>7, <1>8 DEF ListsKept, EmptyBlock
<1> QED
  BY <1>3, <1>9 DEF ArenaInvariant

\* A current block that is left behind has payloads, so that it is no spare.
LEMMA LeftBehind ==
    ASSUME ArenaInvariant, ~CurrentEmpty, NEW j \in DOMAIN blocks
    PROVE  j \in ToSet(spare) <=> EmptyBlock(j) /\ ~blocks[j].oversized
<1>1. j = current => j # NoBlock
  BY Numbered DEF ArenaInvariant
<1> QED
  BY <1>1 DEF ArenaInvariant, ListsKept, CurrentEmpty, EmptyBlock

\* A payload in a new current block.
LEMMA AllocateInNewBlockKeeps ==
    ASSUME ArenaInvariant, NEW bytes \in Sizes, AllocateInNewBlock(bytes)
    PROVE  ArenaInvariant'
<1>0. BlocksKept /\ PayloadsKept /\ MemoryCounted /\ ListsKept
  BY DEF ArenaInvariant
<1>1. bytes \in Nat \ {0} /\ bytes <= BlockBytes /\ BlockBytes \in Nat
  BY ArenaAssumption DEF AllocateInNewBlock
<1>2. PICK id : id = NewId
  OBVIOUS
<1>3. /\ BlocksKept' /\ PayloadsKept' /\ MemoryCounted'
      /\ DOMAIN blocks' = DOMAIN blocks \cup {id}
      /\ \A j \in DOMAIN blocks : j # id => blocks'[j] = blocks[j]
      /\ (id \in DOMAIN blocks => blocks[id] = NoMemory) /\ id # NoBlock
      /\ blocks'[id].memory /\ ~blocks'[id].oversized /\ ~blocks'[id].spare
      /\ blocks'[id].live = 1
      /\ vacant' \in Lists(DOMAIN blocks') /\ id \notin ToSet(vacant')
      /\ \A j \in DOMAIN blocks : j # id => (j \in ToSet(vacant') <=> j \in ToSet(vacant))
  BY <1>1, <1>2, NewBlockKeeps DEF AllocateInNewBlock
<1>4. spare' = spare /\ current' = id /\ ~CurrentEmpty
  BY <1>2 DEF AllocateInNewBlock
<1>5. id \notin ToSet(spare)
  <2>1. ToSet(spare) \subseteq DOMAIN blocks
    BY <1>0, SeqIs DEF ListsKept, Lists
  <2>2. CASE id \in DOMAIN blocks
    <3>1. ~blocks[id].memory
      BY <1>3, <2>2 DEF NoMemory
    <3> QED
      BY <1>0, <2>2, <3>1 DEF ListsKept, EmptyBlock
  <2>3. CASE id \notin DOMAIN blocks
    BY <2>1, <2>3
  <2> QED
    BY <2>2, <2>3
<1>6. ASSUME NEW j \in DOMAIN blocks'
      PROVE  /\ j \in ToSet(vacant') <=> ~blocks'[j].memory
             /\ j \in ToSet(spare) <=> blocks'[j].memory /\ blocks'[j].live = 0 /\ ~blocks'[j].oversized /\ j # id
             /\ blocks'[j].spare <=> j \in ToSet(spare)
  <2>1. CASE j # id
    <3>1. j \in DOMAIN blocks /\ blocks'[j] = blocks[j] /\ (j \in ToSet(vacant') <=> j \in ToSet(vacant))
      BY <1>3, <2>1
    <3>2. j \in ToSet(spare) <=> EmptyBlock(j) /\ ~blocks[j].oversized
      BY <1>4, <3>1, LeftBehind
    <3> QED
      BY <1>0, <2>1, <3>1, <3>2 DEF ListsKept, EmptyBlock
  <2>2. CASE j = id
    BY <1>3, <1>5, <2>2
  <2> QED
    BY <2>1, <2>2
<1>7. spare' \in Lists(DOMAIN blocks')
  BY <1>0, <1>3, <1>4, ListsGrow DEF ListsKept
<1>8. current' \in {NoBlock} \cup DOMAIN blocks' /\ (current' # NoBlock => blocks'[current'].memory /\ ~blocks'[current'].oversized)
  BY <1>3, <1>4
<1>9. ListsKept'
  BY <1>3, <1>4, <1>6, <1>7, <1>8 DEF ListsKept, EmptyBlock
<1> QED
  BY <1>3, <1>9 DEF ArenaInvariant

\* Where the blocks and what is held are unchanged, so is what is said of them.
LEMMA ArenaUnchanged ==
    ASSUME ArenaInvariant, UNCHANGED <<blocks, emptyOversized, committedBytes, liveBytes, held>>
    PROVE  BlocksKept' /\ PayloadsKept' /\ MemoryCounted'
<1>1. BlocksKept'
  BY DEF ArenaInvariant, BlocksKept
<1>2. PayloadsKept'
  BY DEF ArenaInvariant, PayloadsKept, PayloadsNeverOverlap, Disjoint, HeldIn, Bytes, Allocation
<1>3. MemoryCounted'
  BY DEF ArenaInvariant, MemoryCounted, Capacities, EmptyOversized
<1> QED
  BY <1>1, <1>2, <1>3

\* No memory: the current block may be left behind.
LEMMA AllocateFailsKeeps ==
    ASSUME ArenaInvariant, NEW bytes \in Sizes, AllocateFails(bytes)
    PROVE  ArenaInvariant'
<1>1. UNCHANGED <<blocks, spare, vacant, emptyOversized, committedBytes, liveBytes, held>>
  BY DEF AllocateFails
<1>2. BlocksKept' /\ PayloadsKept' /\ MemoryCounted'
  BY <1>1, ArenaUnchanged
<1>3. CASE current' = current
  BY <1>1, <1>2, <1>3 DEF ArenaInvariant, ListsKept, EmptyBlock
<1>4. CASE ~CurrentEmpty /\ current' = NoBlock
  <2>1. \A j \in DOMAIN blocks : j \in ToSet(spare) <=> EmptyBlock(j) /\ ~blocks[j].oversized
    BY <1>4, LeftBehind
  <2>2. \A j \in DOMAIN blocks : j # NoBlock
    BY Numbered DEF ArenaInvariant
  <2>3. ListsKept'
    BY <1>1, <1>4, <2>1, <2>2 DEF ArenaInvariant, ListsKept, EmptyBlock
  <2> QED
    BY <1>2, <2>3 DEF ArenaInvariant
<1> QED
  BY <1>3, <1>4 DEF AllocateFails

\* A payload is freed, and its block retired with its last one.
LEMMA FreeKeeps ==
    ASSUME ArenaInvariant, NEW a \in held, Free(a)
    PROVE  ArenaInvariant'
<1>0. BlocksKept /\ PayloadsKept /\ MemoryCounted /\ ListsKept
  BY DEF ArenaInvariant
<1>1. PICK id \in DOMAIN blocks : id = a.block
  BY <1>0 DEF PayloadsKept, Allocation
<1>2. blocks[id] \in Block /\ blocks[id].live \in Nat /\ blocks[id].used \in Nat /\ blocks[id].memory
  BY <1>0, <1>1, Numbered DEF PayloadsKept, PayloadsNeverOverlap
<1>3. IsFiniteSet(held) /\ IsFiniteSet(HeldIn(id)) /\ a \in HeldIn(id)
  <2>1. HeldIn(id) \in SUBSET held
    BY DEF HeldIn
  <2> QED
    BY <1>0, <1>1, <2>1, FS_Subset DEF PayloadsKept, HeldIn
<1>4. Cardinality(HeldIn(id) \ {a}) = blocks[id].live - 1 /\ blocks[id].live - 1 \in Nat
  <2>1. IsFiniteSet(HeldIn(id) \ {a}) /\ Cardinality(HeldIn(id) \ {a}) = Cardinality(HeldIn(id)) - 1
    BY <1>3, FS_RemoveElement, Zenon
  <2>2. Cardinality(HeldIn(id) \ {a}) \in Nat
    BY <2>1, FS_CardinalityType, Zenon
  <2>3. Cardinality(HeldIn(id)) = blocks[id].live
    BY <1>0 DEF PayloadsKept
  <2> QED
    BY <2>1, <2>2, <2>3
<1>5. PICK retired \in BOOLEAN : retired <=> blocks[id].live = 1 /\ id # current
  <2>1. (blocks[id].live = 1 /\ id # current) \in BOOLEAN
    OBVIOUS
  <2> QED
    BY <2>1
<1>6. PICK b : b = [blocks[id] EXCEPT !.live = blocks[id].live - 1,
                                      !.used = IF blocks[id].live = 1 THEN 0 ELSE blocks[id].used,
                                      !.spare = retired /\ ~blocks[id].oversized]
  OBVIOUS
<1>7. /\ b.memory /\ b.capacity = blocks[id].capacity /\ b.oversized = blocks[id].oversized
      /\ b.live = blocks[id].live - 1
      /\ b.used = (IF blocks[id].live = 1 THEN 0 ELSE blocks[id].used)
      /\ b.spare <=> retired /\ ~blocks[id].oversized
  BY <1>2, <1>6 DEF Block
<1>8. b \in Block
  <2>1. PICK u \in Nat, l \in Nat, s \in BOOLEAN :
            /\ l = blocks[id].live - 1 /\ u = (IF blocks[id].live = 1 THEN 0 ELSE blocks[id].used)
            /\ s = (retired /\ ~blocks[id].oversized)
    BY <1>2, <1>4
  <2>2. b = [blocks[id] EXCEPT !.live = l, !.used = u, !.spare = s]
    BY <1>6, <2>1
  <2> QED
    BY <1>2, <2>2 DEF Block
<1>9. blocks' = [blocks EXCEPT ![id] = b]
  <2>1. Retires(a) <=> retired
    BY <1>1, <1>5 DEF Retires
  <2>2. (Retires(a) /\ ~blocks[id].oversized) = (retired /\ ~blocks[id].oversized)
    BY <2>1
  <2>3. blocks' = [blocks EXCEPT ![id] =
               [blocks[id] EXCEPT !.live = @ - 1, !.used = IF blocks[id].live = 1 THEN 0 ELSE @,
                             !.spare = Retires(a) /\ ~blocks[id].oversized]]
    BY <1>1 DEF Free
  <2>4. [blocks[id] EXCEPT !.live = @ - 1, !.used = IF blocks[id].live = 1 THEN 0 ELSE @,
                             !.spare = Retires(a) /\ ~blocks[id].oversized] = b
    BY <1>6, <2>2
  <2> QED
    BY <2>3, <2>4
<1>10. blocks' \in Seq(Block) /\ DOMAIN blocks' = DOMAIN blocks /\ blocks'[id] = b
       /\ \A j \in DOMAIN blocks : j # id => blocks'[j] = blocks[j]
  <2>1. blocks \in Seq(Block)
    BY <1>0 DEF BlocksKept
  <2> QED
    BY <1>8, <1>9, <2>1
<1>11. /\ held' = held \ {a} /\ vacant' = vacant /\ current' = current /\ committedBytes' = committedBytes
       /\ liveBytes' = liveBytes - Min({liveBytes, a.bytes})
       /\ spare' = (IF retired /\ ~blocks[id].oversized THEN Append(spare, id) ELSE spare)
       /\ emptyOversized' = (IF retired /\ blocks[id].oversized THEN emptyOversized + 1 ELSE emptyOversized)
  BY <1>1, <1>5 DEF Free, Retires
<1>12. BlocksKept'
  <2>1. ASSUME NEW j \in DOMAIN blocks
        PROVE  /\ ~blocks'[j].memory => blocks'[j] = NoMemory
               /\ blocks'[j].memory /\ ~blocks'[j].oversized => blocks'[j].capacity = BlockBytes
    <3>1. CASE j # id
      BY <1>0, <1>10, <3>1 DEF BlocksKept
    <3>2. CASE j = id
      <4>1. ~b.oversized => b.capacity = BlockBytes
        BY <1>0, <1>2, <1>7 DEF BlocksKept
      <4> QED
        BY <1>7, <1>10, <3>2, <4>1
    <3> QED
      BY <3>1, <3>2
  <2> QED
    BY <1>10, <2>1 DEF BlocksKept
<1>13. PayloadsKept'
  <2>1. IsFiniteSet(held') /\ held' \subseteq Allocation'
    <3>1. IsFiniteSet(held')
      BY <1>3, <1>11, FS_RemoveElement
    <3>2. held' \subseteq Allocation'
      BY <1>0, <1>10, <1>11 DEF PayloadsKept, Allocation
    <3> QED
      BY <3>1, <3>2
  <2>2. ASSUME NEW c \in held'
        PROVE  /\ blocks'[c.block].memory /\ c.offset + c.bytes <= blocks'[c.block].used
               /\ blocks'[c.block].used <= blocks'[c.block].capacity
    <3>1. c \in held /\ c # a /\ c.block \in DOMAIN blocks
      BY <1>0, <1>11 DEF PayloadsKept, Allocation
    <3>2. blocks[c.block].memory /\ c.offset + c.bytes <= blocks[c.block].used
          /\ blocks[c.block].used <= blocks[c.block].capacity
      BY <1>0, <3>1 DEF PayloadsKept, PayloadsNeverOverlap
    <3>3. CASE c.block # id
      BY <1>10, <3>1, <3>2, <3>3
    <3>4. CASE c.block = id
      <4>1. c \in HeldIn(id) \ {a}
        BY <3>1, <3>4 DEF HeldIn
      <4>2. blocks[id].live # 1
        <5>1. IsFiniteSet(HeldIn(id) \ {a}) /\ HeldIn(id) \ {a} # {}
          BY <1>3, <4>1, FS_RemoveElement
        <5>2. Cardinality(HeldIn(id) \ {a}) # 0
          BY <5>1, FS_EmptySet
        <5> QED
          BY <1>2, <1>4, <5>2
      <4> QED
        BY <1>7, <1>10, <3>2, <3>4, <4>2
    <3> QED
      BY <3>3, <3>4
  <2>3. PayloadsNeverOverlap'
    <3>1. \A c \in held' : /\ blocks'[c.block].memory /\ c.offset + c.bytes <= blocks'[c.block].used
                           /\ blocks'[c.block].used <= blocks'[c.block].capacity
      BY <2>2
    <3>2. \A c, d \in held' : c # d => Disjoint(c, d)
      BY <1>0, <1>11 DEF PayloadsKept, PayloadsNeverOverlap
    <3> QED
      BY <3>1, <3>2 DEF PayloadsNeverOverlap, Disjoint
  <2>4. liveBytes' \in Nat /\ liveBytes' = Total(Bytes', held')
    <3>1. \A c \in held : Bytes[c] = c.bytes /\ Bytes[c] \in Nat
      BY <1>0 DEF PayloadsKept, Allocation, Bytes
    <3>2. Total(Bytes, held) = Bytes[a] + Total(Bytes, held \ {a})
      <4>0. \A c \in held : Bytes[c] \in Nat
        BY <3>1
      <4>1. \A T \in SUBSET held : \A x \in T : Total(Bytes, T) = Bytes[x] + Total(Bytes, T \ {x})
        BY <1>3, <4>0, TotalTakes, Zenon
      <4>2. held \in SUBSET held
        OBVIOUS
      <4> QED
        BY <4>1, <4>2, Zenon
    <3>3. Total(Bytes', held \ {a}) = Total(Bytes, held \ {a})
      <4>1. IsFiniteSet(held \ {a})
        BY <1>3, FS_RemoveElement
      <4>2. \A c \in held \ {a} : Bytes'[c] = Bytes[c]
        BY <1>11 DEF Bytes
      <4> QED
        BY <4>1, <4>2, TotalAgrees, Zenon
    <3>4. PICK rest \in Nat : rest = Total(Bytes, held \ {a})
      <4>1. \A T \in SUBSET held : Total(Bytes, T) \in Nat
        BY <1>3, <3>1, TotalIsNat
      <4>2. held \ {a} \in SUBSET held
        OBVIOUS
      <4> QED
        BY <4>1, <4>2
    <3>5. PICK n \in Nat : n = a.bytes
      BY <3>1
    <3>6. liveBytes = n + rest
      BY <1>0, <3>1, <3>2, <3>4, <3>5 DEF PayloadsKept
    <3>7. Min({liveBytes, n}) = n
      BY <3>4, <3>5, <3>6 DEF Min
    <3>8. liveBytes' = rest
      BY <1>11, <3>4, <3>5, <3>6, <3>7
    <3>9. Total(Bytes', held') = rest
      BY <1>11, <3>3, <3>4, Zenon
    <3> QED
      BY <3>4, <3>8, <3>9, Zenon
  <2>5. ASSUME NEW j \in DOMAIN blocks' PROVE blocks'[j].live = Cardinality(HeldIn(j)')
    <3>1. CASE j # id
      <4>1. HeldIn(j)' = HeldIn(j)
        BY <1>1, <1>11, <3>1 DEF HeldIn
      <4> QED
        BY <1>0, <1>10, <3>1, <4>1 DEF PayloadsKept
    <3>2. CASE j = id
      <4>1. HeldIn(j)' = HeldIn(id) \ {a}
        BY <1>11, <3>2 DEF HeldIn
      <4> QED
        BY <1>4, <1>7, <1>10, <3>2, <4>1
    <3> QED
      BY <3>1, <3>2
  <2> QED
    BY <2>1, <2>3, <2>4, <2>5 DEF PayloadsKept
<1>14. blocks[id].live # 0 /\ (blocks[id].live - 1 = 0 <=> blocks[id].live = 1)
  BY <1>2, <1>4
<1>15. MemoryCounted'
  <2>1. Total(Capacities', DOMAIN blocks') = Total(Capacities, DOMAIN blocks)
    <3>1. \A j \in DOMAIN blocks : blocks'[j].capacity = blocks[j].capacity
      BY <1>7, <1>10
    <3> QED
      BY <1>0, <1>10, <3>1, SameMemory
  <2>2. id \notin EmptyOversized
    BY <1>14 DEF EmptyOversized
  <2>3. IsFiniteSet(EmptyOversized)
    <3>1. EmptyOversized \in SUBSET DOMAIN blocks
      BY DEF EmptyOversized
    <3> QED
      BY <1>0, <3>1, Numbered, FS_Subset
  <2>4. CASE retired /\ blocks[id].oversized
    <3>1. EmptyOversized' = EmptyOversized \cup {id}
      <4>1. b.live = 0 /\ b.oversized
        BY <1>5, <1>7, <2>4
      <4> QED
        BY <1>7, <1>10, <4>1 DEF EmptyOversized
    <3>2. Cardinality(EmptyOversized') = Cardinality(EmptyOversized) + 1
      BY <2>2, <2>3, <3>1, FS_AddElement
    <3> QED
      BY <1>0, <1>11, <2>1, <2>4, <3>2 DEF MemoryCounted
  <2>5. CASE ~(retired /\ blocks[id].oversized)
    <3>1. ~(b.live = 0 /\ b.oversized)
      <4>1. CASE b.live = 0 /\ b.oversized
        <5>1. id # current
          BY <1>0, <1>7, <4>1, Numbered DEF ListsKept
        <5> QED
          BY <1>5, <1>7, <1>14, <2>5, <4>1, <5>1
      <4> QED
        BY <4>1
    <3>2. EmptyOversized' = EmptyOversized
      BY <1>10, <2>2, <3>1 DEF EmptyOversized
    <3> QED
      BY <1>0, <1>11, <2>1, <2>5, <3>2 DEF MemoryCounted
  <2> QED
    BY <2>4, <2>5
<1>16. ListsKept'
  <2>1. id \notin ToSet(spare)
    BY <1>0, <1>14 DEF ListsKept, EmptyBlock
  <2>2. /\ spare' \in Lists(DOMAIN blocks)
        /\ \A j \in DOMAIN blocks : j # id => (j \in ToSet(spare') <=> j \in ToSet(spare))
        /\ id \in ToSet(spare') <=> retired /\ ~blocks[id].oversized
    <3>1. CASE retired /\ ~blocks[id].oversized
      <4>1. Append(spare, id) \in Lists(DOMAIN blocks) /\ ToSet(Append(spare, id)) = ToSet(spare) \cup {id}
        BY <1>0, <2>1, ListAdds DEF ListsKept
      <4> QED
        BY <1>11, <3>1, <4>1
    <3>2. CASE ~(retired /\ ~blocks[id].oversized)
      BY <1>0, <1>11, <2>1, <3>2 DEF ListsKept
    <3> QED
      BY <3>1, <3>2
  <2>3. ASSUME NEW j \in DOMAIN blocks
        PROVE  /\ j \in ToSet(vacant) <=> ~blocks'[j].memory
               /\ j \in ToSet(spare') <=> blocks'[j].memory /\ blocks'[j].live = 0 /\ ~blocks'[j].oversized /\ j # current
               /\ blocks'[j].spare <=> j \in ToSet(spare')
    <3>1. CASE j # id
      BY <1>0, <1>10, <2>2, <3>1 DEF ListsKept, EmptyBlock
    <3>2. CASE j = id
      <4>1. blocks'[j] = b
        BY <1>10, <3>2
      <4>2. j \notin ToSet(vacant) /\ b.memory
        BY <1>0, <1>2, <1>7, <3>2 DEF ListsKept
      <4>3. b.live = 0 <=> blocks[id].live = 1
        BY <1>7, <1>14
      <4> QED
        BY <1>5, <1>7, <2>2, <3>2, <4>1, <4>2, <4>3
    <3> QED
      BY <3>1, <3>2
  <2>4. current # NoBlock => blocks'[current].memory /\ ~blocks'[current].oversized
    BY <1>0, <1>7, <1>10 DEF ListsKept
  <2> QED
    BY <1>0, <1>10, <1>11, <2>2, <2>3, <2>4 DEF ListsKept, EmptyBlock
<1> QED
  BY <1>12, <1>13, <1>15, <1>16 DEF ArenaInvariant

\* A sum of zeros.
LEMMA TotalOfZeros ==
    ASSUME NEW f, NEW S, IsFiniteSet(S), \A x \in S : f[x] = 0
    PROVE  Total(f, S) = 0
<1> DEFINE bad == {T \in SUBSET S : Total(f, T) # 0}
<1>1. ASSUME bad # {} PROVE FALSE
  <2>1. PICK T \in bad : \A U \in bad : Cardinality(T) <= Cardinality(U)
    <3>1. \A U \in bad : IsFiniteSet(U)
      BY FS_Subset
    <3> HIDE DEF bad
    <3> QED
      BY <1>1, <3>1, SmallestSet
  <2>2. T \in SUBSET S /\ Total(f, T) # 0 /\ IsFiniteSet(T)
    BY <2>1, FS_Subset
  <2>3. T # {}
    BY <2>2, TotalOfNone
  <2>4. /\ Chosen(T) \in T /\ Rest(T) \in SUBSET S /\ Cardinality(Rest(T)) < Cardinality(T)
        /\ Cardinality(T) \in Nat /\ Cardinality(Rest(T)) \in Nat
    BY <2>2, <2>3, RestIs
  <2>5. Rest(T) \notin bad
    <3> HIDE DEF bad
    <3> QED
      BY <2>1, <2>4
  <2>6. Total(f, Rest(T)) = 0 /\ f[Chosen(T)] = 0
    BY <2>2, <2>4, <2>5, Zenon
  <2> QED
    BY <2>2, <2>3, <2>6, TotalUnfolds
<1> QED
  BY <1>1, Zenon

\* What Trim gives back: the oldest spares and every empty oversized block.
LEMMA ReleasedIs ==
    ASSUME ArenaInvariant
    PROVE  LET rest == SubSeq(spare, Len(ExtraSpares) + 1, Len(spare))
           IN  /\ Released \in Lists(DOMAIN blocks)
               /\ ToSet(Released) = ToSet(ExtraSpares) \cup EmptyOversized
               /\ Len(Released) - Len(ExtraSpares) = emptyOversized
               /\ ToSet(ExtraSpares) \subseteq ToSet(spare)
               /\ rest \in Lists(DOMAIN blocks) /\ ToSet(rest) = ToSet(spare) \ ToSet(ExtraSpares)
<1>0. BlocksKept /\ ListsKept /\ MemoryCounted /\ MaxSpareBlocks \in Nat
  BY ArenaAssumption DEF ArenaInvariant
<1>1. spare \in Lists(DOMAIN blocks) /\ spare \in Seq(DOMAIN blocks) /\ Len(spare) \in Nat
  <2>1. spare \in Lists(DOMAIN blocks) /\ spare \in Seq(DOMAIN blocks)
    BY <1>0 DEF ListsKept, Lists
  <2> QED
    BY <2>1, LenProperties, Zenon
<1>2. PICK n \in Nat : n <= Len(spare) /\ SubSeq(spare, 1, n) = ExtraSpares
  <2>1. CASE Len(spare) >= MaxSpareBlocks
    <3>1. Len(spare) - MaxSpareBlocks \in Nat /\ Len(spare) - MaxSpareBlocks <= Len(spare)
      BY <1>0, <1>1, <2>1
    <3> QED
      BY <3>1, Zenon DEF ExtraSpares
  <2>2. CASE Len(spare) < MaxSpareBlocks
    <3>1. Len(spare) - MaxSpareBlocks < 1 /\ Len(spare) - MaxSpareBlocks \in Int /\ 1 \in Int
      BY <1>0, <1>1, <2>2
    <3>2. ExtraSpares = <<>>
      BY <3>1, SubSeqEmpty, Zenon DEF ExtraSpares
    <3>3. 0 < 1 /\ 0 \in Int
      OBVIOUS
    <3>4. SubSeq(spare, 1, 0) = <<>>
      BY <3>1, <3>3, SubSeqEmpty, Zenon
    <3>5. 0 \in Nat /\ 0 <= Len(spare)
      BY <1>1
    <3> QED
      BY <3>2, <3>4, <3>5, Zenon
  <2> QED
    BY <1>0, <1>1, <2>1, <2>2
<1>3. /\ ExtraSpares \in Lists(DOMAIN blocks) /\ SubSeq(spare, n + 1, Len(spare)) \in Lists(DOMAIN blocks)
      /\ Len(ExtraSpares) = n /\ ToSet(ExtraSpares) \subseteq ToSet(spare)
      /\ ToSet(SubSeq(spare, n + 1, Len(spare))) = ToSet(spare) \ ToSet(ExtraSpares)
  <2>1. /\ SubSeq(spare, 1, n) \in Lists(DOMAIN blocks) /\ SubSeq(spare, n + 1, Len(spare)) \in Lists(DOMAIN blocks)
        /\ Len(SubSeq(spare, 1, n)) = n
        /\ ToSet(SubSeq(spare, 1, n)) \subseteq ToSet(spare)
        /\ ToSet(SubSeq(spare, n + 1, Len(spare))) = ToSet(spare) \ ToSet(SubSeq(spare, 1, n))
    BY <1>1, <1>2, ListIsCut
  <2> QED
    BY <1>2, <2>1
<1>4. EmptyOversized \subseteq DOMAIN blocks /\ EmptyOversized \subseteq Nat /\ IsFiniteSet(EmptyOversized)
  <2>1. EmptyOversized \in SUBSET DOMAIN blocks
    BY DEF EmptyOversized
  <2> QED
    BY <1>0, <2>1, Numbered, FS_Subset
<1>5. PICK s : s = Ascending(EmptyOversized)
  OBVIOUS
<1>6. s \in Lists(EmptyOversized) /\ ToSet(s) = EmptyOversized /\ Len(s) = emptyOversized
      /\ emptyOversized \in Nat /\ Cardinality(EmptyOversized) = emptyOversized
  BY <1>0, <1>4, <1>5, AscendingIs DEF MemoryCounted
<1>7. s \in Lists(DOMAIN blocks) /\ s \in Seq(DOMAIN blocks)
  BY <1>4, <1>6, ListsGrow DEF Lists
<1>8. SubSeq(s, 1, Min({emptyOversized, Cardinality(EmptyOversized)})) = s
  <2>1. Min({emptyOversized, Cardinality(EmptyOversized)}) = Len(s)
    BY <1>6 DEF Min
  <2>2. SubSeq(s, 1, Len(s)) = s
    BY <1>7, SubSeqFull, Zenon
  <2> QED
    BY <2>1, <2>2
<1>9. Released = ExtraSpares \o s
  BY <1>5, <1>8, Zenon DEF Released
<1>10. \A x \in ToSet(ExtraSpares) : x \notin ToSet(s)
  <2>1. ToSet(spare) \subseteq DOMAIN blocks
    BY <1>1, SeqIs, Zenon
  <2> QED
    BY <1>0, <1>3, <1>6, <2>1 DEF ListsKept, EmptyOversized, EmptyBlock
<1>11. /\ Released \in Lists(DOMAIN blocks) /\ ToSet(Released) = ToSet(ExtraSpares) \cup ToSet(s)
       /\ Len(Released) = Len(ExtraSpares) + Len(s)
  <2>1. /\ ExtraSpares \o s \in Lists(DOMAIN blocks) /\ ToSet(ExtraSpares \o s) = ToSet(ExtraSpares) \cup ToSet(s)
        /\ Len(ExtraSpares \o s) = Len(ExtraSpares) + Len(s)
    BY <1>3, <1>7, <1>10, ListsJoin
  <2> QED
    BY <1>9, <2>1, Zenon
<1>12. Len(Released) - Len(ExtraSpares) = emptyOversized
  BY <1>3, <1>6, <1>11
<1> QED
  BY <1>3, <1>6, <1>11, <1>12

\* The blocks released are empty and not the current one; their memory leaves the sum.
LEMMA TrimKeeps ==
    ASSUME ArenaInvariant, Trim
    PROVE  ArenaInvariant'
<1>0. BlocksKept /\ PayloadsKept /\ MemoryCounted /\ ListsKept
  BY DEF ArenaInvariant
<1>1. PICK R : R = ToSet(Released)
  OBVIOUS
<1>2. /\ blocks' = [id \in DOMAIN blocks |-> IF id \in R THEN NoMemory ELSE blocks[id]]
      /\ committedBytes' = committedBytes - Total(Capacities, R)
      /\ current' = current /\ liveBytes' = liveBytes /\ held' = held
      /\ vacant' = vacant \o Released
      /\ spare' = SubSeq(spare, Len(ExtraSpares) + 1, Len(spare))
      /\ emptyOversized' = emptyOversized - (Len(Released) - Len(ExtraSpares))
  BY <1>1 DEF Trim
<1>3. /\ Released \in Lists(DOMAIN blocks) /\ R = ToSet(ExtraSpares) \cup EmptyOversized
      /\ Len(Released) - Len(ExtraSpares) = emptyOversized
      /\ ToSet(ExtraSpares) \subseteq ToSet(spare)
      /\ spare' \in Lists(DOMAIN blocks) /\ ToSet(spare') = ToSet(spare) \ ToSet(ExtraSpares)
  BY <1>1, <1>2, ReleasedIs
<1>4. ToSet(spare) \subseteq DOMAIN blocks
  BY <1>0, SeqIs DEF ListsKept, Lists
<1>5. \A id \in R : id \in DOMAIN blocks /\ EmptyBlock(id) /\ id # current
  <2>1. ASSUME NEW id \in EmptyOversized PROVE id \in DOMAIN blocks /\ EmptyBlock(id) /\ id # current
    <3>1. id \in DOMAIN blocks /\ id # NoBlock /\ EmptyBlock(id) /\ blocks[id].oversized
      BY <1>0, Numbered DEF EmptyOversized, EmptyBlock
    <3> QED
      BY <1>0, <3>1 DEF ListsKept
  <2>2. ASSUME NEW id \in ToSet(spare) PROVE id \in DOMAIN blocks /\ EmptyBlock(id) /\ id # current
    BY <1>0, <1>4 DEF ListsKept
  <2> QED
    BY <1>3, <2>1, <2>2
<1>6. NoMemory \in Block /\ ~NoMemory.memory /\ NoMemory.live = 0 /\ NoMemory.capacity = 0 /\ ~NoMemory.spare
      /\ ~NoMemory.oversized
  BY DEF NoMemory, Block
<1>7. /\ blocks' \in Seq(Block) /\ DOMAIN blocks' = DOMAIN blocks
      /\ \A j \in DOMAIN blocks : blocks'[j] = IF j \in R THEN NoMemory ELSE blocks[j]
  <2>1. DOMAIN blocks = 1..Len(blocks) /\ Len(blocks) \in Nat /\ \A j \in DOMAIN blocks : blocks[j] \in Block
    BY <1>0, Numbered
  <2> QED
    BY <1>2, <1>6, <2>1
<1>8. BlocksKept'
  BY <1>0, <1>6, <1>7 DEF BlocksKept
<1>9. PayloadsKept'
  <2>1. ASSUME NEW a \in held PROVE a.block \in DOMAIN blocks /\ a.block \notin R
    <3>1. a.block \in DOMAIN blocks
      BY <1>0 DEF PayloadsKept, Allocation
    <3>2. a \in HeldIn(a.block)
      BY DEF HeldIn
    <3>3. ~EmptyBlock(a.block)
      BY <1>0, <3>1, <3>2, NothingHeldIn DEF EmptyBlock
    <3> QED
      BY <1>5, <3>1, <3>3
  <2>2. PayloadsNeverOverlap'
    BY <1>0, <1>2, <1>7, <2>1 DEF PayloadsKept, PayloadsNeverOverlap, Disjoint
  <2>3. held' \subseteq Allocation'
    BY <1>0, <1>2, <1>7 DEF PayloadsKept, Allocation
  <2>4. Bytes' = Bytes
    BY <1>2 DEF Bytes
  <2>5. ASSUME NEW j \in DOMAIN blocks' PROVE blocks'[j].live = Cardinality(HeldIn(j)')
    <3>1. HeldIn(j)' = HeldIn(j)
      BY <1>2 DEF HeldIn
    <3>2. blocks'[j].live = blocks[j].live
      BY <1>5, <1>6, <1>7 DEF EmptyBlock
    <3> QED
      BY <1>0, <1>7, <3>1, <3>2 DEF PayloadsKept
  <2> QED
    BY <1>0, <1>2, <2>2, <2>3, <2>4, <2>5 DEF PayloadsKept
<1>10. MemoryCounted'
  <2>1. IsFiniteSet(DOMAIN blocks) /\ R \in SUBSET DOMAIN blocks /\ DOMAIN blocks \ R \in SUBSET DOMAIN blocks
    BY <1>0, <1>5, Numbered
  <2>2. \A j \in DOMAIN blocks : Capacities[j] \in Nat
    BY <1>0, Numbered DEF Capacities
  <2>3. Total(Capacities, DOMAIN blocks) = Total(Capacities, R) + Total(Capacities, DOMAIN blocks \ R)
    BY <2>1, <2>2, TotalSplits
  <2>4. Total(Capacities, R) \in Nat /\ Total(Capacities, DOMAIN blocks \ R) \in Nat
    BY <2>1, <2>2, TotalIsNat
  <2>5. \A j \in DOMAIN blocks : Capacities'[j] = IF j \in R THEN 0 ELSE Capacities[j]
    BY <1>6, <1>7 DEF Capacities
  <2>6. Total(Capacities', DOMAIN blocks) = Total(Capacities', R) + Total(Capacities', DOMAIN blocks \ R)
    <3>1. \A j \in DOMAIN blocks : Capacities'[j] \in Nat
      BY <2>2, <2>5
    <3> QED
      BY <2>1, <3>1, TotalSplits
  <2>7. Total(Capacities', DOMAIN blocks \ R) = Total(Capacities, DOMAIN blocks \ R)
    <3>1. IsFiniteSet(DOMAIN blocks \ R)
      BY <2>1, FS_Subset
    <3>2. \A j \in DOMAIN blocks \ R : Capacities'[j] = Capacities[j]
      BY <2>5
    <3> QED
      BY <3>1, <3>2, TotalAgrees, Zenon
  <2>8. Total(Capacities', R) = 0
    <3>1. IsFiniteSet(R) /\ \A j \in R : Capacities'[j] = 0
      BY <2>1, <2>5, FS_Subset
    <3> QED
      BY <3>1, TotalOfZeros
  <2>9. committedBytes' = Total(Capacities', DOMAIN blocks')
    <3>1. PICK given \in Nat, kept \in Nat :
              given = Total(Capacities, R) /\ kept = Total(Capacities, DOMAIN blocks \ R)
      BY <2>4
    <3>2. committedBytes = given + kept
      BY <1>0, <2>3, <3>1, Zenon DEF MemoryCounted
    <3>3. committedBytes' = kept
      BY <1>2, <3>1, <3>2
    <3>4. Total(Capacities', DOMAIN blocks) = 0 + kept
      BY <2>6, <2>7, <2>8, <3>1, Zenon
    <3>5. Total(Capacities', DOMAIN blocks) = kept
      BY <3>4
    <3> QED
      BY <1>7, <3>3, <3>5, Zenon
  <2>10. EmptyOversized' = {}
    BY <1>3, <1>6, <1>7 DEF EmptyOversized
  <2>11. emptyOversized' = 0 /\ Cardinality(EmptyOversized') = 0
    BY <1>0, <1>2, <1>3, <2>10, FS_EmptySet DEF MemoryCounted
  <2>12. committedBytes' \in Nat /\ committedBytes' <= LimitBytes
    BY <1>0, <1>2, <2>3, <2>4, ArenaAssumption DEF MemoryCounted
  <2> QED
    BY <2>9, <2>11, <2>12 DEF MemoryCounted
<1>11. ListsKept'
  <2>1. \A x \in ToSet(vacant) : x \notin ToSet(Released)
    BY <1>0, <1>1, <1>5 DEF ListsKept, EmptyBlock
  <2>2. vacant' \in Lists(DOMAIN blocks) /\ ToSet(vacant') = ToSet(vacant) \cup R
    <3>1. vacant \in Lists(DOMAIN blocks)
      BY <1>0 DEF ListsKept
    <3>2. /\ vacant \o Released \in Lists(DOMAIN blocks)
          /\ ToSet(vacant \o Released) = ToSet(vacant) \cup ToSet(Released)
      BY <1>3, <2>1, <3>1, ListsJoin
    <3> QED
      BY <1>1, <1>2, <3>2, Zenon
  <2>3. ASSUME NEW j \in DOMAIN blocks
        PROVE  /\ j \in ToSet(vacant') <=> ~blocks'[j].memory
               /\ j \in ToSet(spare') <=> blocks'[j].memory /\ blocks'[j].live = 0 /\ ~blocks'[j].oversized /\ j # current
               /\ blocks'[j].spare <=> j \in ToSet(spare')
    <3>1. CASE j \in R
      <4>1. j \notin ToSet(spare')
        BY <1>0, <1>3, <1>5, <3>1 DEF ListsKept, EmptyOversized
      <4> QED
        BY <1>6, <1>7, <2>2, <3>1, <4>1
    <3>2. CASE j \notin R
      BY <1>0, <1>3, <1>7, <2>2, <3>2 DEF ListsKept, EmptyBlock
    <3> QED
      BY <3>1, <3>2
  <2>4. current # NoBlock => blocks'[current].memory /\ ~blocks'[current].oversized
    BY <1>0, <1>5, <1>7 DEF ListsKept
  <2> QED
    BY <1>0, <1>2, <1>3, <1>7, <2>2, <2>3, <2>4 DEF ListsKept, EmptyBlock
<1> QED
  BY <1>8, <1>9, <1>10, <1>11 DEF ArenaInvariant

\* No payload overlaps another or lies outside its block, every block is found
\* where the arena looks for it, and the counters are the memory committed and
\* held, for every size of a block, limit, number of spares and set of sizes
\* (FrameArena::Allocate, Free and Trim).
THEOREM ArenaTheorem == Spec => []ArenaIsSound
<1>1. Init => ArenaInvariant
  BY ArenaStarts
<1>2. ArenaInvariant /\ [Next]_vars => ArenaInvariant'
  <2> SUFFICES ASSUME ArenaInvariant, [Next]_vars PROVE ArenaInvariant'
    OBVIOUS
  <2>1. CASE \E bytes \in Sizes : \/ AllocateOversized(bytes) \/ AllocateInCurrent(bytes)
                                  \/ AllocateInSpare(bytes) \/ AllocateInNewBlock(bytes)
                                  \/ AllocateFails(bytes)
    BY <2>1, AllocateOversizedKeeps, AllocateInCurrentKeeps, AllocateInSpareKeeps,
       AllocateInNewBlockKeeps, AllocateFailsKeeps
  <2>2. CASE \E a \in held : Free(a)
    BY <2>2, FreeKeeps
  <2>3. CASE Trim
    BY <2>3, TrimKeeps
  <2>4. CASE UNCHANGED vars
    <3>1. UNCHANGED <<blocks, spare, vacant, current, emptyOversized, committedBytes, liveBytes, held>>
      BY <2>4 DEF vars
    <3>2. BlocksKept' /\ PayloadsKept' /\ MemoryCounted'
      BY <3>1, ArenaUnchanged
    <3>3. ListsKept'
      BY <3>1 DEF ArenaInvariant, ListsKept, EmptyBlock
    <3> QED
      BY <3>2, <3>3 DEF ArenaInvariant
  <2> QED
    BY <2>1, <2>2, <2>3, <2>4 DEF Next
<1>3. ArenaInvariant => ArenaIsSound
  BY ArenaInvariantImplies
<1> QED
  BY <1>1, <1>2, <1>3, PTL DEF Spec

-----------------------------------------------------------------------------
(* The hardware codec: its invariant.                                      *)

SentFrames == [pts : Nat, seq : Nat, discard : BOOLEAN]
Packets == [pts : Nat, of : Nat \cup {NoSeq}, key : BOOLEAN, sets : BOOLEAN]
PacketsTaken == [seq : Nat \cup {NoSeq}, of : Nat \cup {NoSeq}, key : BOOLEAN, sets : BOOLEAN]
HwEncoders ==
    [pending : Seq(SentFrames), next : Nat, broken : BOOLEAN, draining : BOOLEAN, copy : BOOLEAN, sets : BOOLEAN]
Ffmpegs == [queue : Seq(Packets), hold : {0, 1}, firstOnly : BOOLEAN, first : BOOLEAN, faults : Nat]
HwProbes ==
    [phase : {"probe", "decode", "pipeline", "closed"}, quick : BOOLEAN, sent : Nat, packets : Seq(PacketsTaken)]
HwEntries == [ok : BOOLEAN, copy : BOOLEAN]
HwDecoders ==
    [ctx : {"none", "open"}, openFailed : BOOLEAN, broken : BOOLEAN, free : Seq({0, 1}), out : [{0, 1} -> Int]]

HwTypes ==
    /\ hwEncoder \in HwEncoders /\ ffmpeg \in Ffmpegs /\ hwProbe \in HwProbes /\ hwEntry \in HwEntries
    /\ hwDecoder \in HwDecoders /\ handed \in PacketsTaken

\* A frame's pts is its own.
Earlier(pending, queue, next) ==
    /\ \A i \in 1..Len(pending) : pending[i].pts < next
    /\ \A j \in 1..Len(queue) : queue[j].pts < next
\* What comes out under the pts of a frame of the pipeline is that frame's packet.
OwnPackets(pending, queue) ==
    \A i \in 1..Len(pending), j \in 1..Len(queue) :
      pending[i].pts = queue[j].pts => pending[i].discard \/ pending[i].seq = queue[j].of
\* Keys carry their sets, or only the first frame of all does.
SetsCome(queue, firstOnly) ==
    \A j \in 1..Len(queue) :
      /\ queue[j].key /\ ~firstOnly => queue[j].sets
      /\ queue[j].sets /\ firstOnly => queue[j].pts = 0

\* The frames of a probe are numbered as they are sent, and what has come out tells whether there are sets
\* to copy.
ProbeOK(e, ff, p, entry) ==
    /\ p.sent = e.next /\ p.quick = entry.ok /\ e.copy = entry.copy
    /\ \A i \in 1..Len(e.pending) : e.pending[i].seq = e.pending[i].pts /\ ~e.pending[i].discard
    /\ p.packets = <<>> => ~e.sets
    /\ p.packets # <<>> /\ p.packets[1].key /\ p.packets[1].sets /\ e.copy => e.sets
    /\ ~e.copy => \A n \in 2..Len(p.packets) : ff.firstOnly /\ p.packets[n].key => ~p.packets[n].sets
DecodeOK(e, ff, p) == ff.firstOnly => ~p.packets[SecondKey + 1].sets
\* An encoder that gives its sets only once has them copied, once that is known.
SetsKnown(ff, entry) == IF entry.ok THEN ff.firstOnly => entry.copy ELSE ~entry.copy
SetsReady(e, ff) == ff.firstOnly => e.copy /\ e.sets

HandedOK == (handed.seq # NoSeq => handed.seq = handed.of) /\ (handed.key => handed.sets)

HwQueues ==
    /\ Earlier(hwEncoder.pending, ffmpeg.queue, hwEncoder.next)
    /\ SetsCome(ffmpeg.queue, ffmpeg.firstOnly) /\ (ffmpeg.first => hwEncoder.next = 0)
    /\ hwProbe.phase \in {"decode", "pipeline"} => OwnPackets(hwEncoder.pending, ffmpeg.queue)
HwPhases ==
    /\ hwProbe.phase = "probe" => ProbeOK(hwEncoder, ffmpeg, hwProbe, hwEntry)
    /\ hwProbe.phase = "decode" => DecodeOK(hwEncoder, ffmpeg, hwProbe)
    /\ hwProbe.phase = "pipeline" => SetsReady(hwEncoder, ffmpeg)
    /\ SetsKnown(ffmpeg, hwEntry)
HwInvariant ==
    HwTypes /\ HwQueues /\ HwPhases /\ HandedOK /\ Len(hwDecoder.free) <= PictureCache

-----------------------------------------------------------------------------
(* What is in flight: a step leaves less of it, or adds the next frame.    *)

\* What holds of all that is in flight holds of less of it.
LEMMA FewerInFlight ==
    ASSUME NEW p1 \in Seq(SentFrames), NEW p2 \in Seq(SentFrames),
           NEW q1 \in Seq(Packets), NEW q2 \in Seq(Packets), NEW next, NEW firstOnly,
           \A i \in 1..Len(p2) : \E k \in 1..Len(p1) : p2[i] = p1[k],
           \A j \in 1..Len(q2) : \E k \in 1..Len(q1) : q2[j] = q1[k]
    PROVE  /\ Earlier(p1, q1, next) => Earlier(p2, q2, next)
           /\ OwnPackets(p1, q1) => OwnPackets(p2, q2)
           /\ SetsCome(q1, firstOnly) => SetsCome(q2, firstOnly)
<1>1. Earlier(p1, q1, next) => Earlier(p2, q2, next)
  BY DEF Earlier
<1>2. OwnPackets(p1, q1) => OwnPackets(p2, q2)
  BY DEF OwnPackets
<1>3. SetsCome(q1, firstOnly) => SetsCome(q2, firstOnly)
  BY DEF SetsCome
<1> QED
  BY <1>1, <1>2, <1>3

\* The rest of a sequence after its first element.
LEMMA RestOf ==
    ASSUME NEW S, NEW s \in Seq(S), s # <<>>
    PROVE  /\ Head(s) = s[1] /\ 1 \in 1..Len(s)
           /\ Tail(s) \in Seq(S) /\ Len(Tail(s)) = Len(s) - 1
           /\ \A i \in 1..Len(Tail(s)) : i + 1 \in 1..Len(s) /\ Tail(s)[i] = s[i + 1]
  OBVIOUS

\* HwEncoder::Send.
LEMMA SendKeeps ==
    ASSUME HwTypes, NEW of \in Nat \cup {NoSeq}, NEW seq \in Nat, NEW forceKey \in BOOLEAN,
           Codecs!HwSend(of, seq, forceKey),
           Earlier(hwEncoder.pending, ffmpeg.queue, hwEncoder.next),
           SetsCome(ffmpeg.queue, ffmpeg.firstOnly), ffmpeg.first => hwEncoder.next = 0
    PROVE  /\ hwEncoder' \in HwEncoders /\ ffmpeg' \in Ffmpegs
           /\ Earlier(hwEncoder.pending, ffmpeg.queue, hwEncoder.next)'
           /\ SetsCome(ffmpeg.queue, ffmpeg.firstOnly)' /\ ~ffmpeg'.first
           /\ seq = of /\ OwnPackets(hwEncoder.pending, ffmpeg.queue)
                => OwnPackets(hwEncoder.pending, ffmpeg.queue)'
           /\ \E frame : /\ frame = [pts |-> hwEncoder.next, seq |-> seq, discard |-> FALSE]
                          /\ hwEncoder'.pending = Append(hwEncoder.pending, frame)
           /\ hwEncoder'.next = hwEncoder.next + 1
           /\ hwEncoder'.copy = hwEncoder.copy /\ hwEncoder'.sets = hwEncoder.sets
           /\ ffmpeg'.firstOnly = ffmpeg.firstOnly
<1> DEFINE next == hwEncoder.next
           frame == [pts |-> next, seq |-> seq, discard |-> FALSE]
           packet == [pts |-> next, of |-> of, key |-> forceKey,
                      sets |-> forceKey /\ (~ffmpeg.firstOnly \/ ffmpeg.first)]
           pending == hwEncoder.pending
           queue == ffmpeg.queue
<1>0. /\ pending \in Seq(SentFrames) /\ queue \in Seq(Packets) /\ next \in Nat
      /\ ffmpeg.firstOnly \in BOOLEAN /\ ffmpeg.first \in BOOLEAN
  BY DEF HwTypes, HwEncoders, Ffmpegs
<1>1. /\ hwEncoder' = [hwEncoder EXCEPT !.next = next + 1, !.pending = Append(pending, frame)]
      /\ ffmpeg' = [ffmpeg EXCEPT !.first = FALSE, !.queue = Append(queue, packet)]
  BY DEF Codecs!HwSend
<1>2. /\ hwEncoder'.next = next + 1 /\ hwEncoder'.pending = Append(pending, frame)
      /\ hwEncoder'.copy = hwEncoder.copy /\ hwEncoder'.sets = hwEncoder.sets
      /\ ffmpeg'.queue = Append(queue, packet) /\ ffmpeg'.firstOnly = ffmpeg.firstOnly /\ ~ffmpeg'.first
  BY <1>1 DEF HwTypes, HwEncoders, Ffmpegs
<1>3. frame \in SentFrames /\ packet \in Packets
  BY <1>0 DEF SentFrames, Packets
<1>4. hwEncoder' \in HwEncoders /\ ffmpeg' \in Ffmpegs
  <2>1. Append(pending, frame) \in Seq(SentFrames) /\ Append(queue, packet) \in Seq(Packets)
    BY <1>0, <1>3
  <2>2. PICK p2 \in Seq(SentFrames), q2 \in Seq(Packets) : p2 = Append(pending, frame) /\ q2 = Append(queue, packet)
    BY <2>1
  <2>n. PICK n \in Nat : n = next + 1
    BY <1>0
  <2>3. hwEncoder' = [hwEncoder EXCEPT !.next = n, !.pending = p2]
    BY <1>1, <2>2, <2>n
  <2>4. ffmpeg' = [ffmpeg EXCEPT !.first = FALSE, !.queue = q2]
    BY <1>1, <2>2
  <2> HIDE DEF frame, packet, pending, queue, next
  <2>5. hwEncoder' \in HwEncoders
    BY <1>0, <2>3 DEF HwTypes, HwEncoders
  <2>6. ffmpeg' \in Ffmpegs
    BY <1>0, <2>4 DEF HwTypes, Ffmpegs
  <2> QED
    BY <2>5, <2>6
<1>5. /\ Len(Append(pending, frame)) = Len(pending) + 1 /\ Len(Append(queue, packet)) = Len(queue) + 1
      /\ \A i \in 1..Len(pending) + 1 :
            Append(pending, frame)[i] = IF i = Len(pending) + 1 THEN frame ELSE pending[i]
      /\ \A j \in 1..Len(queue) + 1 :
            Append(queue, packet)[j] = IF j = Len(queue) + 1 THEN packet ELSE queue[j]
  <2>1. ASSUME NEW S, NEW s \in Seq(S), NEW e \in S
        PROVE  /\ Len(Append(s, e)) = Len(s) + 1
               /\ \A i \in 1..Len(s) + 1 : Append(s, e)[i] = IF i = Len(s) + 1 THEN e ELSE s[i]
    <3>1. /\ Len(s) \in Nat /\ Len(Append(s, e)) = Len(s) + 1 /\ Append(s, e)[Len(s) + 1] = e
          /\ \A i \in 1..Len(s) : Append(s, e)[i] = s[i]
      BY AppendProperties
    <3> QED
      BY <3>1
  <2> HIDE DEF frame, packet, pending, queue, next
  <2>2. /\ Len(Append(pending, frame)) = Len(pending) + 1
        /\ \A i \in 1..Len(pending) + 1 :
              Append(pending, frame)[i] = IF i = Len(pending) + 1 THEN frame ELSE pending[i]
    BY <1>0, <1>3, <2>1
  <2>3. /\ Len(Append(queue, packet)) = Len(queue) + 1
        /\ \A j \in 1..Len(queue) + 1 :
              Append(queue, packet)[j] = IF j = Len(queue) + 1 THEN packet ELSE queue[j]
    BY <1>0, <1>3, <2>1
  <2> QED
    BY <2>2, <2>3
<1>6. frame.pts = next /\ packet.pts = next /\ frame.seq = seq /\ packet.of = of
  OBVIOUS
<1>7. (\A i \in 1..Len(pending) : pending[i].pts \in Nat /\ pending[i].pts < next)
      /\ \A j \in 1..Len(queue) : queue[j].pts \in Nat /\ queue[j].pts < next
  <2>1. (\A i \in 1..Len(pending) : pending[i] \in SentFrames) /\ \A j \in 1..Len(queue) : queue[j] \in Packets
    BY <1>0
  <2>2. Earlier(pending, queue, next)
    OBVIOUS
  <2> HIDE DEF frame, packet, pending, queue, next
  <2> QED
    BY <2>1, <2>2 DEF Earlier, SentFrames, Packets
<1>8. Earlier(hwEncoder.pending, ffmpeg.queue, hwEncoder.next)'
  <2> HIDE DEF frame, packet, pending, queue, next
  <2>1. ASSUME NEW i \in 1..Len(pending) + 1 PROVE Append(pending, frame)[i].pts < next + 1
    <3>1. CASE i = Len(pending) + 1
      BY <1>0, <1>5, <1>6, <3>1
    <3>2. CASE i # Len(pending) + 1
      <4>1. i \in 1..Len(pending) /\ Append(pending, frame)[i] = pending[i]
        BY <1>0, <1>5, <3>2
      <4> QED
        BY <1>0, <1>7, <4>1
    <3> QED
      BY <3>1, <3>2
  <2>2. \A j \in 1..Len(queue) + 1 : Append(queue, packet)[j].pts < next + 1
    BY <1>0, <1>5, <1>6, <1>7
  <2>3. Earlier(Append(pending, frame), Append(queue, packet), next + 1)
    BY <1>5, <2>1, <2>2 DEF Earlier
  <2> QED
    BY <1>2, <2>3 DEF Earlier
<1>9. SetsCome(ffmpeg.queue, ffmpeg.firstOnly)'
  <2>1. packet.key /\ ~ffmpeg.firstOnly => packet.sets
    BY <1>0
  <2>2. packet.sets /\ ffmpeg.firstOnly => packet.pts = 0
    BY <1>0, <1>6
  <2> HIDE DEF frame, packet, pending, queue, next
  <2>3. \A j \in 1..Len(queue) : /\ queue[j].key /\ ~ffmpeg.firstOnly => queue[j].sets
                                 /\ queue[j].sets /\ ffmpeg.firstOnly => queue[j].pts = 0
    BY DEF SetsCome, queue
  <2>4. SetsCome(Append(queue, packet), ffmpeg.firstOnly)
    BY <1>0, <1>5, <2>1, <2>2, <2>3 DEF SetsCome
  <2> QED
    BY <1>2, <2>4 DEF SetsCome
<1>10. ASSUME seq = of, OwnPackets(pending, queue)
       PROVE  OwnPackets(hwEncoder.pending, ffmpeg.queue)'
  <2> HIDE DEF frame, packet, pending, queue, next
  <2>1. OwnPackets(Append(pending, frame), Append(queue, packet))
    BY <1>0, <1>5, <1>6, <1>7, <1>10 DEF OwnPackets
  <2> QED
    BY <1>2, <2>1 DEF OwnPackets
<1> QED
  BY <1>1, <1>2, <1>4, <1>8, <1>9, <1>10

\* HwEncoder::Receive.
LEMMA TakeKeeps ==
    ASSUME HwTypes, Codecs!Out, Codecs!TakeOut
    PROVE  /\ hwEncoder' \in HwEncoders /\ ffmpeg' \in Ffmpegs /\ Codecs!Received \in PacketsTaken
           /\ Codecs!FrontEntry \in SentFrames /\ Codecs!OutPacket \in Packets
           /\ hwEncoder.pending[1] = Codecs!FrontEntry /\ 1 \in 1..Len(hwEncoder.pending)
           /\ ffmpeg.queue[1] = Codecs!OutPacket /\ 1 \in 1..Len(ffmpeg.queue)
           /\ hwEncoder'.next = hwEncoder.next /\ hwEncoder'.copy = hwEncoder.copy
           /\ hwEncoder'.sets = (hwEncoder.sets \/ (hwEncoder.copy /\ ~Codecs!Discarded
                                                    /\ Codecs!OutPacket.key /\ Codecs!OutPacket.sets))
           /\ ffmpeg'.firstOnly = ffmpeg.firstOnly /\ ffmpeg'.first = ffmpeg.first
           /\ \A i \in 1..Len(hwEncoder'.pending) :
                \E k \in 1..Len(hwEncoder.pending) : hwEncoder'.pending[i] = hwEncoder.pending[k]
           /\ \A j \in 1..Len(ffmpeg'.queue) :
                \E k \in 1..Len(ffmpeg.queue) : ffmpeg'.queue[j] = ffmpeg.queue[k]
<1>0. /\ hwEncoder.pending \in Seq(SentFrames) /\ ffmpeg.queue \in Seq(Packets)
      /\ hwEncoder.pending # <<>> /\ ffmpeg.queue # <<>>
      /\ hwEncoder.copy \in BOOLEAN /\ hwEncoder.sets \in BOOLEAN
  BY DEF HwTypes, HwEncoders, Ffmpegs, Codecs!Out
<1>1. /\ Codecs!FrontEntry \in SentFrames /\ Codecs!OutPacket \in Packets
      /\ hwEncoder.pending[1] = Codecs!FrontEntry /\ 1 \in 1..Len(hwEncoder.pending)
      /\ ffmpeg.queue[1] = Codecs!OutPacket /\ 1 \in 1..Len(ffmpeg.queue)
  BY <1>0, RestOf DEF Codecs!FrontEntry, Codecs!OutPacket
<1>2. PICK rest : rest = IF Codecs!InOrder THEN Tail(hwEncoder.pending) ELSE hwEncoder.pending
  OBVIOUS
<1>3. PICK left : left = Tail(ffmpeg.queue)
  OBVIOUS
<1>4. PICK sets \in BOOLEAN :
        sets = (hwEncoder.sets \/ (hwEncoder.copy /\ ~Codecs!Discarded
                                   /\ Codecs!OutPacket.key /\ Codecs!OutPacket.sets))
  OBVIOUS
<1>5. /\ rest \in Seq(SentFrames)
      /\ \A i \in 1..Len(rest) : \E k \in 1..Len(hwEncoder.pending) : rest[i] = hwEncoder.pending[k]
  BY <1>0, <1>2, RestOf
<1>6. /\ left \in Seq(Packets)
      /\ \A j \in 1..Len(left) : \E k \in 1..Len(ffmpeg.queue) : left[j] = ffmpeg.queue[k]
  BY <1>0, <1>3, RestOf
<1>7. hwEncoder' = [hwEncoder EXCEPT !.pending = rest, !.sets = sets] /\ ffmpeg' = [ffmpeg EXCEPT !.queue = left]
  BY <1>2, <1>3, <1>4 DEF Codecs!TakeOut
<1>8. Codecs!Received \in PacketsTaken
  BY <1>0, <1>1 DEF Codecs!Received, Codecs!CarriesSets, PacketsTaken, SentFrames, Packets
<1>9. /\ hwEncoder'.pending = rest /\ hwEncoder'.sets = sets /\ hwEncoder'.next = hwEncoder.next
      /\ hwEncoder'.copy = hwEncoder.copy /\ ffmpeg'.queue = left
      /\ ffmpeg'.firstOnly = ffmpeg.firstOnly /\ ffmpeg'.first = ffmpeg.first
      /\ hwEncoder' \in HwEncoders /\ ffmpeg' \in Ffmpegs
  BY <1>5, <1>6, <1>7 DEF HwTypes, HwEncoders, Ffmpegs
<1> QED
  BY <1>1, <1>4, <1>5, <1>6, <1>8, <1>9

-----------------------------------------------------------------------------
(* The hardware codec: what each step keeps.                               *)

\* What is unchanged keeps what is said of it.
LEMMA HardwareUnchanged ==
    ASSUME HwInvariant, UNCHANGED hardwareVars
    PROVE  HwInvariant'
  BY DEF hardwareVars, HwInvariant, HwTypes, HwQueues, HwPhases, HandedOK, Earlier, OwnPackets, SetsCome,
         ProbeOK, DecodeOK, SetsKnown, SetsReady, PacketsTaken

LEMMA HwBreaksKeeps ==
    ASSUME HwInvariant, Codecs!HwBreaks
    PROVE  HwInvariant'
<1>0. PICK n \in Nat : n = ffmpeg.faults + 1
  BY DEF HwInvariant, HwTypes, Ffmpegs
<1>1. /\ hwEncoder' = [hwEncoder EXCEPT !.broken = TRUE] /\ ffmpeg' = [ffmpeg EXCEPT !.faults = n]
      /\ UNCHANGED <<hwProbe, hwEntry, hwDecoder, handed>> /\ HwTypes
  BY <1>0 DEF Codecs!HwBreaks, HwInvariant
<1>2. /\ hwEncoder'.pending = hwEncoder.pending /\ hwEncoder'.next = hwEncoder.next
      /\ hwEncoder'.copy = hwEncoder.copy /\ hwEncoder'.sets = hwEncoder.sets
      /\ ffmpeg'.queue = ffmpeg.queue /\ ffmpeg'.firstOnly = ffmpeg.firstOnly /\ ffmpeg'.first = ffmpeg.first
      /\ hwEncoder' \in HwEncoders /\ ffmpeg' \in Ffmpegs
  BY <1>1 DEF HwTypes, HwEncoders, Ffmpegs
<1>3. HwTypes' /\ HandedOK'
  BY <1>1, <1>2 DEF HwInvariant, HwTypes, HandedOK, PacketsTaken
<1>4. HwQueues'
  BY <1>1, <1>2 DEF HwInvariant, HwQueues, Earlier, OwnPackets, SetsCome
<1>5. HwPhases'
  BY <1>1, <1>2 DEF HwInvariant, HwPhases, ProbeOK, DecodeOK, SetsKnown, SetsReady
<1> QED
  BY <1>1, <1>3, <1>4, <1>5 DEF HwInvariant

LEMMA ReordersKeeps ==
    ASSUME HwInvariant, Codecs!Reorders
    PROVE  HwInvariant'
<1>1. PICK q : q = <<ffmpeg.queue[2], ffmpeg.queue[1]>> \o SubSeq(ffmpeg.queue, 3, Len(ffmpeg.queue))
  OBVIOUS
<1>n. PICK n \in Nat : n = ffmpeg.faults + 1
  BY DEF HwInvariant, HwTypes, Ffmpegs
<1>2. /\ ffmpeg' = [ffmpeg EXCEPT !.faults = n, !.queue = q] /\ Len(ffmpeg.queue) >= 2
      /\ UNCHANGED <<hwEncoder, hwProbe, hwEntry, hwDecoder, handed>> /\ HwTypes
  BY <1>1, <1>n DEF Codecs!Reorders, HwInvariant
<1>3. hwEncoder.pending \in Seq(SentFrames) /\ ffmpeg.queue \in Seq(Packets)
  BY <1>2 DEF HwTypes, HwEncoders, Ffmpegs
<1>4. /\ q \in Seq(Packets)
      /\ \A j \in 1..Len(q) : \E k \in 1..Len(ffmpeg.queue) : q[j] = ffmpeg.queue[k]
  <2>1. PICK s \in Seq(Packets) : s = ffmpeg.queue
    BY <1>3
  <2>2. PICK two : two = <<s[2], s[1]>>
    OBVIOUS
  <2>3. PICK more : more = SubSeq(s, 3, Len(s))
    OBVIOUS
  <2>4. Len(s) \in Nat /\ Len(s) >= 2 /\ s[1] \in Packets /\ s[2] \in Packets
    BY <1>2, <2>1
  <2>5. two \in Seq(Packets) /\ Len(two) = 2 /\ two[1] = s[2] /\ two[2] = s[1]
    BY <2>2, <2>4
  <2>6. /\ more \in Seq(Packets) /\ Len(more) = Len(s) - 2
        /\ \A i \in 1..Len(more) : more[i] = s[i + 2]
    <3>1. \A i \in 3..Len(s) : s[i] \in Packets
      BY <2>1, <2>4
    <3>2. /\ SubSeq(s, 3, Len(s)) \in Seq(Packets)
          /\ Len(SubSeq(s, 3, Len(s))) = IF 3 <= Len(s) THEN Len(s) - 3 + 1 ELSE 0
          /\ \A i \in 1..Len(s) - 3 + 1 : SubSeq(s, 3, Len(s))[i] = s[3 + i - 1]
      BY <2>4, <3>1, SubSeqProperties
    <3>3. Len(more) = Len(s) - 2 /\ more \in Seq(Packets)
      <4>1. Len(more) = IF 3 <= Len(s) THEN Len(s) - 3 + 1 ELSE 0
        BY <2>3, <3>2, Zenon
      <4>2. more \in Seq(Packets)
        BY <2>3, <3>2, Zenon
      <4>3. CASE 3 <= Len(s)
        BY <2>4, <4>1, <4>2, <4>3
      <4>4. CASE ~(3 <= Len(s))
        <5>0. \A m \in Nat : m >= 2 /\ ~(3 <= m) => m = 2
          OBVIOUS
        <5>1. Len(s) = 2
          BY <2>4, <4>4, <5>0, Zenon
        <5>2. Len(more) = 0
          BY <4>1, <4>4
        <5> QED
          BY <4>2, <5>1, <5>2
      <4> QED
        BY <4>3, <4>4
    <3>4. ASSUME NEW i \in 1..Len(more) PROVE more[i] = s[i + 2]
      <4>1. i \in 1..Len(s) - 3 + 1 /\ 3 + i - 1 = i + 2
        BY <2>4, <3>3
      <4>2. more[i] = s[3 + i - 1]
        BY <2>3, <3>2, <4>1, Zenon
      <4> QED
        BY <4>1, <4>2
    <3> QED
      BY <3>3, <3>4
  <2>7. q = two \o more
    BY <1>1, <2>1, <2>2, <2>3
  <2>8. /\ q \in Seq(Packets) /\ Len(q) = Len(s)
        /\ \A j \in 1..Len(q) : q[j] = IF j <= 2 THEN two[j] ELSE more[j - 2]
    <3>1. /\ two \o more \in Seq(Packets) /\ Len(two \o more) = Len(two) + Len(more)
          /\ \A i \in 1..Len(two) + Len(more) :
                (two \o more)[i] = IF i <= Len(two) THEN two[i] ELSE more[i - Len(two)]
      <4>1. two \in Seq(Packets) /\ more \in Seq(Packets)
        BY <2>5, <2>6
      <4> QED
        BY <4>1, ConcatProperties, Zenon
    <3> QED
      BY <2>4, <2>5, <2>6, <2>7, <3>1
  <2>9. ASSUME NEW j \in 1..Len(q) PROVE \E k \in 1..Len(s) : q[j] = s[k]
    <3>1. CASE j = 1
      BY <2>4, <2>5, <2>8, <3>1
    <3>2. CASE j = 2
      BY <2>4, <2>5, <2>8, <3>2
    <3>3. CASE j > 2
      <4>1. j - 2 \in 1..Len(more) /\ q[j] = more[j - 2] /\ j - 2 + 2 = j /\ j \in 1..Len(s)
        BY <2>4, <2>6, <2>8, <3>3
      <4> QED
        BY <2>6, <4>1
    <3> QED
      BY <2>4, <2>8, <3>1, <3>2, <3>3
  <2> QED
    BY <2>1, <2>8, <2>9
<1>5. /\ ffmpeg'.queue = q /\ ffmpeg'.firstOnly = ffmpeg.firstOnly /\ ffmpeg'.first = ffmpeg.first
      /\ ffmpeg' \in Ffmpegs
  BY <1>2, <1>4 DEF HwTypes, Ffmpegs
<1>6. HwTypes' /\ HandedOK'
  BY <1>2, <1>5 DEF HwInvariant, HwTypes, HandedOK, PacketsTaken
<1>7. HwQueues'
  <2>1. /\ Earlier(hwEncoder.pending, q, hwEncoder.next)
        /\ SetsCome(q, ffmpeg.firstOnly)
        /\ hwProbe.phase \in {"decode", "pipeline"} => OwnPackets(hwEncoder.pending, q)
    <3>1. \A i \in 1..Len(hwEncoder.pending) :
            \E k \in 1..Len(hwEncoder.pending) : hwEncoder.pending[i] = hwEncoder.pending[k]
      OBVIOUS
    <3> QED
      BY <1>3, <1>4, <3>1, FewerInFlight DEF HwInvariant, HwQueues
  <2> QED
    BY <1>2, <1>5, <2>1 DEF HwInvariant, HwQueues, Earlier, OwnPackets, SetsCome
<1>8. HwPhases'
  BY <1>2, <1>5 DEF HwInvariant, HwPhases, ProbeOK, DecodeOK, SetsKnown, SetsReady
<1> QED
  BY <1>2, <1>6, <1>7, <1>8 DEF HwInvariant

LEMMA DrainKeeps ==
    ASSUME HwInvariant, Codecs!Drain
    PROVE  HwInvariant'
<1>1. /\ hwEncoder' = [hwEncoder EXCEPT !.draining = TRUE]
      /\ UNCHANGED <<ffmpeg, hwProbe, hwEntry, hwDecoder, handed>> /\ HwTypes
  BY DEF Codecs!Drain, HwInvariant
<1>2. /\ hwEncoder'.pending = hwEncoder.pending /\ hwEncoder'.next = hwEncoder.next
      /\ hwEncoder'.copy = hwEncoder.copy /\ hwEncoder'.sets = hwEncoder.sets
      /\ hwEncoder' \in HwEncoders
  BY <1>1 DEF HwTypes, HwEncoders
<1>3. HwTypes' /\ HandedOK'
  BY <1>1, <1>2 DEF HwInvariant, HwTypes, HandedOK, PacketsTaken
<1>4. HwQueues'
  BY <1>1, <1>2 DEF HwInvariant, HwQueues, Earlier, OwnPackets, SetsCome
<1>5. HwPhases'
  BY <1>1, <1>2 DEF HwInvariant, HwPhases, ProbeOK, DecodeOK, SetsKnown, SetsReady
<1> QED
  BY <1>1, <1>3, <1>4, <1>5 DEF HwInvariant

LEMMA ProbeSendKeeps ==
    ASSUME HwInvariant, Codecs!ProbeSend
    PROVE  HwInvariant'
<1>1. /\ hwProbe.phase = "probe" /\ hwProbe' = [hwProbe EXCEPT !.sent = @ + 1]
      /\ Codecs!HwSend(NoSeq, hwProbe.sent, hwProbe.sent \in {0, SecondKey})
      /\ UNCHANGED <<hwEntry, hwDecoder, handed>>
      /\ HwTypes /\ HwQueues /\ ProbeOK(hwEncoder, ffmpeg, hwProbe, hwEntry)
  BY DEF Codecs!ProbeSend, HwInvariant, HwPhases
<1>2. hwProbe.sent \in Nat /\ hwEncoder.pending \in Seq(SentFrames) /\ hwEncoder.next \in Nat
  BY <1>1 DEF HwTypes, HwEncoders, HwProbes
<1>3. PICK key : key = (hwProbe.sent \in {0, SecondKey}) /\ key \in BOOLEAN
  <2>1. (hwProbe.sent \in {0, SecondKey}) \in BOOLEAN
    OBVIOUS
  <2> QED
    BY <2>1, Zenon
<1>4. /\ hwEncoder' \in HwEncoders /\ ffmpeg' \in Ffmpegs
      /\ Earlier(hwEncoder.pending, ffmpeg.queue, hwEncoder.next)'
      /\ SetsCome(ffmpeg.queue, ffmpeg.firstOnly)' /\ ~ffmpeg'.first
      /\ hwEncoder'.next = hwEncoder.next + 1
      /\ hwEncoder'.copy = hwEncoder.copy /\ hwEncoder'.sets = hwEncoder.sets
      /\ ffmpeg'.firstOnly = ffmpeg.firstOnly
      /\ \E frame : /\ frame = [pts |-> hwEncoder.next, seq |-> hwProbe.sent, discard |-> FALSE]
                     /\ hwEncoder'.pending = Append(hwEncoder.pending, frame)
  <2>1. Codecs!HwSend(NoSeq, hwProbe.sent, key)
    BY <1>1, <1>3, Zenon
  <2>2. NoSeq \in Nat \cup {NoSeq}
    OBVIOUS
  <2>3. /\ Earlier(hwEncoder.pending, ffmpeg.queue, hwEncoder.next)
        /\ SetsCome(ffmpeg.queue, ffmpeg.firstOnly) /\ (ffmpeg.first => hwEncoder.next = 0)
    BY <1>1 DEF HwQueues
  <2> QED
    BY <1>1, <1>2, <1>3, <2>1, <2>2, <2>3, SendKeeps, Zenon
<1>5. PICK frame : /\ frame = [pts |-> hwEncoder.next, seq |-> hwProbe.sent, discard |-> FALSE]
                   /\ hwEncoder'.pending = Append(hwEncoder.pending, frame)
  BY <1>4
<1>n. PICK n \in Nat : n = hwProbe.sent + 1
  BY <1>2
<1>6. /\ hwProbe' \in HwProbes /\ hwProbe'.phase = "probe" /\ hwProbe'.sent = hwProbe.sent + 1
      /\ hwProbe'.quick = hwProbe.quick /\ hwProbe'.packets = hwProbe.packets
  <2>1. hwProbe' = [hwProbe EXCEPT !.sent = n]
    BY <1>1, <1>n
  <2> QED
    BY <1>1, <1>n, <2>1 DEF HwTypes, HwProbes
<1>7. HwTypes' /\ HandedOK'
  BY <1>1, <1>4, <1>6 DEF HwInvariant, HwTypes, HandedOK, PacketsTaken
<1>8. HwQueues'
  BY <1>4, <1>6 DEF HwQueues
<1>9. \A i \in 1..Len(hwEncoder'.pending) :
        hwEncoder'.pending[i].seq = hwEncoder'.pending[i].pts /\ ~hwEncoder'.pending[i].discard
  <2>1. frame.seq = frame.pts /\ ~frame.discard /\ frame \in SentFrames
    BY <1>1, <1>2, <1>5 DEF ProbeOK, SentFrames
  <2>2. \A i \in 1..Len(hwEncoder.pending) :
          hwEncoder.pending[i].seq = hwEncoder.pending[i].pts /\ ~hwEncoder.pending[i].discard
    BY <1>1 DEF ProbeOK
  <2> QED
    BY <1>2, <1>5, <2>1, <2>2, AppendProperties
<1>10. ProbeOK(hwEncoder, ffmpeg, hwProbe, hwEntry)'
  BY <1>1, <1>2, <1>4, <1>5, <1>6, <1>9 DEF ProbeOK
<1>11. HwPhases'
  BY <1>1, <1>4, <1>6, <1>10 DEF HwInvariant, HwPhases, SetsKnown
<1> QED
  BY <1>1, <1>7, <1>8, <1>11 DEF HwInvariant

LEMMA ProbeCollectKeeps ==
    ASSUME HwInvariant, Codecs!ProbeCollect
    PROVE  HwInvariant'
<1> DEFINE got == Codecs!Received
           front == Codecs!FrontEntry
           out == Codecs!OutPacket
           packets == hwProbe.packets
<1>1. /\ hwProbe.phase = "probe" /\ Codecs!Out /\ Codecs!TakeOut
      /\ hwProbe' = IF got.seq = Len(packets) THEN [hwProbe EXCEPT !.packets = Append(@, got)]
                    ELSE [hwProbe EXCEPT !.phase = "closed"]
      /\ UNCHANGED <<hwEntry, hwDecoder, handed>>
      /\ HwTypes /\ HwQueues /\ ProbeOK(hwEncoder, ffmpeg, hwProbe, hwEntry)
  BY DEF Codecs!ProbeCollect, HwInvariant, HwPhases
<1>2. /\ hwEncoder' \in HwEncoders /\ ffmpeg' \in Ffmpegs /\ got \in PacketsTaken
      /\ front \in SentFrames /\ out \in Packets
      /\ hwEncoder.pending[1] = front /\ 1 \in 1..Len(hwEncoder.pending)
      /\ ffmpeg.queue[1] = out /\ 1 \in 1..Len(ffmpeg.queue)
      /\ hwEncoder'.next = hwEncoder.next /\ hwEncoder'.copy = hwEncoder.copy
      /\ hwEncoder'.sets = (hwEncoder.sets \/ (hwEncoder.copy /\ ~Codecs!Discarded /\ out.key /\ out.sets))
      /\ ffmpeg'.firstOnly = ffmpeg.firstOnly /\ ffmpeg'.first = ffmpeg.first
      /\ \A i \in 1..Len(hwEncoder'.pending) :
           \E k \in 1..Len(hwEncoder.pending) : hwEncoder'.pending[i] = hwEncoder.pending[k]
      /\ \A j \in 1..Len(ffmpeg'.queue) :
           \E k \in 1..Len(ffmpeg.queue) : ffmpeg'.queue[j] = ffmpeg.queue[k]
  BY <1>1, TakeKeeps
<1>3. /\ packets \in Seq(PacketsTaken) /\ Len(packets) \in Nat
      /\ hwEncoder.copy \in BOOLEAN /\ hwEncoder.sets \in BOOLEAN /\ ffmpeg.firstOnly \in BOOLEAN
  BY <1>1 DEF HwTypes, HwProbes, HwEncoders, Ffmpegs
<1>4. HwQueues' <=> /\ Earlier(hwEncoder.pending, ffmpeg.queue, hwEncoder.next)'
                    /\ SetsCome(ffmpeg.queue, ffmpeg.firstOnly)' /\ (ffmpeg'.first => hwEncoder'.next = 0)
                    /\ hwProbe'.phase \in {"decode", "pipeline"} => OwnPackets(hwEncoder.pending, ffmpeg.queue)'
  BY DEF HwQueues
<1>5. /\ Earlier(hwEncoder.pending, ffmpeg.queue, hwEncoder.next)'
      /\ SetsCome(ffmpeg.queue, ffmpeg.firstOnly)' /\ (ffmpeg'.first => hwEncoder'.next = 0)
  <2>1. /\ hwEncoder.pending \in Seq(SentFrames) /\ hwEncoder'.pending \in Seq(SentFrames)
        /\ ffmpeg.queue \in Seq(Packets) /\ ffmpeg'.queue \in Seq(Packets)
    BY <1>1, <1>2 DEF HwTypes, HwEncoders, Ffmpegs
  <2>2. /\ Earlier(hwEncoder'.pending, ffmpeg'.queue, hwEncoder.next)
        /\ SetsCome(ffmpeg'.queue, ffmpeg.firstOnly)
    <3>1. /\ Earlier(hwEncoder.pending, ffmpeg.queue, hwEncoder.next)
          /\ SetsCome(ffmpeg.queue, ffmpeg.firstOnly)
      BY <1>1 DEF HwQueues
    <3>2. /\ \A i \in 1..Len(hwEncoder'.pending) :
                \E k \in 1..Len(hwEncoder.pending) : hwEncoder'.pending[i] = hwEncoder.pending[k]
          /\ \A j \in 1..Len(ffmpeg'.queue) :
                \E k \in 1..Len(ffmpeg.queue) : ffmpeg'.queue[j] = ffmpeg.queue[k]
      BY <1>2
    <3> QED
      BY <2>1, <3>1, <3>2, FewerInFlight, Zenon
  <2> QED
    BY <1>1, <1>2, <2>2 DEF HwQueues, Earlier, SetsCome
<1> HIDE DEF got, front, out, packets
<1>6. CASE got.seq # Len(packets)
  <2>1. hwProbe' = [hwProbe EXCEPT !.phase = "closed"]
    BY <1>1, <1>6
  <2>2. hwProbe' \in HwProbes /\ hwProbe'.phase = "closed"
    BY <1>1, <2>1 DEF HwTypes, HwProbes
  <2>3. HwTypes' /\ HandedOK'
    BY <1>1, <1>2, <2>2 DEF HwInvariant, HwTypes, HandedOK, PacketsTaken
  <2>4. HwQueues'
    BY <1>4, <1>5, <2>2
  <2>5. HwPhases'
    BY <1>1, <1>2, <2>2 DEF HwInvariant, HwPhases, SetsKnown
  <2> QED
    BY <1>1, <2>3, <2>4, <2>5 DEF HwInvariant
<1>7. CASE got.seq = Len(packets)
  <2>1. PICK more : more = Append(packets, got)
    OBVIOUS
  <2>2. /\ more \in Seq(PacketsTaken) /\ Len(more) = Len(packets) + 1
        /\ \A i \in 1..Len(packets) + 1 : more[i] = IF i = Len(packets) + 1 THEN got ELSE packets[i]
    BY <1>2, <1>3, <2>1, AppendProperties
  <2>3. hwProbe' = [hwProbe EXCEPT !.packets = more]
    BY <1>1, <1>7, <2>1 DEF packets
  <2>4. /\ hwProbe' \in HwProbes /\ hwProbe'.phase = "probe" /\ hwProbe'.packets = more
        /\ hwProbe'.sent = hwProbe.sent /\ hwProbe'.quick = hwProbe.quick
    BY <1>1, <2>2, <2>3 DEF HwTypes, HwProbes
  <2>5. HwTypes' /\ HandedOK'
    BY <1>1, <1>2, <2>4 DEF HwInvariant, HwTypes, HandedOK, PacketsTaken
  <2>6. HwQueues'
    BY <1>4, <1>5, <2>4
  \* What it collects is the frame of that number, which only as the first carries sets given once.
  <2>7. front.pts = out.pts /\ front.seq = got.seq
    <3>1. Len(packets) # NoSeq
      BY <1>3, HardwareAssumption
    <3> QED
      BY <1>7, <3>1 DEF got, front, out, Codecs!Received, Codecs!InOrder
  <2>8. front.seq = front.pts /\ ~front.discard
    BY <1>1, <1>2 DEF ProbeOK
  <2>9. out.pts = Len(packets)
    BY <1>7, <2>7, <2>8
  <2>10. /\ out.sets /\ ffmpeg.firstOnly => out.pts = 0
         /\ out.key \in BOOLEAN /\ out.sets \in BOOLEAN
    BY <1>1, <1>2 DEF HwQueues, SetsCome, Packets
  <2>11. got.key = out.key /\ got.sets = (out.key => out.sets \/ (hwEncoder.copy /\ hwEncoder.sets))
    BY DEF got, out, Codecs!Received, Codecs!CarriesSets
  <2>12. ~Codecs!Discarded
    BY <2>8 DEF front, Codecs!Discarded
  <2>13. ~hwEncoder'.sets => ~hwEncoder.sets /\ ~(hwEncoder.copy /\ out.key /\ out.sets)
    BY <1>2, <1>3, <2>12
  <2>14. more # <<>>
    BY <1>3, <2>2
  <2>15. more[1].key /\ more[1].sets /\ hwEncoder'.copy => hwEncoder'.sets
    <3>1. CASE packets = <<>>
      <4>1. more[1] = got /\ ~hwEncoder.sets
        BY <1>1, <1>3, <2>2, <3>1 DEF ProbeOK, packets
      <4> QED
        BY <1>2, <1>3, <2>10, <2>11, <2>13, <4>1
    <3>2. CASE packets # <<>>
      <4>1. more[1] = packets[1]
        BY <1>3, <2>2, <3>2
      <4>2. packets[1].key /\ packets[1].sets /\ hwEncoder.copy => hwEncoder.sets
        BY <1>1, <3>2 DEF ProbeOK, packets
      <4> QED
        BY <1>2, <1>3, <2>13, <4>1, <4>2
    <3> QED
      BY <3>1, <3>2
  <2>16. ASSUME ~hwEncoder'.copy, NEW n \in 2..Len(more), ffmpeg'.firstOnly, more[n].key
         PROVE  ~more[n].sets
    <3>1. CASE n = Len(packets) + 1
      <4>1. more[n] = got /\ Len(packets) # 0
        BY <1>3, <2>2, <2>16, <3>1
      <4>2. ~out.sets
        BY <1>2, <2>9, <2>10, <2>16, <4>1
      <4> QED
        BY <1>2, <2>10, <2>11, <2>16, <4>1, <4>2
    <3>2. CASE n # Len(packets) + 1
      <4>1. n \in 2..Len(packets) /\ more[n] = packets[n]
        BY <1>3, <2>2, <3>2
      <4> QED
        BY <1>1, <1>2, <2>16, <4>1 DEF ProbeOK, packets
    <3> QED
      BY <3>1, <3>2
  <2>17. \A i \in 1..Len(hwEncoder'.pending) :
           hwEncoder'.pending[i].seq = hwEncoder'.pending[i].pts /\ ~hwEncoder'.pending[i].discard
    <3>1. \A k \in 1..Len(hwEncoder.pending) :
            hwEncoder.pending[k].seq = hwEncoder.pending[k].pts /\ ~hwEncoder.pending[k].discard
      BY <1>1 DEF ProbeOK
    <3> QED
      BY <1>2, <3>1
  <2>18. ProbeOK(hwEncoder, ffmpeg, hwProbe, hwEntry)'
    BY <1>1, <1>2, <2>4, <2>14, <2>15, <2>16, <2>17 DEF ProbeOK
  <2>19. HwPhases'
    BY <1>1, <1>2, <2>4, <2>18 DEF HwInvariant, HwPhases, SetsKnown
  <2> QED
    BY <1>1, <2>5, <2>6, <2>19 DEF HwInvariant
<1> QED
  BY <1>6, <1>7

LEMMA ProbeGivesUpKeeps ==
    ASSUME HwInvariant, Codecs!ProbeGivesUp
    PROVE  HwInvariant'
<1>1. /\ hwProbe' = [hwProbe EXCEPT !.phase = "closed"]
      /\ UNCHANGED <<hwEncoder, ffmpeg, hwEntry, hwDecoder, handed>> /\ HwTypes
  BY DEF Codecs!ProbeGivesUp, HwInvariant
<1>2. hwProbe' \in HwProbes /\ hwProbe'.phase = "closed"
  BY <1>1 DEF HwTypes, HwProbes
<1>3. HwTypes' /\ HandedOK'
  BY <1>1, <1>2 DEF HwInvariant, HwTypes, HandedOK, PacketsTaken
<1>4. HwQueues'
  BY <1>1, <1>2 DEF HwInvariant, HwQueues, Earlier, SetsCome
<1>5. HwPhases'
  BY <1>1, <1>2 DEF HwInvariant, HwPhases, SetsKnown
<1> QED
  BY <1>1, <1>3, <1>4, <1>5 DEF HwInvariant

LEMMA ProbeChecksKeeps ==
    ASSUME HwInvariant, Codecs!ProbeChecks
    PROVE  HwInvariant'
<1> DEFINE packets == hwProbe.packets
           flight == Codecs!DiscardInFlight(hwEncoder.pending)
<1>1. PICK phase :
        phase = IF ~packets[1].key \/ ~packets[1].sets THEN "closed"
                ELSE IF hwProbe.quick THEN "pipeline"
                ELSE IF ~packets[SecondKey + 1].key THEN "closed" ELSE "decode"
  OBVIOUS
<1>2. /\ hwProbe.phase = "probe" /\ Len(packets) = Codecs!Probed
      /\ hwEncoder' = [hwEncoder EXCEPT !.pending = flight]
      /\ hwProbe' = [hwProbe EXCEPT !.sent = 0, !.phase = phase]
      /\ UNCHANGED <<ffmpeg, hwEntry, hwDecoder, handed>>
      /\ HwTypes /\ HwQueues /\ ProbeOK(hwEncoder, ffmpeg, hwProbe, hwEntry) /\ SetsKnown(ffmpeg, hwEntry)
  BY <1>1 DEF Codecs!ProbeChecks, HwInvariant, HwPhases
<1>3. /\ hwEncoder.pending \in Seq(SentFrames) /\ packets \in Seq(PacketsTaken) /\ Len(packets) \in Nat
      /\ hwProbe.quick \in BOOLEAN /\ hwEntry.ok \in BOOLEAN /\ hwEntry.copy \in BOOLEAN
      /\ ffmpeg.firstOnly \in BOOLEAN /\ ffmpeg.queue \in Seq(Packets)
      /\ hwEncoder.copy \in BOOLEAN /\ hwEncoder.sets \in BOOLEAN
  BY <1>2 DEF HwTypes, HwEncoders, HwProbes, HwEntries, Ffmpegs
<1>4. /\ flight \in Seq(SentFrames) /\ Len(flight) = Len(hwEncoder.pending)
      /\ \A i \in 1..Len(flight) : flight[i].discard /\ flight[i].pts = hwEncoder.pending[i].pts
  <2>1. PICK p \in Seq(SentFrames) : p = hwEncoder.pending
    BY <1>3
  <2>2. flight = [i \in 1..Len(p) |-> [p[i] EXCEPT !.discard = TRUE]]
    BY <2>1 DEF Codecs!DiscardInFlight
  <2>3. \A i \in 1..Len(p) : p[i] \in SentFrames
    OBVIOUS
  <2>4. \A i \in 1..Len(p) : /\ [p[i] EXCEPT !.discard = TRUE] \in SentFrames
                             /\ [p[i] EXCEPT !.discard = TRUE].discard
                             /\ [p[i] EXCEPT !.discard = TRUE].pts = p[i].pts
    BY <2>3 DEF SentFrames
  <2> HIDE DEF flight
  <2>5. flight \in [1..Len(p) -> SentFrames] /\ Len(p) \in Nat
    BY <2>2, <2>4
  <2>6. flight \in Seq(SentFrames) /\ Len(flight) = Len(p)
    BY <2>5
  <2> QED
    BY <2>1, <2>2, <2>4, <2>6
<1> HIDE DEF flight
<1>5. /\ hwEncoder' \in HwEncoders /\ hwEncoder'.pending = flight /\ hwEncoder'.next = hwEncoder.next
      /\ hwEncoder'.copy = hwEncoder.copy /\ hwEncoder'.sets = hwEncoder.sets
  BY <1>2, <1>4 DEF HwTypes, HwEncoders
<1>6. phase \in {"closed", "pipeline", "decode"}
  BY <1>1
<1>7. /\ hwProbe' \in HwProbes /\ hwProbe'.phase = phase /\ hwProbe'.packets = packets
  BY <1>2, <1>6 DEF HwTypes, HwProbes
<1>8. HwTypes' /\ HandedOK'
  BY <1>2, <1>5, <1>7 DEF HwInvariant, HwTypes, HandedOK, PacketsTaken
<1>9. HwQueues'
  <2>1. Earlier(flight, ffmpeg.queue, hwEncoder.next)
    BY <1>2, <1>4 DEF HwQueues, Earlier
  <2>2. OwnPackets(flight, ffmpeg.queue)
    BY <1>4 DEF OwnPackets
  <2> QED
    BY <1>2, <1>5, <2>1, <2>2 DEF HwQueues, Earlier, OwnPackets, SetsCome
<1>10. phase = "pipeline" => SetsReady(hwEncoder, ffmpeg)
  <2> SUFFICES ASSUME phase = "pipeline", ffmpeg.firstOnly PROVE hwEncoder.copy /\ hwEncoder.sets
    BY DEF SetsReady
  <2>1. packets[1].key /\ packets[1].sets /\ hwProbe.quick
    BY <1>1, <1>3
  <2>2. hwEncoder.copy /\ packets # <<>>
    <3>1. Len(packets) = QuickFrames
      BY <1>2, <2>1 DEF Codecs!Probed
    <3>2. packets # <<>>
      BY <1>3, <3>1, HardwareAssumption
    <3> QED
      BY <1>2, <2>1, <3>2 DEF ProbeOK, SetsKnown
  <2> QED
    BY <1>2, <2>1, <2>2 DEF ProbeOK
<1>11. phase = "decode" => DecodeOK(hwEncoder, ffmpeg, hwProbe)
  <2> SUFFICES ASSUME phase = "decode", ffmpeg.firstOnly PROVE ~packets[SecondKey + 1].sets
    BY DEF DecodeOK
  <2>1. ~hwProbe.quick /\ packets[SecondKey + 1].key
    BY <1>1, <1>3
  <2>2. SecondKey + 1 \in 2..Len(packets)
    <3>1. Len(packets) = ProbeFrames
      BY <1>2, <2>1 DEF Codecs!Probed
    <3> QED
      BY <3>1, HardwareAssumption
  <2>3. ~hwEncoder.copy
    BY <1>2, <1>3, <2>1 DEF ProbeOK, SetsKnown
  <2> QED
    BY <1>2, <2>1, <2>2, <2>3 DEF ProbeOK
<1>12. HwPhases'
  BY <1>2, <1>5, <1>6, <1>7, <1>10, <1>11 DEF HwPhases, SetsReady, DecodeOK, SetsKnown
<1> QED
  BY <1>2, <1>8, <1>9, <1>12 DEF HwInvariant

LEMMA ProbeDecodesKeeps ==
    ASSUME HwInvariant, Codecs!ProbeDecodes
    PROVE  HwInvariant'
<1>1. PICK copy : copy = (~hwProbe.packets[SecondKey + 1].sets) /\ copy \in BOOLEAN
  <2>1. (~hwProbe.packets[SecondKey + 1].sets) \in BOOLEAN
    OBVIOUS
  <2> QED
    BY <2>1, Zenon
<1>2. /\ hwProbe.phase = "decode"
      /\ hwEncoder' = [hwEncoder EXCEPT !.copy = @ \/ copy, !.sets = @ \/ copy]
      /\ hwEntry' = [ok |-> TRUE, copy |-> hwEntry.copy \/ copy]
      /\ hwProbe' = [hwProbe EXCEPT !.phase = "pipeline"]
      /\ hwDecoder' = Codecs!NewHwDecoder("open")
      /\ UNCHANGED <<ffmpeg, handed>>
      /\ HwTypes /\ HwQueues /\ DecodeOK(hwEncoder, ffmpeg, hwProbe)
  BY <1>1 DEF Codecs!ProbeDecodes, HwInvariant, HwPhases
<1>3. /\ hwEncoder.copy \in BOOLEAN /\ hwEncoder.sets \in BOOLEAN /\ hwEntry.copy \in BOOLEAN
      /\ ffmpeg.firstOnly \in BOOLEAN
  BY <1>2 DEF HwTypes, HwEncoders, HwEntries, Ffmpegs
<1>4. PICK c \in BOOLEAN, s \in BOOLEAN, r \in BOOLEAN :
        c = (hwEncoder.copy \/ copy) /\ s = (hwEncoder.sets \/ copy) /\ r = (hwEntry.copy \/ copy)
  OBVIOUS
<1>5. hwEncoder' = [hwEncoder EXCEPT !.copy = c, !.sets = s] /\ hwEntry' = [ok |-> TRUE, copy |-> r]
  BY <1>2, <1>4
<1>6. /\ hwEncoder' \in HwEncoders /\ hwEntry' \in HwEntries
      /\ hwEncoder'.copy = c /\ hwEncoder'.sets = s /\ hwEntry'.ok /\ hwEntry'.copy = r
      /\ hwEncoder'.pending = hwEncoder.pending /\ hwEncoder'.next = hwEncoder.next
  <2>1. hwEncoder \in HwEncoders
    BY <1>2 DEF HwTypes
  <2>2. hwEncoder' \in HwEncoders
    BY <1>4, <1>5, <2>1 DEF HwEncoders
  <2>3. /\ hwEncoder'.copy = c /\ hwEncoder'.sets = s
        /\ hwEncoder'.pending = hwEncoder.pending /\ hwEncoder'.next = hwEncoder.next
    BY <1>4, <1>5, <2>1 DEF HwEncoders
  <2>4. hwEntry' \in HwEntries /\ hwEntry'.ok /\ hwEntry'.copy = r
    BY <1>4, <1>5 DEF HwEntries
  <2> QED
    BY <2>2, <2>3, <2>4
<1>7. hwProbe' \in HwProbes /\ hwProbe'.phase = "pipeline"
  BY <1>2 DEF HwTypes, HwProbes
<1>8. hwDecoder' \in HwDecoders /\ hwDecoder'.free = <<>>
  BY <1>2 DEF Codecs!NewHwDecoder, HwDecoders
<1>9. HwTypes' /\ HandedOK' /\ Len(hwDecoder'.free) <= PictureCache
  BY <1>2, <1>6, <1>7, <1>8, HardwareAssumption DEF HwInvariant, HwTypes, HandedOK, PacketsTaken
<1>10. HwQueues'
  BY <1>2, <1>6, <1>7 DEF HwQueues, Earlier, OwnPackets, SetsCome
<1>11. HwPhases'
  <2>1. ffmpeg.firstOnly => copy
    BY <1>1, <1>2 DEF DecodeOK
  <2>2. ffmpeg.firstOnly => c /\ s /\ r
    BY <1>3, <1>4, <2>1
  <2> QED
    BY <1>2, <1>6, <1>7, <2>2 DEF HwPhases, SetsReady, SetsKnown
<1> QED
  BY <1>9, <1>10, <1>11 DEF HwInvariant

LEMMA ReopenKeeps ==
    ASSUME HwInvariant, Codecs!Reopen
    PROVE  HwInvariant'
<1>1. /\ hwEncoder' = Codecs!NewHwEncoder(hwEntry.copy)
      /\ ffmpeg' = [ffmpeg EXCEPT !.queue = <<>>, !.first = TRUE]
      /\ hwProbe' = Codecs!NewProbe(hwEntry.ok)
      /\ hwDecoder' = Codecs!NewHwDecoder("none")
      /\ UNCHANGED <<hwEntry, handed>> /\ HwTypes
  BY DEF Codecs!Reopen, HwInvariant
<1>2. hwEntry.ok \in BOOLEAN /\ hwEntry.copy \in BOOLEAN /\ ffmpeg.firstOnly \in BOOLEAN
  BY <1>1 DEF HwTypes, HwEntries, Ffmpegs
<1>3. /\ hwEncoder' \in HwEncoders /\ hwEncoder'.pending = <<>> /\ hwEncoder'.next = 0
      /\ hwEncoder'.copy = hwEntry.copy /\ ~hwEncoder'.sets
  BY <1>1, <1>2 DEF Codecs!NewHwEncoder, HwEncoders
<1>4. /\ ffmpeg' \in Ffmpegs /\ ffmpeg'.queue = <<>> /\ ffmpeg'.firstOnly = ffmpeg.firstOnly
  <2>0. <<>> \in Seq(Packets)
    OBVIOUS
  <2>1. PICK q \in Seq(Packets) : q = <<>>
    BY <2>0, Zenon
  <2>2. ffmpeg' = [ffmpeg EXCEPT !.queue = q, !.first = TRUE]
    BY <1>1, <2>1
  <2>3. ffmpeg' \in Ffmpegs /\ ffmpeg'.queue = q /\ ffmpeg'.firstOnly = ffmpeg.firstOnly
    BY <1>1, <2>2 DEF HwTypes, Ffmpegs
  <2> QED
    BY <2>1, <2>3
<1>5. /\ hwProbe' \in HwProbes /\ hwProbe'.phase = "probe" /\ hwProbe'.sent = 0
      /\ hwProbe'.quick = hwEntry.ok /\ hwProbe'.packets = <<>>
  BY <1>1, <1>2 DEF Codecs!NewProbe, HwProbes
<1>6. hwDecoder' \in HwDecoders /\ hwDecoder'.free = <<>>
  BY <1>1 DEF Codecs!NewHwDecoder, HwDecoders
<1>7. HwTypes' /\ HandedOK' /\ Len(hwDecoder'.free) <= PictureCache
  BY <1>1, <1>3, <1>4, <1>5, <1>6, HardwareAssumption DEF HwInvariant, HwTypes, HandedOK, PacketsTaken
<1>8. HwQueues'
  BY <1>3, <1>4, <1>5 DEF HwQueues, Earlier, SetsCome
<1>9. HwPhases'
  BY <1>1, <1>3, <1>4, <1>5 DEF HwInvariant, HwPhases, ProbeOK, SetsKnown
<1> QED
  BY <1>7, <1>8, <1>9 DEF HwInvariant

LEMMA PipelineSendKeeps ==
    ASSUME HwInvariant, Codecs!PipelineSend
    PROVE  HwInvariant'
<1>1. PICK forceKey \in BOOLEAN : Codecs!HwSend(hwProbe.sent, hwProbe.sent, forceKey)
  BY DEF Codecs!PipelineSend
<1>2. /\ hwProbe.phase = "pipeline" /\ hwProbe' = [hwProbe EXCEPT !.sent = @ + 1]
      /\ UNCHANGED <<hwEntry, hwDecoder, handed>>
      /\ HwTypes /\ HwQueues /\ SetsReady(hwEncoder, ffmpeg)
  BY DEF Codecs!PipelineSend, HwInvariant, HwPhases
<1>3. hwProbe.sent \in Nat
  BY <1>2 DEF HwTypes, HwProbes
<1>4. /\ hwEncoder' \in HwEncoders /\ ffmpeg' \in Ffmpegs
      /\ Earlier(hwEncoder.pending, ffmpeg.queue, hwEncoder.next)'
      /\ SetsCome(ffmpeg.queue, ffmpeg.firstOnly)' /\ ~ffmpeg'.first
      /\ OwnPackets(hwEncoder.pending, ffmpeg.queue)'
      /\ hwEncoder'.copy = hwEncoder.copy /\ hwEncoder'.sets = hwEncoder.sets
      /\ ffmpeg'.firstOnly = ffmpeg.firstOnly
  <2>1. hwProbe.sent \in Nat \cup {NoSeq}
    BY <1>3
  <2>2. /\ Earlier(hwEncoder.pending, ffmpeg.queue, hwEncoder.next)
        /\ SetsCome(ffmpeg.queue, ffmpeg.firstOnly) /\ (ffmpeg.first => hwEncoder.next = 0)
        /\ OwnPackets(hwEncoder.pending, ffmpeg.queue)
    BY <1>2 DEF HwQueues
  <2> QED
    BY <1>1, <1>2, <1>3, <2>1, <2>2, SendKeeps, Zenon
<1>5. hwProbe' \in HwProbes /\ hwProbe'.phase = "pipeline"
  <2>1. PICK n \in Nat : n = hwProbe.sent + 1
    BY <1>3
  <2>2. hwProbe' = [hwProbe EXCEPT !.sent = n]
    BY <1>2, <2>1
  <2> QED
    BY <1>2, <2>2 DEF HwTypes, HwProbes
<1>6. HwTypes' /\ HandedOK'
  BY <1>2, <1>4, <1>5 DEF HwInvariant, HwTypes, HandedOK, PacketsTaken
<1>7. HwQueues'
  BY <1>4, <1>5 DEF HwQueues
<1>8. HwPhases'
  BY <1>2, <1>4, <1>5 DEF HwInvariant, HwPhases, SetsKnown, SetsReady
<1> QED
  BY <1>2, <1>6, <1>7, <1>8 DEF HwInvariant

LEMMA PipelineReceiveKeeps ==
    ASSUME HwInvariant, Codecs!PipelineReceive
    PROVE  HwInvariant'
<1> DEFINE got == Codecs!Received
           front == Codecs!FrontEntry
           out == Codecs!OutPacket
<1>1. /\ hwProbe.phase = "pipeline" /\ Codecs!Out /\ Codecs!TakeOut
      /\ handed' = IF Codecs!Discarded THEN handed ELSE got
      /\ hwProbe' = IF Codecs!InOrder THEN hwProbe ELSE [hwProbe EXCEPT !.phase = "closed"]
      /\ UNCHANGED <<hwEntry, hwDecoder>>
      /\ HwTypes /\ HwQueues /\ SetsReady(hwEncoder, ffmpeg) /\ HandedOK
  BY DEF Codecs!PipelineReceive, HwInvariant, HwPhases
<1>2. /\ hwEncoder' \in HwEncoders /\ ffmpeg' \in Ffmpegs /\ got \in PacketsTaken
      /\ front \in SentFrames /\ out \in Packets
      /\ hwEncoder.pending[1] = front /\ 1 \in 1..Len(hwEncoder.pending)
      /\ ffmpeg.queue[1] = out /\ 1 \in 1..Len(ffmpeg.queue)
      /\ hwEncoder'.next = hwEncoder.next /\ hwEncoder'.copy = hwEncoder.copy
      /\ hwEncoder'.sets = (hwEncoder.sets \/ (hwEncoder.copy /\ ~Codecs!Discarded /\ out.key /\ out.sets))
      /\ ffmpeg'.firstOnly = ffmpeg.firstOnly /\ ffmpeg'.first = ffmpeg.first
      /\ \A i \in 1..Len(hwEncoder'.pending) :
           \E k \in 1..Len(hwEncoder.pending) : hwEncoder'.pending[i] = hwEncoder.pending[k]
      /\ \A j \in 1..Len(ffmpeg'.queue) :
           \E k \in 1..Len(ffmpeg.queue) : ffmpeg'.queue[j] = ffmpeg.queue[k]
  BY <1>1, TakeKeeps
<1>3. hwEncoder.sets \in BOOLEAN /\ ffmpeg.firstOnly \in BOOLEAN
  BY <1>1 DEF HwTypes, HwEncoders, Ffmpegs
<1>4. /\ Earlier(hwEncoder.pending, ffmpeg.queue, hwEncoder.next)'
      /\ SetsCome(ffmpeg.queue, ffmpeg.firstOnly)' /\ (ffmpeg'.first => hwEncoder'.next = 0)
      /\ OwnPackets(hwEncoder.pending, ffmpeg.queue)'
  <2>1. /\ hwEncoder.pending \in Seq(SentFrames) /\ hwEncoder'.pending \in Seq(SentFrames)
        /\ ffmpeg.queue \in Seq(Packets) /\ ffmpeg'.queue \in Seq(Packets)
    BY <1>1, <1>2 DEF HwTypes, HwEncoders, Ffmpegs
  <2>2. /\ Earlier(hwEncoder.pending, ffmpeg.queue, hwEncoder.next)
        /\ SetsCome(ffmpeg.queue, ffmpeg.firstOnly)
        /\ OwnPackets(hwEncoder.pending, ffmpeg.queue)
    BY <1>1 DEF HwQueues
  <2>3. /\ \A i \in 1..Len(hwEncoder'.pending) :
             \E k \in 1..Len(hwEncoder.pending) : hwEncoder'.pending[i] = hwEncoder.pending[k]
        /\ \A j \in 1..Len(ffmpeg'.queue) :
             \E k \in 1..Len(ffmpeg.queue) : ffmpeg'.queue[j] = ffmpeg.queue[k]
    BY <1>2
  <2>4. /\ Earlier(hwEncoder'.pending, ffmpeg'.queue, hwEncoder.next)
        /\ SetsCome(ffmpeg'.queue, ffmpeg.firstOnly)
        /\ OwnPackets(hwEncoder'.pending, ffmpeg'.queue)
    BY <2>1, <2>2, <2>3, FewerInFlight, Zenon
  <2> QED
    BY <1>1, <1>2, <2>4 DEF HwQueues, Earlier, SetsCome, OwnPackets
<1> HIDE DEF got, front, out
<1>5. hwProbe' \in HwProbes /\ hwProbe'.phase \in {"pipeline", "closed"}
  <2>1. CASE Codecs!InOrder
    BY <1>1, <2>1 DEF HwTypes
  <2>2. CASE ~Codecs!InOrder
    BY <1>1, <2>2 DEF HwTypes, HwProbes
  <2> QED
    BY <2>1, <2>2
\* Under the pts of a frame comes that frame's packet; a key has its sets, or a copy.
<1>6. (got.seq # NoSeq => Codecs!Discarded \/ got.seq = got.of) /\ (got.key => got.sets)
  <2>1. got.seq # NoSeq => Codecs!Discarded \/ got.seq = got.of
    <3>1. ASSUME got.seq # NoSeq PROVE front.pts = out.pts /\ got.seq = front.seq /\ got.of = out.of
      BY <3>1 DEF got, front, out, Codecs!Received, Codecs!InOrder
    <3>2. front.pts = out.pts => front.discard \/ front.seq = out.of
      BY <1>1, <1>2 DEF HwQueues, OwnPackets
    <3>3. front.discard /\ front.pts = out.pts => Codecs!Discarded
      BY DEF front, out, Codecs!Discarded, Codecs!InOrder
    <3> QED
      BY <3>1, <3>2, <3>3
  <2>2. got.key => got.sets
    <3>1. out.key /\ ~ffmpeg.firstOnly => out.sets
      BY <1>1, <1>2 DEF HwQueues, SetsCome
    <3>2. got.key = out.key /\ got.sets = (out.key => out.sets \/ (hwEncoder.copy /\ hwEncoder.sets))
      BY DEF got, out, Codecs!Received, Codecs!CarriesSets
    <3> QED
      BY <1>1, <1>2, <3>1, <3>2 DEF SetsReady
  <2> QED
    BY <2>1, <2>2
<1>7. handed' \in PacketsTaken /\ HandedOK'
  <2>1. CASE Codecs!Discarded
    BY <1>1, <2>1 DEF HwTypes, HandedOK
  <2>2. CASE ~Codecs!Discarded
    BY <1>1, <1>2, <1>6, <2>2 DEF HandedOK
  <2> QED
    BY <2>1, <2>2
<1>8. HwTypes'
  BY <1>1, <1>2, <1>5, <1>7 DEF HwTypes, PacketsTaken
<1>9. HwQueues'
  BY <1>4 DEF HwQueues
<1>10. HwPhases'
  <2>1. SetsReady(hwEncoder, ffmpeg)'
    BY <1>1, <1>2, <1>3 DEF SetsReady
  <2> QED
    BY <1>1, <1>2, <1>5, <2>1 DEF HwInvariant, HwPhases, SetsKnown
<1> QED
  BY <1>1, <1>7, <1>8, <1>9, <1>10 DEF HwInvariant

LEMMA PipelineClosesKeeps ==
    ASSUME HwInvariant, Codecs!PipelineCloses
    PROVE  HwInvariant'
<1>0. PICK none \in Seq(SentFrames) : none = <<>>
  <2>1. <<>> \in Seq(SentFrames)
    OBVIOUS
  <2> QED
    BY <2>1, Zenon
<1>1. /\ hwProbe' = [hwProbe EXCEPT !.phase = "closed"]
      /\ hwEncoder' = [hwEncoder EXCEPT !.pending = none]
      /\ UNCHANGED <<ffmpeg, hwEntry, hwDecoder, handed>> /\ HwTypes
  BY <1>0 DEF Codecs!PipelineCloses, HwInvariant
<1>2. /\ hwProbe' \in HwProbes /\ hwProbe'.phase = "closed"
      /\ hwEncoder' \in HwEncoders /\ hwEncoder'.pending = none /\ hwEncoder'.next = hwEncoder.next
  BY <1>1 DEF HwTypes, HwProbes, HwEncoders
<1>3. HwTypes' /\ HandedOK'
  BY <1>1, <1>2 DEF HwInvariant, HwTypes, HandedOK, PacketsTaken
<1>4. HwQueues'
  BY <1>0, <1>1, <1>2 DEF HwInvariant, HwQueues, Earlier, SetsCome
<1>5. HwPhases'
  BY <1>1, <1>2 DEF HwInvariant, HwPhases, SetsKnown
<1> QED
  BY <1>1, <1>3, <1>4, <1>5 DEF HwInvariant

\* Some numbers up to N have a greatest one.
LEMMA NumbersHaveGreatest ==
    ASSUME NEW N \in Nat, NEW I, I \subseteq 1..N, I # {}
    PROVE  \E k \in I : \A i \in I : k >= i
<1> DEFINE M == {N - i : i \in I}
<1>1. \A i \in I : N - i \in Nat /\ i \in Int
  OBVIOUS
<1>2. M \subseteq Nat /\ M # {}
  BY <1>1
<1>3. PICK m \in M : \A n \in M : m <= n
  BY <1>2, NonemptyHasLeast
<1>4. PICK k \in I : m = N - k
  BY <1>3
<1>5. ASSUME NEW i \in I PROVE k >= i
  <2>1. N - k <= N - i
    BY <1>3, <1>4
  <2> QED
    BY <1>1, <2>1
<1> QED
  BY <1>4, <1>5

\* The step leaves everything but the decoder, whose free pictures are no more than the pool keeps.
LEMMA DecoderAlone ==
    ASSUME HwInvariant, UNCHANGED <<hwEncoder, ffmpeg, hwProbe, hwEntry, handed>>,
           hwDecoder' \in HwDecoders, Len(hwDecoder'.free) <= PictureCache
    PROVE  HwInvariant'
  BY DEF HwInvariant, HwTypes, HwQueues, HwPhases, HandedOK, Earlier, OwnPackets, SetsCome,
         ProbeOK, DecodeOK, SetsKnown, SetsReady, PacketsTaken

\* A picture is taken from the free ones, with those behind it.
LEMMA PictureTaken ==
    ASSUME hwDecoder \in HwDecoders, Len(hwDecoder.free) <= PictureCache, NEW size \in {0, 1},
           Codecs!PictureFor(size)
    PROVE  hwDecoder' \in HwDecoders /\ Len(hwDecoder'.free) <= PictureCache
<1> DEFINE I == {i \in 1..Len(hwDecoder.free) : hwDecoder.free[i] = size}
<1>1. hwDecoder.free \in Seq({0, 1}) /\ hwDecoder.out \in [{0, 1} -> Int] /\ Len(hwDecoder.free) \in Nat
  BY DEF HwDecoders
<1>2. PICK last : last = IF I # {} THEN Codecs!Max(I) ELSE 0
  OBVIOUS
<1>3. last \in 0..Len(hwDecoder.free)
  <2>1. CASE I = {}
    BY <1>1, <1>2, <2>1
  <2>2. CASE I # {}
    <3>1. PICK k \in I : \A i \in I : k >= i
      BY <1>1, <2>2, NumbersHaveGreatest
    <3>2. Codecs!Max(I) \in I
      BY <3>1 DEF Codecs!Max
    <3> QED
      BY <1>1, <1>2, <2>2, <3>2
  <2> QED
    BY <2>1, <2>2
<1>4. PICK kept \in 0..Len(hwDecoder.free) : kept = IF last = 0 THEN 0 ELSE last - 1
  BY <1>1, <1>3
<1>5. PICK free : free = SubSeq(hwDecoder.free, 1, kept)
  OBVIOUS
<1>6. free \in Seq({0, 1}) /\ Len(free) <= Len(hwDecoder.free) /\ Len(free) \in Nat
  <2>1. \A i \in 1..kept : hwDecoder.free[i] \in {0, 1}
    BY <1>1, <1>4
  <2>2. kept \in Int /\ 1 \in Int /\ kept >= 0
    BY <1>1, <1>4
  <2>3. /\ SubSeq(hwDecoder.free, 1, kept) \in Seq({0, 1})
        /\ Len(SubSeq(hwDecoder.free, 1, kept)) = IF 1 <= kept THEN kept - 1 + 1 ELSE 0
    BY <2>1, <2>2, SubSeqProperties
  <2> QED
    BY <1>1, <1>4, <1>5, <2>2, <2>3
<1>7. PICK out \in [{0, 1} -> Int] : out = [hwDecoder.out EXCEPT ![size] = @ + 1]
  <2>1. [hwDecoder.out EXCEPT ![size] = @ + 1] \in [{0, 1} -> Int]
    BY <1>1
  <2> QED
    BY <2>1, Zenon
<1>8. hwDecoder' = [hwDecoder EXCEPT !.out = out, !.free = free]
  BY <1>2, <1>4, <1>5, <1>7 DEF Codecs!PictureFor, Codecs!SelectLastInSeq
<1>9. hwDecoder' \in HwDecoders /\ hwDecoder'.free = free
  BY <1>6, <1>7, <1>8 DEF HwDecoders
<1> QED
  BY <1>1, <1>6, <1>9, HardwareAssumption

LEMMA DecodeKeeps ==
    ASSUME HwInvariant, Codecs!Decode
    PROVE  HwInvariant'
<1>1. /\ UNCHANGED <<hwEncoder, ffmpeg, hwProbe, hwEntry, handed>>
      /\ hwDecoder \in HwDecoders /\ Len(hwDecoder.free) <= PictureCache
  BY DEF Codecs!Decode, HwInvariant, HwTypes
<1>2. hwDecoder' \in HwDecoders /\ Len(hwDecoder'.free) <= PictureCache
  <2>1. CASE hwDecoder' = [hwDecoder EXCEPT !.openFailed = TRUE, !.broken = TRUE]
    BY <1>1, <2>1 DEF HwDecoders
  <2>2. CASE hwDecoder' = [hwDecoder EXCEPT !.ctx = "open"]
    BY <1>1, <2>2 DEF HwDecoders
  <2>3. CASE hwDecoder' = [hwDecoder EXCEPT !.broken = TRUE]
    BY <1>1, <2>3 DEF HwDecoders
  <2>4. CASE \E size \in {0, 1} : Codecs!PictureFor(size)
    BY <1>1, <2>4, PictureTaken
  <2> QED
    BY <2>1, <2>2, <2>3, <2>4 DEF Codecs!Decode
<1> QED
  BY <1>1, <1>2, DecoderAlone

LEMMA PictureReturnsKeeps ==
    ASSUME HwInvariant, Codecs!PictureReturns
    PROVE  HwInvariant'
<1>1. /\ UNCHANGED <<hwEncoder, ffmpeg, hwProbe, hwEntry, handed>>
      /\ hwDecoder \in HwDecoders /\ Len(hwDecoder.free) <= PictureCache
  BY DEF Codecs!PictureReturns, HwInvariant, HwTypes
<1>2. PICK size \in {0, 1} :
        hwDecoder' = [hwDecoder EXCEPT !.out[size] = @ - 1,
                          !.free = IF Len(@) < PictureCache THEN Append(@, size) ELSE @]
  BY DEF Codecs!PictureReturns
<1>3. hwDecoder.free \in Seq({0, 1}) /\ hwDecoder.out \in [{0, 1} -> Int]
  BY <1>1 DEF HwDecoders
<1>4. PICK out \in [{0, 1} -> Int] : out = [hwDecoder.out EXCEPT ![size] = @ - 1]
  <2>1. [hwDecoder.out EXCEPT ![size] = @ - 1] \in [{0, 1} -> Int]
    BY <1>3
  <2> QED
    BY <2>1, Zenon
<1>5. PICK free : free = IF Len(hwDecoder.free) < PictureCache THEN Append(hwDecoder.free, size) ELSE hwDecoder.free
  OBVIOUS
<1>6. free \in Seq({0, 1}) /\ Len(free) <= PictureCache
  BY <1>1, <1>3, <1>5, HardwareAssumption
<1>7. hwDecoder' = [hwDecoder EXCEPT !.out = out, !.free = free]
  BY <1>2, <1>4, <1>5
<1>8. hwDecoder' \in HwDecoders /\ Len(hwDecoder'.free) <= PictureCache
  BY <1>1, <1>4, <1>6, <1>7 DEF HwDecoders
<1> QED
  BY <1>1, <1>8, DecoderAlone

LEMMA HardwareStarts ==
    ASSUME Codecs!HwCodecInit
    PROVE  HwInvariant
<1>1. /\ hwEncoder = Codecs!NewHwEncoder(FALSE)
      /\ ffmpeg \in [queue : {<<>>}, hold : {0, 1}, firstOnly : BOOLEAN, first : {TRUE}, faults : {0}]
      /\ hwProbe = Codecs!NewProbe(FALSE) /\ hwEntry = [ok |-> FALSE, copy |-> FALSE]
      /\ hwDecoder = Codecs!NewHwDecoder("none") /\ handed = Codecs!NothingHanded
  BY DEF Codecs!HwCodecInit
<1>2. /\ hwEncoder \in HwEncoders /\ hwEncoder.pending = <<>> /\ hwEncoder.next = 0
      /\ ~hwEncoder.copy /\ ~hwEncoder.sets
  BY <1>1 DEF Codecs!NewHwEncoder, HwEncoders
<1>3. ffmpeg \in Ffmpegs /\ ffmpeg.queue = <<>>
  <2>0. <<>> \in Seq(Packets)
    OBVIOUS
  <2>1. PICK none \in Seq(Packets) : none = <<>>
    BY <2>0, Zenon
  <2>2. PICK hold \in {0, 1}, firstOnly \in BOOLEAN :
          ffmpeg = [queue |-> none, hold |-> hold, firstOnly |-> firstOnly, first |-> TRUE, faults |-> 0]
    BY <1>1, <2>1
  <2> QED
    BY <2>1, <2>2 DEF Ffmpegs
<1>4. /\ hwProbe \in HwProbes /\ hwProbe.phase = "probe" /\ hwProbe.sent = 0
      /\ ~hwProbe.quick /\ hwProbe.packets = <<>>
  BY <1>1 DEF Codecs!NewProbe, HwProbes
<1>5. hwEntry \in HwEntries /\ ~hwEntry.ok /\ ~hwEntry.copy
  BY <1>1 DEF HwEntries
<1>6. hwDecoder \in HwDecoders /\ hwDecoder.free = <<>>
  BY <1>1 DEF Codecs!NewHwDecoder, HwDecoders
<1>7. handed \in PacketsTaken /\ HandedOK
  BY <1>1 DEF Codecs!NothingHanded, PacketsTaken, HandedOK
<1>8. HwTypes /\ Len(hwDecoder.free) <= PictureCache
  BY <1>2, <1>3, <1>4, <1>5, <1>6, <1>7, HardwareAssumption DEF HwTypes
<1>9. HwQueues
  BY <1>2, <1>3, <1>4 DEF HwQueues, Earlier, SetsCome
<1>10. HwPhases
  BY <1>2, <1>3, <1>4, <1>5 DEF HwPhases, ProbeOK, SetsKnown, HwProbes, HwEncoders, HwEntries
<1> QED
  BY <1>7, <1>8, <1>9, <1>10 DEF HwInvariant

\* What the pipeline is handed as packet n is the packet of its frame n, or it
\* is told that the order broke; every key it is handed can start a decoder;
\* and the decoder keeps no more free pictures than its pool holds: for every
\* length of the probe and of the quick probe, every second key inside it,
\* every depth of FFmpeg's queue, every number of frames and every number of
\* faults (HwEncoder::Send and Receive, Probe, ReceiveReady, PicturePool).
THEOREM HardwareTheorem == PartsSpec => []PacketsAreThePipelines
<1> DEFINE Inv == part = "hardware" => HwInvariant
<1>1. PartsInit => Inv
  BY HardwareStarts DEF PartsInit
<1>2. Inv /\ [PartsNext]_<<part, vars, hardwareVars, stagingVars, soundVars, sizingVars, ladderVars, windowVars>>
        => Inv'
  <2> SUFFICES ASSUME Inv, part' = "hardware",
                      [PartsNext]_<<part, vars, hardwareVars, stagingVars, soundVars, sizingVars,
                                    ladderVars, windowVars>>
               PROVE  HwInvariant'
    OBVIOUS
  <2>1. part' = part
    BY DEF PartsNext
  <2>2. HwInvariant
    BY <2>1
  <2>3. Codecs!HwCodecNext \/ UNCHANGED hardwareVars
    BY <2>1 DEF PartsNext
  <2>4. CASE UNCHANGED hardwareVars
    BY <2>2, <2>4, HardwareUnchanged
  <2>5. CASE Codecs!HwCodecNext
    BY <2>2, <2>5, HwBreaksKeeps, ReordersKeeps, DrainKeeps, ProbeSendKeeps, ProbeCollectKeeps,
       ProbeGivesUpKeeps, ProbeChecksKeeps, ProbeDecodesKeeps, ReopenKeeps, PipelineSendKeeps,
       PipelineReceiveKeeps, PipelineClosesKeeps, DecodeKeeps, PictureReturnsKeeps, Zenon
       DEF Codecs!HwCodecNext
  <2> QED
    BY <2>3, <2>4, <2>5
<1>3. Inv => PacketsAreThePipelines
  BY DEF PacketsAreThePipelines, Codecs!PacketsAreThePipelines, HwInvariant, HandedOK
<1> QED
  BY <1>1, <1>2, <1>3, PTL DEF PartsSpec
=============================================================================
