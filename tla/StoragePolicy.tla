--------------------------- MODULE StoragePolicy ---------------------------
(***************************************************************************)
(* storage-codec-policy.cpp: Policy::Evaluate as a table of rules, the     *)
(* first that applies decides.  The policy keeps times; here it keeps how  *)
(* long ago they were, in evaluations (one every 250 ms), up to the        *)
(* threshold they are compared with.                                       *)
(***************************************************************************)
EXTENDS Integers, Sequences, SequencesExt

CONSTANTS
    Cooldown,   \* t_.cooldownNs: before a warning acts, after the previous transition
    WarnHold,   \* t_.warnHoldNs: a warning must have held this long
    Veto        \* t_.vetoNs: no going up again this long after a warning

ASSUME StoragePolicyAssumption == Cooldown \in Nat /\ WarnHold \in Nat /\ Veto \in Nat \ {0}

NoWarning == -1

PolicyStates == {"Mjpeg", "Probing", "Hw", "HwGuarded", "Yielded", "Evacuated"}

Policies == [state : PolicyStates, since : 0..Cooldown, warned : NoWarning..WarnHold,
             veto : 0..Veto, error : BOOLEAN]

\* A policy starts settled: its last transition is at time 0.
Policy(hardware) == [state |-> IF hardware THEN "Probing" ELSE "Mjpeg", since |-> Cooldown,
                     warned |-> NoWarning, veto |-> 0, error |-> FALSE]

Hardware(p) == p.state \in {"Probing", "Hw", "HwGuarded"}

\* The degradation policy must not go up.
BlockUp(p) == p.veto > 0

Storing(p) == p.state \in {"Hw", "HwGuarded"}

AtMost(n, limit) == IF n < limit THEN n ELSE limit

\* What the clock alone does to a policy between two evaluations.
Aged(p) == [p EXCEPT !.since = AtMost(@ + 1, Cooldown),
                     !.warned = IF @ = NoWarning THEN @ ELSE AtMost(@ + 1, WarnHold),
                     !.veto = IF @ > 0 THEN @ - 1 ELSE 0]

Rule(applies, action, reason, state, veto) ==
    [applies |-> applies, action |-> action, reason |-> reason, state |-> state, veto |-> veto]

\* A sample has the fields active, setupFailed, hard, yielded, shared, obsSkipped, obsError,
\* latency, queued and canLower.
Warns(s) == s.shared /\ (s.latency \/ s.queued)

\* The returns of Evaluate in their order; `p` is aged, `pending` an OBS encoder error kept or new,
\* `held` whether a warning has held long enough and the policy is settled.
Rules(p, s, pending, held) ==
    LET idle     == p.state \in {"Mjpeg", "Evacuated"}
        probing  == p.state = "Probing"
        stay     == p.state
        evacuate(applies, reason) == Rule(applies, "Evacuate", reason, "Evacuated", 0)
    IN  << Rule(idle, "None", "None", stay, p.veto),
           evacuate(s.hard, "HardError"),
           Rule(probing /\ s.yielded, "Yield", "None", "Yielded", p.veto),
           Rule(probing /\ s.active, "Adopted", "None", "Hw", p.veto),
           Rule(probing /\ s.setupFailed, "NoHardware", "NoEncoder", "Mjpeg", p.veto),
           Rule(p.state = "Yielded" /\ ~s.yielded, "Resume", "None", "Probing", p.veto),
           Rule(~Storing(p), "None", "None", stay, p.veto),
           evacuate(pending /\ s.shared, "ObsEncodeError"),
           Rule(s.yielded, "Yield", "None", "Yielded", p.veto),
           evacuate(s.setupFailed, "NoEncoder"),
           evacuate(s.shared /\ s.obsSkipped, "ObsSkipped"),
           Rule(held /\ s.canLower, "LowerRung", "Warning", "HwGuarded", Veto),
           evacuate(held, "LatencyAtFloor"),
           Rule(p.state = "HwGuarded" /\ ~Warns(s) /\ p.veto = 0, "VetoLifted", "None", "Hw", 0),
           Rule(TRUE, "None", "None", stay, p.veto) >>

\* Mutant: an error that comes while nothing can be done about it is forgotten.
Pending_Now(p, s) == s.obsError

\* OBS's encoder error, new or kept from when the hardware encoder did not store.
Pending(p, s) == p.error \/ s.obsError

Evaluate(before, s) ==
    LET p       == Aged(before)
        pending == Pending(p, s)
        warned  == CASE ~Storing(p) -> p.warned
                     [] Storing(p) /\ ~Warns(s) -> NoWarning
                     [] OTHER -> IF p.warned = NoWarning THEN 0 ELSE p.warned
        held    == warned = WarnHold /\ p.since = Cooldown
        rules   == Rules(p, s, pending, held)
        rule    == rules[SelectInSeq(rules, LAMBDA r : r.applies)]
        moved   == rule.action # "None"                       \* Go()
    IN  [action |-> rule.action, reason |-> rule.reason,
         policy |-> [state  |-> rule.state,
                     since  |-> IF moved THEN 0 ELSE p.since,
                     warned |-> IF moved THEN NoWarning ELSE warned,
                     veto   |-> rule.veto,
                     error  |-> /\ pending
                                /\ p.state \notin {"Mjpeg", "Evacuated"}
                                /\ Storing(p) => s.hard]]
=============================================================================
