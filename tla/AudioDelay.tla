----------------------------- MODULE AudioDelay -----------------------------
(***************************************************************************)
(* audio-delay-filter.cpp: the ring of samples between an audio source and *)
(* OBS's mixer.  The audio thread calls FilterAudio with a chunk of        *)
(* samples; the dock, and others, change the filter's settings from the UI *)
(* thread meanwhile; a source that is idle delivers nothing, one that      *)
(* restarts delivers older timestamps, a plane may be missing.             *)
(*                                                                         *)
(* A sample is the source's run and its timestamp, in samples; the time    *)
(* tolerance is 0 (OBS stamps a steady source's chunks contiguously).      *)
(***************************************************************************)
EXTENDS Integers, Sequences

CONSTANTS
    SampleRate,     \* samples per second
    AudioDelays,    \* seconds the dock or others ask for
    MaxChunk,       \* samples per call
    MaxTime,        \* bound: the source's timestamps
    MaxPushes,      \* bound: settings changed, filter switched
    Silence

VARIABLES
    auFilter,   \* [delay, managed, settings, token, applied, reset, enabled]
    auRing,     \* [cells, write, buffered, expected]: `expected` is -1 when there is none
    auSource,   \* [run, now, pushes]
    auOut,      \* the last chunk: [at, delay, in, out]
    delivered   \* what was put in since the history began: [from, samples]

audioVars == <<auFilter, auRing, auSource, auOut, delivered>>

kRingMarginSeconds == 1
Length(delay) == (delay + kRingMarginSeconds) * SampleRate

NoHistory(cells) == [cells |-> cells, write |-> 0, buffered |-> 0, expected |-> -1]
NoRing_ == NoHistory(<<>>)
NoChunk == [at |-> 0, delay |-> 0, out |-> <<>>]

AudioInit ==
    /\ auFilter = [delay |-> 0, managed |-> FALSE, settings |-> 0, token |-> 0, applied |-> 0,
                   reset |-> FALSE, enabled |-> FALSE]
    /\ auRing = NoRing_
    /\ auSource = [run |-> 0, now |-> 1, pushes |-> 0]
    /\ auOut = NoChunk
    /\ delivered = [from |-> 0, samples |-> {}]

-----------------------------------------------------------------------------
(* The ring, by its own indices. *)

\* EnsureRingSized: another length empties it.
Sized(ring, delay) ==
    IF Len(ring.cells) = Length(delay) THEN ring ELSE NoHistory([i \in 1..Length(delay) |-> Silence])

Written(ring, samples) ==
    LET n == Len(ring.cells)
        At(i) == ((i - 1 - ring.write + n) % n) + 1
    IN  [ring EXCEPT !.cells = [i \in 1..n |-> IF At(i) <= Len(samples) THEN samples[At(i)] ELSE ring.cells[i]],
                     !.write = (ring.write + Len(samples)) % n,
                     !.buffered = IF ring.buffered + Len(samples) > n THEN n ELSE ring.buffered + Len(samples)]

\* Mutant: a gap advances nothing.
WriteSilence_Nothing(ring, frames) == ring

WriteSilence(ring, frames) == Written(ring, [i \in 1..frames |-> Silence])

\* The wall clock: a gap is filled with silence; one longer than the ring, or a step back, starts over.
OnTheClock(ring, at, frames) ==
    LET drift == at - ring.expected
    IN  IF ring.expected = -1 \/ drift = 0 THEN ring
        ELSE IF drift < 0 \/ drift >= Len(ring.cells) - frames THEN NoHistory(ring.cells)
        ELSE WriteSilence(ring, drift)

\* The window of `frames` samples that is `delay` old, or silence while there is not enough history.
Window_(ring, delay, frames) ==
    LET n == Len(ring.cells)
        wanted == delay * SampleRate
        behind == IF wanted > n - frames THEN n - frames ELSE wanted
        read == (ring.write + 2 * n - frames - behind) % n
    IN  IF ring.buffered >= behind + frames
        THEN [i \in 1..frames |-> ring.cells[((read + i - 1) % n) + 1]]
        ELSE [i \in 1..frames |-> Silence]

\* FilterAudio: a chunk of the source, at its timestamp, or a missing plane.  The delay is read once.
Filter(at, run, frames, present) ==
    LET sized == Sized(auRing, auFilter.delay)
        clean == IF auFilter.reset THEN NoHistory(sized.cells) ELSE sized
        clocked == OnTheClock(clean, at, frames)
        chunk == [i \in 1..frames |-> IF present THEN <<run, at + i - 1>> ELSE Silence]
        ring == [Written(clocked, chunk) EXCEPT !.expected = at + frames]
        restarted == clocked.expected = -1
    IN  /\ auRing' = ring
        /\ auFilter' = [auFilter EXCEPT !.reset = FALSE]
        /\ auOut' = [at |-> at, delay |-> auFilter.delay, out |-> Window_(ring, auFilter.delay, frames)]
        /\ delivered' = [from |-> IF restarted THEN at ELSE delivered.from,
                         samples |-> (IF restarted THEN {} ELSE delivered.samples)
                                     \cup IF present THEN {<<run, at + i - 1>> : i \in 1..frames} ELSE {}]

FilterAudio ==
    /\ auFilter.enabled
    /\ \E frames \in 1..MaxChunk, gap \in 0..MaxTime, present \in BOOLEAN :
         /\ auSource.now + gap + frames <= MaxTime + 1
         /\ ~present => gap = 0
         /\ Filter(auSource.now + gap, auSource.run, frames, present)
         /\ auSource' = [auSource EXCEPT !.now = @ + gap + frames]

\* The source goes on while the filter is switched off, or restarts at an earlier timestamp.
SourceRuns ==
    /\ \/ ~auFilter.enabled /\ auSource.now < MaxTime /\ auSource' = [auSource EXCEPT !.now = @ + 1]
       \/ auSource.run = 0 /\ \E t \in 1..auSource.now - 1 : auSource' = [auSource EXCEPT !.run = 1, !.now = t]
    /\ UNCHANGED <<auFilter, auRing, auOut, delivered>>

-----------------------------------------------------------------------------
(* The settings, from the UI thread. *)

Pushes == auSource.pushes < MaxPushes /\ auSource' = [auSource EXCEPT !.pushes = @ + 1]

\* Update: the dock's delay once it has pushed one, the settings' before; another token asks for a reset.
Update(settings, token, managed, delay) ==
    auFilter' = [auFilter EXCEPT
        !.managed = managed, !.settings = settings, !.token = token, !.applied = token,
        !.delay = IF managed THEN delay ELSE settings,
        !.reset = @ \/ token # auFilter.applied]

\* SetManagedDelaySecondsProc and the update after it.
SetManagedDelaySeconds ==
    /\ Pushes
    /\ \E delay \in AudioDelays : Update(delay, auFilter.token, TRUE, delay)
    /\ UNCHANGED <<auRing, auOut, delivered>>

ForeignUpdate ==
    /\ Pushes
    /\ \E delay \in {0} \cup AudioDelays : Update(delay, auFilter.token, auFilter.managed, auFilter.delay)
    /\ UNCHANGED <<auRing, auOut, delivered>>

\* SetAudioDelayFiltersEnabled: on with another token, off, as the cycle begins and ends.
SetEnabled ==
    /\ Pushes
    /\ \/ /\ auFilter.enabled
          /\ auFilter' = [auFilter EXCEPT !.enabled = FALSE]
       \/ /\ ~auFilter.enabled /\ auFilter.managed
          /\ auFilter' = [auFilter EXCEPT !.enabled = TRUE, !.token = @ + 1, !.applied = auFilter.token + 1,
                                          !.reset = TRUE]
    /\ UNCHANGED <<auRing, auOut, delivered>>

AudioNext == FilterAudio \/ SourceRuns \/ SetManagedDelaySeconds \/ ForeignUpdate \/ SetEnabled

-----------------------------------------------------------------------------
\* A pure delay line: what the mixer hears at time t is what the source delivered at t minus the delay, and
\* silence where it delivered nothing; nothing of before a reset, of another run of the source, of another
\* lap of the ring, of the time the filter was off, and no stretch of the delay by the source's pauses.
HeardIsDelayed ==
    \A i \in DOMAIN auOut.out :
      LET t == auOut.at + i - 1 - auOut.delay * SampleRate
          due == {<<run, t>> : run \in {0, 1}} \cap delivered.samples
          whole == auOut.at - auOut.delay * SampleRate >= delivered.from
      IN  IF whole /\ due # {} THEN due = {auOut.out[i]} ELSE auOut.out[i] = Silence
=============================================================================
