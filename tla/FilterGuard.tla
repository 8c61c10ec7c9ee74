---------------------------- MODULE FilterGuard ----------------------------
(***************************************************************************)
(* The guard of the delay filters.  While the delay is on the bridge keeps *)
(* a weak reference to each filter it switched on and listens to its       *)
(* "enable" signal, to switch it back on when somebody else (obs-websocket,*)
(* the Filters dialog, another plugin) switches it off.                    *)
(*                                                                         *)
(* libobs flips a source's enabled flag first and then emits "enable";     *)
(* callbacks run under the signal's own mutex, which disconnecting takes   *)
(* as well.  The bridge's side is `todo`, its remaining calls; every other *)
(* thread that may switch a filter off is one of Outsiders.                *)
(***************************************************************************)
EXTENDS Naturals, Sequences, FiniteSets, SequencesExt

CONSTANTS
  Audio,      \* the audio filters of the live scene, switched on in some order
  Video,      \* the video filter
  Outsiders,  \* threads of others that switch filters off
  Early       \* whether they do so while the delay is being switched on

Filters == Audio \cup {Video}

\* A scene has finitely many filters.
ASSUME FilterAssumption == Video \notin Audio /\ IsFiniteSet(Audio)
ASSUME EarlyAssumption == Early \in BOOLEAN

VARIABLES
  on,         \* libobs: the enabled flag of each filter
  listening,  \* libobs: filters whose signal has the guard connected
  kept,       \* filters the bridge keeps a weak reference to
  delayOn,    \* what the bridge was last asked for
  todo,       \* the bridge calls still to make
  outsider    \* what each outsider is doing: [at, filter]

vars == <<on, listening, kept, delayOn, todo, outsider>>

Away == [at |-> "away", filter |-> Video]
Settled == todo = <<>>

\* A callback of f's signal is running, with the signal's mutex held.
InCallback(f) == \E t \in Outsiders : outsider[t].filter = f /\ outsider[t].at \in {"called", "checked"}

Init ==
  /\ on = [f \in Filters |-> FALSE]
  /\ listening = {} /\ kept = {} /\ delayOn = FALSE /\ todo = <<>>
  /\ outsider = [t \in Outsiders |-> Away]

-----------------------------------------------------------------------------
(* The bridge. *)

CallsFor(order, calls) == FlattenSeq([i \in 1..Len(order) |-> [j \in 1..Len(calls) |-> <<calls[j], order[i]>>]])

\* Mutant: the filters are never kept.
SwitchOnCalls_NotKept(order) == CallsFor(Append(order, Video), <<"on", "listen">>)

\* Mutant: switched off while the guard still listens.
SwitchOffCalls_OffFirst(order) == CallsFor(<<Video>> \o order, <<"off", "unlisten", "forget">>)

\* Enable switches the audio filters on first, then the video filter; each is
\* on before it is kept, and kept before it is listened to.
SwitchOnCalls(order) == CallsFor(Append(order, Video), <<"on", "keep", "listen">>)

\* Disable unguards before it switches off, the video filter first; the audio
\* filters are all forgotten before the first of them goes off.
SwitchOffCalls(order) ==
  CallsFor(<<Video>>, <<"forget", "unlisten", "off">>)
  \o CallsFor(order, <<"forget">>) \o CallsFor(order, <<"unlisten">>) \o CallsFor(order, <<"off">>)

Ask(state, calls) ==
  /\ Settled /\ delayOn # state
  /\ delayOn' = state /\ todo' = calls
  /\ UNCHANGED <<on, listening, kept, outsider>>
SwitchOn == \E order \in SetToSeqs(Audio) : Ask(TRUE, SwitchOnCalls(order))
SwitchOff == \E order \in SetToSeqs(Audio) : Ask(FALSE, SwitchOffCalls(order))

Next1(name, f) == todo # <<>> /\ Head(todo) = <<name, f>> /\ todo' = Tail(todo)

\* obs_source_set_enabled by the bridge: its own signals change nothing.
SetEnabled(f) ==
  /\ \/ Next1("on", f) /\ on' = [on EXCEPT ![f] = TRUE]
     \/ Next1("off", f) /\ on' = [on EXCEPT ![f] = FALSE]
  /\ UNCHANGED <<listening, kept, delayOn, outsider>>

Keep(f) ==
  /\ \/ Next1("keep", f) /\ kept' = kept \cup {f}
     \/ Next1("forget", f) /\ kept' = kept \ {f}
  /\ UNCHANGED <<on, listening, delayOn, outsider>>

ConnectGuard(f) ==
  /\ Next1("listen", f) /\ listening' = listening \cup {f}
  /\ UNCHANGED <<on, kept, delayOn, outsider>>

\* Waits for a callback that is running.
DisconnectGuard(f) ==
  /\ Next1("unlisten", f) /\ ~InCallback(f) /\ listening' = listening \ {f}
  /\ UNCHANGED <<on, kept, delayOn, outsider>>

Bridge ==
  \/ SwitchOn \/ SwitchOff
  \/ \E f \in Filters : SetEnabled(f) \/ Keep(f) \/ ConnectGuard(f) \/ DisconnectGuard(f)

-----------------------------------------------------------------------------
(* An outsider switches a filter off; the guard's callback runs on it. *)

Goes(t, state) == outsider' = [outsider EXCEPT ![t] = state]

Flip(t, f) ==
  /\ outsider[t] = Away /\ on[f]
  /\ Early \/ Settled \/ ~delayOn
  /\ on' = [on EXCEPT ![f] = FALSE]
  /\ Goes(t, [at |-> "flipped", filter |-> f])
  /\ UNCHANGED <<listening, kept, delayOn, todo>>

\* The signal: nobody listening, or the guard's callback starts.
Emit(t) ==
  /\ outsider[t].at = "flipped" /\ ~InCallback(outsider[t].filter)
  /\ Goes(t, IF outsider[t].filter \in listening THEN [outsider[t] EXCEPT !.at = "called"] ELSE Away)
  /\ UNCHANGED <<on, listening, kept, delayOn, todo>>

\* DelayFilterEnableSignal: only a filter the delay switched on.
IsGuardedFilter(t) ==
  /\ outsider[t].at = "called"
  /\ Goes(t, IF outsider[t].filter \in kept THEN [outsider[t] EXCEPT !.at = "checked"] ELSE Away)
  /\ UNCHANGED <<on, listening, kept, delayOn, todo>>

SwitchBackOn(t) ==
  /\ outsider[t].at = "checked"
  /\ on' = [on EXCEPT ![outsider[t].filter] = TRUE]
  /\ Goes(t, Away)
  /\ UNCHANGED <<listening, kept, delayOn, todo>>

Outside(t) ==
  \/ \E f \in Filters : Flip(t, f)
  \/ Emit(t) \/ IsGuardedFilter(t) \/ SwitchBackOn(t)

Next == Bridge \/ \E t \in Outsiders : Outside(t)

Spec == Init /\ [][Next]_vars

-----------------------------------------------------------------------------
(* Properties. *)

\* The type invariant; a callback runs only while its filter is listened to.
TypeOK ==
  /\ on \in [Filters -> BOOLEAN]
  /\ listening \subseteq Filters /\ kept \subseteq Filters
  /\ delayOn \in BOOLEAN
  /\ todo \in Seq({"on", "off", "keep", "forget", "listen", "unlisten"} \X Filters)
  /\ \A f \in Filters : InCallback(f) => f \in listening
  /\ outsider \in [Outsiders -> [at : {"away", "flipped", "called", "checked"}, filter : Filters]]

\* A filter switched off by Disable stays off: no guard callback that was
\* already under way brings it back. The state is well typed, and no callback
\* outlives its connection.
OffStaysOff ==
  /\ TypeOK
  /\ Settled /\ ~delayOn => \A f \in Filters : ~on[f]

\* While the delay is on, every filter is on, or the call that switched it
\* off is not over yet.
OnStaysOn ==
  Settled /\ delayOn =>
    \A f \in Filters : on[f] \/ \E t \in Outsiders : outsider[t].filter = f /\ outsider[t].at # "away"

\* Off stays off and on stays on, whoever switches the filters meanwhile.
FiltersStay == OffStaysOff /\ OnStaysOn
=============================================================================
