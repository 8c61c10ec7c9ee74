--------------------------- MODULE BufferModeProofs --------------------------
(***************************************************************************)
(* Theorems about the controller of buffer mode (BufferMode).  A handler   *)
(* is the list of bridge calls it still has to make; the invariant follows *)
(* that list to its end: from what holds now, the calls left lead to       *)
(* filters, keep-alive, audio and overlay that are as the mode says.       *)
(***************************************************************************)
EXTENDS BufferMode, SequenceTheorems, TLAPS
-----------------------------------------------------------------------------
(* What a handler is about: the controller and the filters as its calls    *)
(* leave them.  `delayed`, `synced`, `told` and `fresh` are claims, true   *)
(* where they are made.                                                    *)

\* The video filter has the delay the user asked for; audio and the effective
\* seconds are those planned; the overlay tells them; the countdown runs.
Delayed == video.delay = ctl.delay
Synced == ctl.effective = PlannedEffective /\ audio.delay = PlannedEffective /\ PlannedEffective <= ctl.delay
Told == overlay.seconds = PlannedEffective
Fresh == timer.left > 0

\* A loading scene is chosen: a refill is covered, and fed by the keep-alive.
Covered == Loading # ""

View == [mode : Modes, video : BOOLEAN, audio : BOOLEAN, held : BOOLEAN, visible : BOOLEAN, armed : BOOLEAN,
         delayed : BOOLEAN, synced : BOOLEAN, told : BOOLEAN, fresh : BOOLEAN]

\* What a call does to the view.
Effect(c, a) ==
  CASE c[1] = "delay"   -> [a EXCEPT !.delayed = TRUE, !.synced = FALSE, !.told = FALSE]
    [] c[1] = "height"  -> [a EXCEPT !.synced = FALSE, !.told = FALSE]
    [] c[1] = "sync"    -> [a EXCEPT !.synced = a.delayed]
    [] c[1] = "audio"   -> [a EXCEPT !.audio = c[2]]
    [] c[1] = "video"   -> [a EXCEPT !.video = c[2]]
    [] c[1] = "acquire" -> [a EXCEPT !.held = TRUE]
    [] c[1] = "drop"    -> [a EXCEPT !.held = FALSE]
    [] c[1] = "hide"    -> [a EXCEPT !.visible = FALSE, !.synced = FALSE, !.told = FALSE]
    [] c[1] = "overlay" -> [a EXCEPT !.visible = (a.mode = "Active"), !.told = a.synced]
    [] c[1] = "state"   -> [a EXCEPT !.mode = c[2], !.armed = FALSE]
    [] c[1] = "window"  -> [a EXCEPT !.mode = "Filling", !.armed = TRUE, !.fresh = TRUE]
    [] c[1] = "load"    -> [a EXCEPT !.video = c[2].on, !.audio = c[2].on]
    [] c[1] = "clean"   -> [a EXCEPT !.video = FALSE, !.audio = FALSE]
    [] OTHER            -> a

Sound(a) ==
  /\ a.mode = ctl.mode /\ a.video = video.on /\ a.audio = audio.on /\ a.held = ctl.held
  /\ a.visible = overlay.visible /\ a.armed = timer.armed
  /\ a.delayed => Delayed
  /\ a.synced => Synced
  /\ a.told => Told
  /\ a.fresh => Fresh

Calls ==
  ({"delay"} \X Delays) \cup ({"height"} \X Heights) \cup ({"audio", "video"} \X BOOLEAN)
  \cup ({"sync", "acquire", "drop", "hide", "overlay", "window", "remember", "clean"} \X {0})
  \cup ({"state"} \X {"Inactive", "Active"}) \cup ({"show"} \X Scenes)
  \cup ({"load"} \X [on : BOOLEAN, program : Scenes])

BusyIn(b) == b.mode \in {"Filling", "Active"}

\* How a handler leaves the filters and the keep-alive.
ModeEnd(b) ==
  /\ b.mode \in Modes
  /\ b.mode # "Error" => (b.video <=> BusyIn(b)) /\ (b.audio <=> BusyIn(b))
  /\ ~BusyIn(b) => ~b.visible /\ ~b.armed
  /\ b.held <=> b.mode = "Filling"

\* How it leaves audio, video and the overlay, when nothing but the user's own
\* changes restarts the buffer; the last second of a window passes with a frame
\* in the ring or a restart announced.
Announced == inbox > 0
SyncEnd(b) ==
  /\ BusyIn(b) => b.delayed
  /\ b.mode = "Active" => Announced \/ (ring.held > 0 /\ b.visible /\ b.synced /\ b.told)
  /\ b.mode = "Filling" => b.fresh \/ Announced \/ ring.held > 0

\* Calls that empty the ring are made on the way to a fresh window, or out.
Empties == {"video", "load", "clean"}
Calm(b) == b.mode # "Active" /\ (b.mode = "Filling" => b.fresh)

Scripted ==
  /\ script \in Seq(Calls)
  /\ \A i \in DOMAIN script : script[i][1] = "delay" => script[i][2] = ctl.delay
  /\ timer.armed => timer.generation = ctl.generation

-----------------------------------------------------------------------------
(* Following a list of calls. *)

\* The calls of s lead from a to b.
Runs(s, a, b) ==
  \E p : /\ DOMAIN p = 1..Len(s) + 1 /\ p[1] = a /\ p[Len(s) + 1] = b
         /\ \A i \in 1..Len(s) : p[i + 1] = Effect(s[i], p[i])

LEMMA RunsNothing == ASSUME NEW s, s = << >>, NEW a, NEW b PROVE Runs(s, a, b) <=> a = b
<1>1. ASSUME a = b PROVE Runs(s, a, b)
  <2>1. PICK p : p = [i \in 1..1 |-> a]
    OBVIOUS
  <2>2. DOMAIN p = 1..Len(s) + 1 /\ p[1] = a /\ p[Len(s) + 1] = b
    BY <1>1, <2>1
  <2>3. \A i \in 1..Len(s) : p[i + 1] = Effect(s[i], p[i])
    OBVIOUS
  <2> QED
    BY <2>2, <2>3 DEF Runs
<1>2. ASSUME Runs(s, a, b) PROVE a = b
  BY <1>2 DEF Runs
<1> QED
  BY <1>1, <1>2

LEMMA RunsOne == ASSUME NEW c, NEW a PROVE Runs(<<c>>, a, Effect(c, a))
<1>1. PICK s, e, p : s = <<c>> /\ e = Effect(c, a) /\ p = [i \in 1..2 |-> IF i = 1 THEN a ELSE e]
  OBVIOUS
<1>2. Len(s) = 1 /\ s[1] = c /\ DOMAIN p = 1..2 /\ p[1] = a /\ p[2] = e
  BY <1>1
<1>3. \A i \in 1..1 : p[i + 1] = Effect(s[i], p[i])
  <2>1. p[1 + 1] = Effect(s[1], p[1])
    BY <1>1, <1>2
  <2> QED
    BY <2>1
<1>4. Runs(s, a, e)
  BY <1>2, <1>3 DEF Runs
<1> QED
  BY <1>1, <1>4

LEMMA RunsJoin ==
    ASSUME NEW C, NEW s \in Seq(C), NEW t \in Seq(C), NEW a, NEW b, NEW c, Runs(s, a, b), Runs(t, b, c)
    PROVE  Runs(s \o t, a, c)
<1>1. PICK m, n, u : m = Len(s) /\ n = Len(t) /\ u = s \o t
  OBVIOUS
<1>2. /\ m \in Nat /\ n \in Nat /\ Len(u) = m + n
      /\ \A i \in 1..m : u[i] = s[i]
      /\ \A i \in m + 1..m + n : u[i] = t[i - m]
  BY <1>1
<1>3. PICK p : /\ p[1] = a /\ p[m + 1] = b
               /\ \A i \in 1..m : p[i + 1] = Effect(s[i], p[i])
  BY <1>1 DEF Runs
<1>4. PICK q : /\ q[1] = b /\ q[n + 1] = c
               /\ \A i \in 1..n : q[i + 1] = Effect(t[i], q[i])
  BY <1>1 DEF Runs
<1>5. PICK r : r = [i \in 1..m + n + 1 |-> IF i <= m THEN p[i] ELSE q[i - m]]
  OBVIOUS
<1>6. r[1] = a
  <2>1. 1 \in 1..m + n + 1 /\ (m = 0 \/ 1 <= m)
    BY <1>2
  <2>2. m = 0 => 1 - m = 1 /\ ~(1 <= m) /\ m + 1 = 1
    BY <1>2
  <2> QED
    BY <1>3, <1>4, <1>5, <2>1, <2>2
<1>7. r[m + n + 1] = c
  <2>1. PICK k : k = m + n + 1
    OBVIOUS
  <2>2. k \in 1..m + n + 1 /\ ~(k <= m) /\ k - m = n + 1
    BY <1>2, <2>1
  <2>3. r[k] = q[k - m]
    BY <1>5, <2>2
  <2> QED
    BY <1>4, <2>1, <2>2, <2>3
<1>8. ASSUME NEW i \in 1..m + n PROVE r[i + 1] = Effect(u[i], r[i])
  <2>0. i \in 1..m + n + 1 /\ i + 1 \in 1..m + n + 1
    BY <1>2
  <2>1. CASE i < m
    <3>1. i \in 1..m /\ i <= m /\ i + 1 <= m
      BY <1>2, <2>1
    <3> QED
      BY <1>2, <1>3, <1>5, <2>0, <3>1
  <2>2. CASE i = m
    <3>1. i \in 1..m /\ i <= m /\ ~(i + 1 <= m) /\ i + 1 - m = 1
      BY <1>2, <2>2
    <3>2. PICK l : l = i + 1
      OBVIOUS
    <3>3. l \in 1..m + n + 1 /\ ~(l <= m) /\ l - m = 1
      BY <1>2, <2>0, <2>2, <3>2
    <3>4. r[i] = p[i] /\ r[l] = q[1]
      BY <1>5, <2>0, <3>1, <3>3
    <3> QED
      BY <1>2, <1>3, <1>4, <2>2, <3>1, <3>2, <3>4
  <2>3. CASE i > m
    <3>1. i \in m + 1..m + n /\ ~(i <= m) /\ ~(i + 1 <= m) /\ i - m \in 1..n /\ i + 1 - m = (i - m) + 1
      BY <1>2, <2>3
    <3>2. PICK j, l : j = i - m /\ l = i + 1
      OBVIOUS
    <3>3. j \in 1..n /\ l \in 1..m + n + 1 /\ ~(l <= m) /\ l - m = j + 1
      BY <1>2, <2>0, <3>1, <3>2
    <3>4. r[i] = q[j] /\ r[l] = q[l - m] /\ u[i] = t[j]
      BY <1>2, <1>5, <2>0, <3>1, <3>2, <3>3
    <3> QED
      BY <1>4, <3>2, <3>3, <3>4
  <2> QED
    BY <1>2, <2>1, <2>2, <2>3
<1>9. DOMAIN r = 1..Len(u) + 1 /\ r[Len(u) + 1] = c
  BY <1>2, <1>5, <1>7
<1>10. \A i \in 1..Len(u) : r[i + 1] = Effect(u[i], r[i])
  BY <1>2, <1>8
<1>11. Runs(u, a, c)
  BY <1>6, <1>9, <1>10, Zenon DEF Runs
<1> QED
  BY <1>1, <1>11

\* The first call made, the others lead on from its effect.
LEMMA RunsOn ==
    ASSUME NEW C, NEW s \in Seq(C), s # << >>, NEW a, NEW b, Runs(s, a, b)
    PROVE  Runs(Tail(s), Effect(Head(s), a), b)
<1>1. PICK n, t, c : n = Len(s) /\ t = Tail(s) /\ c = s[1]
  OBVIOUS
<1>2. n \in Nat /\ n >= 1 /\ Len(t) = n - 1 /\ \A i \in 1..n - 1 : t[i] = s[i + 1]
  BY <1>1
<1>3. PICK p : /\ p[1] = a /\ p[n + 1] = b
               /\ \A i \in 1..n : p[i + 1] = Effect(s[i], p[i])
  BY <1>1 DEF Runs
<1>4. PICK q : q = [i \in 1..n |-> p[i + 1]]
  OBVIOUS
<1>5. q[1] = Effect(c, a) /\ q[n] = b
  <2>1. 1 \in 1..n /\ n \in 1..n
    BY <1>2
  <2> QED
    BY <1>1, <1>3, <1>4, <2>1
<1>6. ASSUME NEW i \in 1..n - 1 PROVE q[i + 1] = Effect(t[i], q[i])
  <2>1. i \in 1..n /\ i + 1 \in 1..n
    BY <1>2
  <2>2. p[i + 1 + 1] = Effect(s[i + 1], p[i + 1])
    BY <1>3, <2>1
  <2> QED
    BY <1>2, <1>4, <2>1, <2>2
<1>7. DOMAIN q = 1..(n - 1) + 1 /\ q[(n - 1) + 1] = b
  BY <1>2, <1>4, <1>5
<1>8. Runs(t, Effect(c, a), b)
  BY <1>2, <1>5, <1>6, <1>7 DEF Runs
<1> QED
  BY <1>1, <1>8

-----------------------------------------------------------------------------
(* Delays, scenes and fits. *)

LEMMA MinOfTwo ==
    ASSUME NEW x \in Nat, NEW y \in Nat
    PROVE  Min({x, y}) = IF x <= y THEN x ELSE y
<1>1. PICK m \in {x, y} : \A z \in {x, y} : m <= z
  OBVIOUS
<1>2. Min({x, y}) \in {x, y} /\ \A z \in {x, y} : Min({x, y}) <= z
  BY <1>1, Zenon DEF Min
<1> QED
  BY <1>2

LEMMA MaxDelayIs == MaxDelay \in Nat \ {0} /\ \A d \in Delays : d \in Nat \ {0} /\ d <= MaxDelay
<1>1. PICK longest \in Delays : \A d \in Delays : d <= longest
  BY FitAssumption
<1>2. \A d \in Delays : d \in Nat \ {0}
  BY FitAssumption
<1>3. \A d \in Delays : longest >= d
  BY <1>1, <1>2
<1>4. MaxDelay \in Delays /\ \A d \in Delays : MaxDelay >= d
  BY <1>1, <1>3, Zenon DEF MaxDelay, Max
<1> QED
  BY <1>2, <1>4

LEMMA ScenesAre == /\ "wrapper" \in Scenes /\ "live" \in Scenes /\ "" \notin Scenes
                   /\ UserScenes \subseteq Scenes
                   /\ Covered => Loading \in Scenes
BY SceneAssumption DEF Scenes, Covered

\* What is planned for the settings the video filter has.
LEMMA PlannedIs ==
    ASSUME TypeOK
    PROVE  /\ PlannedEffective \in 1..MaxDelay /\ PlannedEffective <= video.delay
           /\ FitFor(video.delay, video.height).slots \in Nat
<1>1. video.delay \in Delays /\ video.height \in Heights /\ canvas \in Canvases
  BY DEF TypeOK
<1>2. PICK fit : fit = Fit[<<canvas, video.delay, video.height>>]
  OBVIOUS
<1>3. fit \in [slots : Nat, effective : Nat \ {0}] /\ fit.effective <= video.delay
  BY <1>1, <1>2, FitAssumption DEF FitResult
<1>4. video.delay \in Nat /\ video.delay <= MaxDelay /\ MaxDelay \in Nat
  BY <1>1, MaxDelayIs
<1>5. fit.effective \in 1..MaxDelay /\ fit.effective <= video.delay /\ fit.slots \in Nat
  BY <1>3, <1>4
<1> QED
  BY <1>2, <1>5 DEF PlannedEffective, FitFor

\* The seconds a countdown or the overlay shows.
LEMMA AppliedIs ==
    ASSUME NEW d \in Delays, NEW e \in 0..MaxDelay
    PROVE  (IF e > 0 THEN Min({e, d}) ELSE d) \in 1..MaxDelay
<1>1. d \in Nat \ {0} /\ d <= MaxDelay /\ MaxDelay \in Nat
  BY MaxDelayIs
<1>2. e \in Nat
  BY <1>1
<1>3. Min({e, d}) = IF e <= d THEN e ELSE d
  BY <1>1, <1>2, MinOfTwo
<1> QED
  BY <1>1, <1>2, <1>3

-----------------------------------------------------------------------------
(* Types. *)

CtlType == [mode : Modes, delay : Delays, height : Heights, effective : 0..MaxDelay,
            before : Scenes \cup {""}, held : BOOLEAN, generation : 0..(Generations - 1)]
TimerType == [armed : BOOLEAN, left : 0..MaxDelay, generation : 0..(Generations - 1)]
RingType == [slots : Nat, effective : 0..MaxDelay, canvas : Canvases \cup {0}, held : 0..(MaxDelay + 1)]

LEMMA CountdownIs ==
    ASSUME TypeOK, NEW c \in CtlType
    PROVE  /\ Countdown(c) \in TimerType
           /\ c.mode # "Filling" => ~Countdown(c).armed /\ Countdown(c).left = timer.left
           /\ c.mode = "Filling" =>
                /\ Countdown(c).armed /\ Countdown(c).generation = c.generation
                /\ ~timer.armed \/ timer.generation # c.generation => Countdown(c).left > 0
<1>1. timer \in TimerType
  BY DEF TypeOK, TimerType
<1>2. c.delay \in Delays /\ c.effective \in 0..MaxDelay /\ c.generation \in 0..(Generations - 1)
  BY DEF CtlType
<1>3. PICK left : left = IF c.effective > 0 THEN Min({c.effective, c.delay}) ELSE c.delay
  OBVIOUS
<1>4. left \in 1..MaxDelay
  BY <1>2, <1>3, AppliedIs, Zenon
<1>5. left \in 0..MaxDelay /\ left > 0
  BY <1>4, MaxDelayIs
<1>6. Countdown(c) = IF c.mode # "Filling" THEN [timer EXCEPT !.armed = FALSE]
                     ELSE IF timer.armed /\ timer.generation = c.generation THEN timer
                     ELSE [armed |-> TRUE, generation |-> c.generation, left |-> left]
  BY <1>3, Zenon DEF Countdown
<1>7. CASE c.mode # "Filling"
  BY <1>1, <1>6, <1>7 DEF TimerType
<1>8. CASE c.mode = "Filling"
  BY <1>1, <1>2, <1>5, <1>6, <1>8 DEF TimerType
<1> QED
  BY <1>7, <1>8

LEMMA TypesInit == Init => TypeOK /\ Scripted
<1> SUFFICES ASSUME Init PROVE TypeOK /\ Scripted
  OBVIOUS
<1>1. PICK d \in Delays, h \in Heights :
        /\ ctl = [mode |-> "Inactive", delay |-> d, height |-> h, effective |-> 0,
                  before |-> "", held |-> FALSE, generation |-> 0]
        /\ video = [delay |-> d, height |-> h, on |-> FALSE]
        /\ audio = [delay |-> d, on |-> FALSE]
  BY DEF Init
<1>2. d \in 1..MaxDelay /\ 0 \in 0..MaxDelay /\ 0 \in 0..(MaxDelay + 1) /\ 0 \in 0..(Generations - 1) /\ 0 \in 0..MaxUpsets
  BY MaxDelayIs, BoundAssumption
<1>3. TypeOK
  BY <1>1, <1>2 DEF Init, TypeOK, NoRing, Modes
<1>4. Scripted
  <2>1. script = << >> /\ ~timer.armed
    BY DEF Init
  <2> HIDE DEF Calls
  <2> QED
    BY <2>1 DEF Scripted
<1> QED
  BY <1>3, <1>4

\* The call at the head of a script.
LEMMA HeadIs ==
    ASSUME Scripted, script # << >>
    PROVE  /\ Head(script) \in Calls /\ Tail(script) \in Seq(Calls)
           /\ Head(script)[1] = "delay" => Head(script)[2] = ctl.delay
           /\ \A i \in DOMAIN Tail(script) : i + 1 \in DOMAIN script /\ Tail(script)[i] = script[i + 1]
           /\ 1 \in DOMAIN script /\ Head(script) = script[1]
<1>1. PICK n, s, t : n = Len(script) /\ s = script /\ t = Tail(script)
  OBVIOUS
<1>2. s \in Seq(Calls) /\ s # << >>
  BY <1>1 DEF Scripted
<1> HIDE DEF Calls
<1>3. n \in Nat /\ n >= 1 /\ DOMAIN s = 1..n /\ t \in Seq(Calls) /\ Len(t) = n - 1 /\ DOMAIN t = 1..n - 1
  BY <1>1, <1>2
<1>4. \A i \in 1..n - 1 : t[i] = s[i + 1] /\ i + 1 \in 1..n
  BY <1>1, <1>2, <1>3
<1>5. 1 \in 1..n
  BY <1>3
<1>6. \A i \in 1..n : s[i] \in Calls
  BY <1>2, <1>3
<1>7. s[1] \in Calls /\ Head(script) = s[1]
  BY <1>1, <1>5, <1>6
<1>8. s[1][1] = "delay" => s[1][2] = ctl.delay
  BY <1>1, <1>3, <1>5 DEF Scripted
<1> QED
  BY <1>1, <1>3, <1>4, <1>5, <1>7, <1>8

-----------------------------------------------------------------------------
(* The calls. *)

\* What a call carries.
LEMMA CarriesIs ==
    ASSUME NEW c \in Calls
    PROVE  /\ c[1] = "delay" => c[2] \in Delays
           /\ c[1] = "height" => c[2] \in Heights
           /\ c[1] \in {"audio", "video"} => c[2] \in BOOLEAN
           /\ c[1] = "state" => c[2] \in {"Inactive", "Active"}
           /\ c[1] = "show" => c[2] \in Scenes
           /\ c[1] = "load" => c[2] \in [on : BOOLEAN, program : Scenes]
BY DEF Calls

\* One call: types, and the view after it.
Made(a, e) ==
  /\ TypeOK' /\ e \in View /\ Sound(e)'
  /\ (timer.armed => timer.generation = ctl.generation)'
  /\ ctl'.delay = ctl.delay /\ inbox' = inbox /\ canvas' = canvas
  /\ Head(script)[1] \notin Empties => ring' = ring

LEMMA CallMade ==
    ASSUME TypeOK, Scripted, Controller, NEW a \in View, Sound(a), NEW e, e = Effect(Head(script), a)
    PROVE  script # << >> /\ script' = Tail(script) /\ Made(a, e)
<1>1. script # << >> /\ script' = Tail(script)
  BY Zenon DEF Controller, Call, SetBufferFilterDelaySeconds, SetBufferFilterMinResolutionHeight,
       SetBufferFilterEnabled, SetAudioDelayFiltersEnabled, SyncAudioDelayToVideoEffective,
       AcquireLiveSceneRendering, ReleaseLiveSceneRendering, SetCurrentSceneByName, RememberScene,
       UpdateOverlay, HideOverlay, SetState, StartWindow, CollectionLoads, DisableAllDelayFilters
<1>2. PICK c : c = Head(script)
  OBVIOUS
<1>3. c \in Calls
  BY <1>1, <1>2, HeadIs, Zenon
<1>4. c[1] = "delay" => c[2] = ctl.delay
  BY <1>1, <1>2, HeadIs, Zenon
<1>5. /\ c[1] = "delay" => c[2] \in Delays
      /\ c[1] = "height" => c[2] \in Heights
      /\ c[1] \in {"audio", "video"} => c[2] \in BOOLEAN
      /\ c[1] = "state" => c[2] \in {"Inactive", "Active"}
      /\ c[1] = "show" => c[2] \in Scenes
      /\ c[1] = "load" => c[2] \in [on : BOOLEAN, program : Scenes]
  BY <1>3, CarriesIs, Zenon
<1>6. e = Effect(c, a)
  BY <1>2
<1>7. timer.armed => timer.generation = ctl.generation
  BY DEF Scripted
<1>8. 0 \in Nat /\ 0 \in 0..MaxDelay /\ 0 \in 0..(MaxDelay + 1)
  BY MaxDelayIs
<1>10. CASE SetBufferFilterDelaySeconds
  <2>1. c[1] = "delay"
    BY <1>10, <1>2 DEF SetBufferFilterDelaySeconds, Call
  <2>2. e = [a EXCEPT !.delayed = TRUE, !.synced = FALSE, !.told = FALSE]
    BY <1>6, <2>1 DEF Effect
  <2>3. /\ video' = [video EXCEPT !.delay = ctl.delay]
        /\ UNCHANGED <<ctl, timer, program, overlay, audio, ring, inbox, canvas, upsets>>
    BY <1>10, <1>2, <1>4, <2>1 DEF SetBufferFilterDelaySeconds, filters, graphics, Arg
  <2>4. TypeOK'
    BY <1>5, <1>8, <2>1, <2>3 DEF TypeOK
  <2>5. e \in View
    BY <1>5, <2>1, <2>2 DEF View, Modes
  <2>6. /\ e.mode = ctl'.mode /\ e.video = video'.on /\ e.audio = audio'.on /\ e.held = ctl'.held
        /\ e.visible = overlay'.visible /\ e.armed = timer'.armed
    BY <1>5, <2>1, <2>2, <2>3 DEF TypeOK, Sound, View
  <2>8. e.delayed => Delayed'
    BY <2>2, <2>3 DEF Delayed, Sound, TypeOK, View
  <2>9. e.synced => Synced'
    BY <2>2, <2>3 DEF Synced, Sound, TypeOK, View
  <2>10. e.told => Told'
    BY <2>2, <2>3 DEF Told, Sound, TypeOK, View
  <2>11. e.fresh => Fresh'
    BY <2>2, <2>3 DEF Fresh, Sound, TypeOK, View
  <2>12. Sound(e)'
    BY <2>6, <2>8, <2>9, <2>10, <2>11 DEF Sound
  <2>13. (timer.armed => timer.generation = ctl.generation)' /\ ctl'.delay = ctl.delay /\ inbox' = inbox /\ canvas' = canvas
    BY <1>7, <2>3 DEF TypeOK
  <2>14. Head(script)[1] \notin Empties => ring' = ring
    BY <1>2, <2>1, <2>3 DEF Empties
  <2>15. Made(a, e)
    BY <2>4, <2>5, <2>12, <2>13, <2>14, Zenon DEF Made
  <2> QED
    BY <1>1, <2>15
<1>11. CASE SetBufferFilterMinResolutionHeight
  <2>1. c[1] = "height"
    BY <1>11, <1>2 DEF SetBufferFilterMinResolutionHeight, Call
  <2>2. e = [a EXCEPT !.synced = FALSE, !.told = FALSE]
    BY <1>6, <2>1 DEF Effect
  <2>3. /\ video' = [video EXCEPT !.height = c[2]]
        /\ UNCHANGED <<ctl, timer, program, overlay, audio, ring, inbox, canvas, upsets>>
    BY <1>11, <1>2, <1>4, <2>1 DEF SetBufferFilterMinResolutionHeight, filters, graphics, Arg
  <2>4. TypeOK'
    BY <1>5, <1>8, <2>1, <2>3 DEF TypeOK
  <2>5. e \in View
    BY <1>5, <2>1, <2>2 DEF View, Modes
  <2>6. /\ e.mode = ctl'.mode /\ e.video = video'.on /\ e.audio = audio'.on /\ e.held = ctl'.held
        /\ e.visible = overlay'.visible /\ e.armed = timer'.armed
    BY <1>5, <2>1, <2>2, <2>3 DEF TypeOK, Sound, View
  <2>8. e.delayed => Delayed'
    BY <2>2, <2>3 DEF Delayed, Sound, TypeOK, View
  <2>9. e.synced => Synced'
    BY <2>2, <2>3 DEF Synced, Sound, TypeOK, View
  <2>10. e.told => Told'
    BY <2>2, <2>3 DEF Told, Sound, TypeOK, View
  <2>11. e.fresh => Fresh'
    BY <2>2, <2>3 DEF Fresh, Sound, TypeOK, View
  <2>12. Sound(e)'
    BY <2>6, <2>8, <2>9, <2>10, <2>11 DEF Sound
  <2>13. (timer.armed => timer.generation = ctl.generation)' /\ ctl'.delay = ctl.delay /\ inbox' = inbox /\ canvas' = canvas
    BY <1>7, <2>3 DEF TypeOK
  <2>14. Head(script)[1] \notin Empties => ring' = ring
    BY <1>2, <2>1, <2>3 DEF Empties
  <2>15. Made(a, e)
    BY <2>4, <2>5, <2>12, <2>13, <2>14, Zenon DEF Made
  <2> QED
    BY <1>1, <2>15
<1>12. CASE SetBufferFilterEnabled
  <2>1. c[1] = "video"
    BY <1>12, <1>2 DEF SetBufferFilterEnabled, Call
  <2>2. e = [a EXCEPT !.video = c[2]]
    BY <1>6, <2>1 DEF Effect
  <2>3. /\ video' = [video EXCEPT !.on = c[2]] /\ ring' = (IF c[2] THEN ring ELSE NoRing)
        /\ UNCHANGED <<ctl, timer, program, overlay, audio, inbox, canvas, upsets>>
    BY <1>12, <1>2, <1>4, <2>1 DEF SetBufferFilterEnabled, filters, graphics, Arg
  <2>4. TypeOK'
    BY <1>5, <1>8, <2>1, <2>3 DEF TypeOK, NoRing
  <2>5. e \in View
    BY <1>5, <2>1, <2>2 DEF View, Modes
  <2>6. /\ e.mode = ctl'.mode /\ e.video = video'.on /\ e.audio = audio'.on /\ e.held = ctl'.held
        /\ e.visible = overlay'.visible /\ e.armed = timer'.armed
    BY <1>5, <2>1, <2>2, <2>3 DEF TypeOK, Sound, View
  <2>7. PlannedEffective' = PlannedEffective
    BY <2>3 DEF PlannedEffective, FitFor, TypeOK
  <2>8. e.delayed => Delayed'
    BY <2>2, <2>3 DEF Delayed, Sound, TypeOK, View
  <2>9. e.synced => Synced'
    BY <2>2, <2>3, <2>7 DEF Synced, Sound, TypeOK, View
  <2>10. e.told => Told'
    BY <2>2, <2>3, <2>7 DEF Told, Sound, TypeOK, View
  <2>11. e.fresh => Fresh'
    BY <2>2, <2>3 DEF Fresh, Sound, TypeOK, View
  <2>12. Sound(e)'
    BY <2>6, <2>8, <2>9, <2>10, <2>11 DEF Sound
  <2>13. (timer.armed => timer.generation = ctl.generation)' /\ ctl'.delay = ctl.delay /\ inbox' = inbox /\ canvas' = canvas
    BY <1>7, <2>3 DEF TypeOK
  <2>14. Head(script)[1] \notin Empties => ring' = ring
    BY <1>2, <2>1, <2>3 DEF Empties
  <2>15. Made(a, e)
    BY <2>4, <2>5, <2>12, <2>13, <2>14, Zenon DEF Made
  <2> QED
    BY <1>1, <2>15
<1>13. CASE SetAudioDelayFiltersEnabled
  <2>1. c[1] = "audio"
    BY <1>13, <1>2 DEF SetAudioDelayFiltersEnabled, Call
  <2>2. e = [a EXCEPT !.audio = c[2]]
    BY <1>6, <2>1 DEF Effect
  <2>3. /\ audio' = [audio EXCEPT !.on = c[2]]
        /\ UNCHANGED <<ctl, timer, program, overlay, video, ring, inbox, canvas, upsets>>
    BY <1>13, <1>2, <1>4, <2>1 DEF SetAudioDelayFiltersEnabled, filters, graphics, Arg
  <2>4. TypeOK'
    BY <1>5, <1>8, <2>1, <2>3 DEF TypeOK
  <2>5. e \in View
    BY <1>5, <2>1, <2>2 DEF View, Modes
  <2>6. /\ e.mode = ctl'.mode /\ e.video = video'.on /\ e.audio = audio'.on /\ e.held = ctl'.held
        /\ e.visible = overlay'.visible /\ e.armed = timer'.armed
    BY <1>5, <2>1, <2>2, <2>3 DEF TypeOK, Sound, View
  <2>7. PlannedEffective' = PlannedEffective
    BY <2>3 DEF PlannedEffective, FitFor, TypeOK
  <2>8. e.delayed => Delayed'
    BY <2>2, <2>3 DEF Delayed, Sound, TypeOK, View
  <2>9. e.synced => Synced'
    BY <2>2, <2>3, <2>7 DEF Synced, Sound, TypeOK, View
  <2>10. e.told => Told'
    BY <2>2, <2>3, <2>7 DEF Told, Sound, TypeOK, View
  <2>11. e.fresh => Fresh'
    BY <2>2, <2>3 DEF Fresh, Sound, TypeOK, View
  <2>12. Sound(e)'
    BY <2>6, <2>8, <2>9, <2>10, <2>11 DEF Sound
  <2>13. (timer.armed => timer.generation = ctl.generation)' /\ ctl'.delay = ctl.delay /\ inbox' = inbox /\ canvas' = canvas
    BY <1>7, <2>3 DEF TypeOK
  <2>14. Head(script)[1] \notin Empties => ring' = ring
    BY <1>2, <2>1, <2>3 DEF Empties
  <2>15. Made(a, e)
    BY <2>4, <2>5, <2>12, <2>13, <2>14, Zenon DEF Made
  <2> QED
    BY <1>1, <2>15
<1>14. CASE SyncAudioDelayToVideoEffective
  <2>1. c[1] = "sync"
    BY <1>14, <1>2 DEF SyncAudioDelayToVideoEffective, Call
  <2>2. e = [a EXCEPT !.synced = a.delayed]
    BY <1>6, <2>1 DEF Effect
  <2>20. PICK target, planned : target = Min({PlannedEffective, ctl.delay}) /\ planned = PlannedEffective
    OBVIOUS
  <2>21. planned \in 1..MaxDelay /\ planned <= video.delay
    BY <2>20, PlannedIs, Zenon
  <2>22. ctl.delay \in Delays
    BY DEF TypeOK
  <2>23. planned \in Nat /\ ctl.delay \in Nat \ {0} /\ ctl.delay <= MaxDelay /\ MaxDelay \in Nat
    BY <2>21, <2>22, MaxDelayIs
  <2>24. target = (IF planned <= ctl.delay THEN planned ELSE ctl.delay)
    BY <2>20, <2>23, MinOfTwo, Zenon
  <2>25. target \in 1..MaxDelay /\ target \in 0..MaxDelay
    BY <2>21, <2>23, <2>24
  <2>26. a.delayed => target = planned /\ planned <= ctl.delay
    BY <2>21, <2>24 DEF Sound, Delayed
  <2>3. /\ ctl' = [ctl EXCEPT !.effective = target] /\ audio' = [audio EXCEPT !.delay = target]
        /\ UNCHANGED <<timer, program, overlay, video, ring, inbox, canvas, upsets>>
    BY <1>14, <1>2, <1>4, <2>1, <2>20 DEF SyncAudioDelayToVideoEffective, filters, graphics
  <2>4. TypeOK'
    BY <1>5, <1>8, <2>1, <2>3, <2>25 DEF TypeOK
  <2>5. e \in View
    BY <1>5, <2>1, <2>2 DEF View, Modes
  <2>6. /\ e.mode = ctl'.mode /\ e.video = video'.on /\ e.audio = audio'.on /\ e.held = ctl'.held
        /\ e.visible = overlay'.visible /\ e.armed = timer'.armed
    BY <1>5, <2>1, <2>2, <2>3, <2>25 DEF TypeOK, Sound, View
  <2>7. PlannedEffective' = PlannedEffective
    BY <2>3 DEF PlannedEffective, FitFor, TypeOK
  <2>8. e.delayed => Delayed'
    BY <2>2, <2>3 DEF Delayed, Sound, TypeOK, View
  <2>9. e.synced => Synced'
    BY <2>2, <2>3, <2>7, <2>20, <2>26 DEF Synced, Sound, TypeOK, View
  <2>10. e.told => Told'
    BY <2>2, <2>3, <2>7 DEF Told, Sound, TypeOK, View
  <2>11. e.fresh => Fresh'
    BY <2>2, <2>3 DEF Fresh, Sound, TypeOK, View
  <2>12. Sound(e)'
    BY <2>6, <2>8, <2>9, <2>10, <2>11 DEF Sound
  <2>13. (timer.armed => timer.generation = ctl.generation)' /\ ctl'.delay = ctl.delay /\ inbox' = inbox /\ canvas' = canvas
    BY <1>7, <2>3, <2>25 DEF TypeOK
  <2>14. Head(script)[1] \notin Empties => ring' = ring
    BY <1>2, <2>1, <2>3 DEF Empties
  <2>15. Made(a, e)
    BY <2>4, <2>5, <2>12, <2>13, <2>14, Zenon DEF Made
  <2> QED
    BY <1>1, <2>15
<1>15. CASE AcquireLiveSceneRendering
  <2>1. c[1] = "acquire"
    BY <1>15, <1>2 DEF AcquireLiveSceneRendering, Call
  <2>2. e = [a EXCEPT !.held = TRUE]
    BY <1>6, <2>1 DEF Effect
  <2>3. /\ ctl' = [ctl EXCEPT !.held = TRUE]
        /\ UNCHANGED <<timer, program, overlay, video, audio, ring, inbox, canvas, upsets>>
    BY <1>15, <1>2, <1>4, <2>1 DEF AcquireLiveSceneRendering, filters, graphics
  <2>4. TypeOK'
    BY <1>5, <1>8, <2>1, <2>3 DEF TypeOK
  <2>5. e \in View
    BY <1>5, <2>1, <2>2 DEF View, Modes
  <2>6. /\ e.mode = ctl'.mode /\ e.video = video'.on /\ e.audio = audio'.on /\ e.held = ctl'.held
        /\ e.visible = overlay'.visible /\ e.armed = timer'.armed
    BY <1>5, <2>1, <2>2, <2>3 DEF TypeOK, Sound, View
  <2>7. PlannedEffective' = PlannedEffective
    BY <2>3 DEF PlannedEffective, FitFor, TypeOK
  <2>8. e.delayed => Delayed'
    BY <2>2, <2>3 DEF Delayed, Sound, TypeOK, View
  <2>9. e.synced => Synced'
    BY <2>2, <2>3, <2>7 DEF Synced, Sound, TypeOK, View
  <2>10. e.told => Told'
    BY <2>2, <2>3, <2>7 DEF Told, Sound, TypeOK, View
  <2>11. e.fresh => Fresh'
    BY <2>2, <2>3 DEF Fresh, Sound, TypeOK, View
  <2>12. Sound(e)'
    BY <2>6, <2>8, <2>9, <2>10, <2>11 DEF Sound
  <2>13. (timer.armed => timer.generation = ctl.generation)' /\ ctl'.delay = ctl.delay /\ inbox' = inbox /\ canvas' = canvas
    BY <1>7, <2>3 DEF TypeOK
  <2>14. Head(script)[1] \notin Empties => ring' = ring
    BY <1>2, <2>1, <2>3 DEF Empties
  <2>15. Made(a, e)
    BY <2>4, <2>5, <2>12, <2>13, <2>14, Zenon DEF Made
  <2> QED
    BY <1>1, <2>15
<1>16. CASE ReleaseLiveSceneRendering
  <2>1. c[1] = "drop"
    BY <1>16, <1>2 DEF ReleaseLiveSceneRendering, Call
  <2>2. e = [a EXCEPT !.held = FALSE]
    BY <1>6, <2>1 DEF Effect
  <2>3. /\ ctl' = [ctl EXCEPT !.held = FALSE]
        /\ UNCHANGED <<timer, program, overlay, video, audio, ring, inbox, canvas, upsets>>
    BY <1>16, <1>2, <1>4, <2>1 DEF ReleaseLiveSceneRendering, filters, graphics
  <2>4. TypeOK'
    BY <1>5, <1>8, <2>1, <2>3 DEF TypeOK
  <2>5. e \in View
    BY <1>5, <2>1, <2>2 DEF View, Modes
  <2>6. /\ e.mode = ctl'.mode /\ e.video = video'.on /\ e.audio = audio'.on /\ e.held = ctl'.held
        /\ e.visible = overlay'.visible /\ e.armed = timer'.armed
    BY <1>5, <2>1, <2>2, <2>3 DEF TypeOK, Sound, View
  <2>7. PlannedEffective' = PlannedEffective
    BY <2>3 DEF PlannedEffective, FitFor, TypeOK
  <2>8. e.delayed => Delayed'
    BY <2>2, <2>3 DEF Delayed, Sound, TypeOK, View
  <2>9. e.synced => Synced'
    BY <2>2, <2>3, <2>7 DEF Synced, Sound, TypeOK, View
  <2>10. e.told => Told'
    BY <2>2, <2>3, <2>7 DEF Told, Sound, TypeOK, View
  <2>11. e.fresh => Fresh'
    BY <2>2, <2>3 DEF Fresh, Sound, TypeOK, View
  <2>12. Sound(e)'
    BY <2>6, <2>8, <2>9, <2>10, <2>11 DEF Sound
  <2>13. (timer.armed => timer.generation = ctl.generation)' /\ ctl'.delay = ctl.delay /\ inbox' = inbox /\ canvas' = canvas
    BY <1>7, <2>3 DEF TypeOK
  <2>14. Head(script)[1] \notin Empties => ring' = ring
    BY <1>2, <2>1, <2>3 DEF Empties
  <2>15. Made(a, e)
    BY <2>4, <2>5, <2>12, <2>13, <2>14, Zenon DEF Made
  <2> QED
    BY <1>1, <2>15
<1>17. CASE SetCurrentSceneByName
  <2>1. c[1] = "show"
    BY <1>17, <1>2 DEF SetCurrentSceneByName, Call
  <2>2. e = a
    BY <1>6, <2>1 DEF Effect
  <2>3. /\ program' = c[2]
        /\ UNCHANGED <<ctl, timer, overlay, video, audio, ring, inbox, canvas, upsets>>
    BY <1>17, <1>2, <1>4, <2>1 DEF SetCurrentSceneByName, filters, graphics, Arg
  <2>4. TypeOK'
    BY <1>5, <1>8, <2>1, <2>3 DEF TypeOK
  <2>5. e \in View
    BY <1>5, <2>1, <2>2 DEF View, Modes
  <2>6. /\ e.mode = ctl'.mode /\ e.video = video'.on /\ e.audio = audio'.on /\ e.held = ctl'.held
        /\ e.visible = overlay'.visible /\ e.armed = timer'.armed
    BY <1>5, <2>1, <2>2, <2>3 DEF TypeOK, Sound, View
  <2>7. PlannedEffective' = PlannedEffective
    BY <2>3 DEF PlannedEffective, FitFor, TypeOK
  <2>8. e.delayed => Delayed'
    BY <2>2, <2>3 DEF Delayed, Sound, TypeOK, View
  <2>9. e.synced => Synced'
    BY <2>2, <2>3, <2>7 DEF Synced, Sound, TypeOK, View
  <2>10. e.told => Told'
    BY <2>2, <2>3, <2>7 DEF Told, Sound, TypeOK, View
  <2>11. e.fresh => Fresh'
    BY <2>2, <2>3 DEF Fresh, Sound, TypeOK, View
  <2>12. Sound(e)'
    BY <2>6, <2>8, <2>9, <2>10, <2>11 DEF Sound
  <2>13. (timer.armed => timer.generation = ctl.generation)' /\ ctl'.delay = ctl.delay /\ inbox' = inbox /\ canvas' = canvas
    BY <1>7, <2>3 DEF TypeOK
  <2>14. Head(script)[1] \notin Empties => ring' = ring
    BY <1>2, <2>1, <2>3 DEF Empties
  <2>15. Made(a, e)
    BY <2>4, <2>5, <2>12, <2>13, <2>14, Zenon DEF Made
  <2> QED
    BY <1>1, <2>15
<1>18. CASE RememberScene
  <2>1. c[1] = "remember"
    BY <1>18, <1>2 DEF RememberScene, Call
  <2>2. e = a
    BY <1>6, <2>1 DEF Effect
  <2>3. /\ ctl' = [ctl EXCEPT !.before = program]
        /\ UNCHANGED <<timer, program, overlay, video, audio, ring, inbox, canvas, upsets>>
    BY <1>18, <1>2, <1>4, <2>1 DEF RememberScene, filters, graphics
  <2>4. TypeOK'
    BY <1>5, <1>8, <2>1, <2>3 DEF TypeOK
  <2>5. e \in View
    BY <1>5, <2>1, <2>2 DEF View, Modes
  <2>6. /\ e.mode = ctl'.mode /\ e.video = video'.on /\ e.audio = audio'.on /\ e.held = ctl'.held
        /\ e.visible = overlay'.visible /\ e.armed = timer'.armed
    BY <1>5, <2>1, <2>2, <2>3 DEF TypeOK, Sound, View
  <2>7. PlannedEffective' = PlannedEffective
    BY <2>3 DEF PlannedEffective, FitFor, TypeOK
  <2>8. e.delayed => Delayed'
    BY <2>2, <2>3 DEF Delayed, Sound, TypeOK, View
  <2>9. e.synced => Synced'
    BY <2>2, <2>3, <2>7 DEF Synced, Sound, TypeOK, View
  <2>10. e.told => Told'
    BY <2>2, <2>3, <2>7 DEF Told, Sound, TypeOK, View
  <2>11. e.fresh => Fresh'
    BY <2>2, <2>3 DEF Fresh, Sound, TypeOK, View
  <2>12. Sound(e)'
    BY <2>6, <2>8, <2>9, <2>10, <2>11 DEF Sound
  <2>13. (timer.armed => timer.generation = ctl.generation)' /\ ctl'.delay = ctl.delay /\ inbox' = inbox /\ canvas' = canvas
    BY <1>7, <2>3 DEF TypeOK
  <2>14. Head(script)[1] \notin Empties => ring' = ring
    BY <1>2, <2>1, <2>3 DEF Empties
  <2>15. Made(a, e)
    BY <2>4, <2>5, <2>12, <2>13, <2>14, Zenon DEF Made
  <2> QED
    BY <1>1, <2>15
<1>19. CASE UpdateOverlay
  <2>1. c[1] = "overlay"
    BY <1>19, <1>2 DEF UpdateOverlay, Call
  <2>2. e = [a EXCEPT !.visible = (a.mode = "Active"), !.told = a.synced]
    BY <1>6, <2>1 DEF Effect
  <2>20. PICK told, planned : told = Applied /\ planned = PlannedEffective
    OBVIOUS
  <2>21. ctl.delay \in Delays /\ ctl.effective \in 0..MaxDelay
    BY DEF TypeOK
  <2>22. told \in 1..MaxDelay
    BY <2>20, <2>21, AppliedIs, Zenon DEF Applied
  <2>23. told \in 0..MaxDelay
    BY <2>22, MaxDelayIs
  <2>24. planned \in 1..MaxDelay /\ planned <= video.delay
    BY <2>20, PlannedIs, Zenon
  <2>25. ASSUME a.synced PROVE told = planned
    <3>1. ctl.effective = planned /\ planned \in Nat /\ planned > 0 /\ ctl.delay \in Nat
      BY <2>20, <2>21, <2>24, <2>25, MaxDelayIs DEF Sound, Synced
    <3>2. Min({ctl.effective, ctl.delay}) = IF planned <= ctl.delay THEN planned ELSE ctl.delay
      BY <3>1, MinOfTwo, Zenon
    <3>3. planned <= ctl.delay
      BY <2>20, <2>25 DEF Sound, Synced
    <3> QED
      BY <2>20, <3>1, <3>2, <3>3 DEF Applied
  <2>3. /\ overlay' = [visible |-> ctl.mode = "Active", seconds |-> told]
        /\ UNCHANGED <<ctl, timer, program, video, audio, ring, inbox, canvas, upsets>>
    BY <1>19, <1>2, <1>4, <2>1, <2>20 DEF UpdateOverlay, filters, graphics
  <2>4. TypeOK'
    BY <1>5, <1>8, <2>1, <2>3, <2>23 DEF TypeOK
  <2>5. e \in View
    BY <1>5, <2>1, <2>2 DEF View, Modes
  <2>6. /\ e.mode = ctl'.mode /\ e.video = video'.on /\ e.audio = audio'.on /\ e.held = ctl'.held
        /\ e.visible = overlay'.visible /\ e.armed = timer'.armed
    BY <1>5, <2>1, <2>2, <2>3, <2>23 DEF TypeOK, Sound, View
  <2>7. PlannedEffective' = PlannedEffective
    BY <2>3 DEF PlannedEffective, FitFor, TypeOK
  <2>8. e.delayed => Delayed'
    BY <2>2, <2>3 DEF Delayed, Sound, TypeOK, View
  <2>9. e.synced => Synced'
    BY <2>2, <2>3, <2>7 DEF Synced, Sound, TypeOK, View
  <2>10. e.told => Told'
    BY <2>2, <2>3, <2>7, <2>20, <2>25 DEF Told, Sound, TypeOK, View
  <2>11. e.fresh => Fresh'
    BY <2>2, <2>3 DEF Fresh, Sound, TypeOK, View
  <2>12. Sound(e)'
    BY <2>6, <2>8, <2>9, <2>10, <2>11 DEF Sound
  <2>13. (timer.armed => timer.generation = ctl.generation)' /\ ctl'.delay = ctl.delay /\ inbox' = inbox /\ canvas' = canvas
    BY <1>7, <2>3, <2>23 DEF TypeOK
  <2>14. Head(script)[1] \notin Empties => ring' = ring
    BY <1>2, <2>1, <2>3 DEF Empties
  <2>15. Made(a, e)
    BY <2>4, <2>5, <2>12, <2>13, <2>14, Zenon DEF Made
  <2> QED
    BY <1>1, <2>15
<1>20. CASE HideOverlay
  <2>1. c[1] = "hide"
    BY <1>20, <1>2 DEF HideOverlay, Call
  <2>2. e = [a EXCEPT !.visible = FALSE, !.synced = FALSE, !.told = FALSE]
    BY <1>6, <2>1 DEF Effect
  <2>3. /\ ctl' = [ctl EXCEPT !.effective = 0] /\ overlay' = [visible |-> FALSE, seconds |-> 0]
        /\ UNCHANGED <<timer, program, video, audio, ring, inbox, canvas, upsets>>
    BY <1>20, <1>2, <1>4, <2>1 DEF HideOverlay, filters, graphics
  <2>4. TypeOK'
    BY <1>5, <1>8, <2>1, <2>3 DEF TypeOK
  <2>5. e \in View
    BY <1>5, <2>1, <2>2 DEF View, Modes
  <2>6. /\ e.mode = ctl'.mode /\ e.video = video'.on /\ e.audio = audio'.on /\ e.held = ctl'.held
        /\ e.visible = overlay'.visible /\ e.armed = timer'.armed
    BY <1>5, <2>1, <2>2, <2>3 DEF TypeOK, Sound, View
  <2>7. PlannedEffective' = PlannedEffective
    BY <2>3 DEF PlannedEffective, FitFor, TypeOK
  <2>8. e.delayed => Delayed'
    BY <2>2, <2>3 DEF Delayed, Sound, TypeOK, View
  <2>9. e.synced => Synced'
    BY <2>2, <2>3, <2>7 DEF Synced, Sound, TypeOK, View
  <2>10. e.told => Told'
    BY <2>2, <2>3, <2>7 DEF Told, Sound, TypeOK, View
  <2>11. e.fresh => Fresh'
    BY <2>2, <2>3 DEF Fresh, Sound, TypeOK, View
  <2>12. Sound(e)'
    BY <2>6, <2>8, <2>9, <2>10, <2>11 DEF Sound
  <2>13. (timer.armed => timer.generation = ctl.generation)' /\ ctl'.delay = ctl.delay /\ inbox' = inbox /\ canvas' = canvas
    BY <1>7, <2>3 DEF TypeOK
  <2>14. Head(script)[1] \notin Empties => ring' = ring
    BY <1>2, <2>1, <2>3 DEF Empties
  <2>15. Made(a, e)
    BY <2>4, <2>5, <2>12, <2>13, <2>14, Zenon DEF Made
  <2> QED
    BY <1>1, <2>15
<1>21. CASE SetState
  <2>1. c[1] = "state"
    BY <1>21, <1>2 DEF SetState, Call
  <2>2. e = [a EXCEPT !.mode = c[2], !.armed = FALSE]
    BY <1>6, <2>1 DEF Effect
  <2>20. PICK next : next = ctl'
    OBVIOUS
  <2>21. next = [ctl EXCEPT !.mode = c[2], !.before = IF c[2] = "Inactive" THEN "" ELSE @]
    BY <1>21, <1>2, <2>20 DEF SetState, Arg
  <2>22. next \in CtlType /\ next.mode # "Filling" /\ next.delay = ctl.delay /\ next.held = ctl.held /\ next.mode = c[2] /\ next.effective = ctl.effective
    BY <1>5, <2>1, <2>21 DEF TypeOK, CtlType, Modes
  <2>23. PICK count : count = Countdown(next)
    OBVIOUS
  <2>24. count \in TimerType /\ ~count.armed /\ count.left = timer.left
    BY <2>22, <2>23, CountdownIs, Zenon
  <2>25. count.armed = FALSE
    BY <2>24 DEF TimerType
  <2>3. /\ ctl' = next /\ timer' = count
        /\ UNCHANGED <<program, overlay, video, audio, ring, inbox, canvas, upsets>>
    BY <1>21, <1>2, <1>4, <2>1, <2>20, <2>23 DEF SetState, filters, graphics
  <2>4. TypeOK'
    BY <1>5, <1>8, <2>1, <2>3, <2>22, <2>24, <2>25 DEF TypeOK, CtlType, TimerType
  <2>5. e \in View
    BY <1>5, <2>1, <2>2 DEF View, Modes
  <2>6. /\ e.mode = ctl'.mode /\ e.video = video'.on /\ e.audio = audio'.on /\ e.held = ctl'.held
        /\ e.visible = overlay'.visible /\ e.armed = timer'.armed
    BY <1>5, <2>1, <2>2, <2>3, <2>22, <2>24, <2>25 DEF TypeOK, Sound, View
  <2>7. PlannedEffective' = PlannedEffective
    BY <2>3 DEF PlannedEffective, FitFor, TypeOK
  <2>8. e.delayed => Delayed'
    BY <2>2, <2>3, <2>22, <2>24 DEF Delayed, Sound, TypeOK, View
  <2>9. e.synced => Synced'
    BY <2>2, <2>3, <2>7, <2>22, <2>24 DEF Synced, Sound, TypeOK, View
  <2>10. e.told => Told'
    BY <2>2, <2>3, <2>7, <2>22, <2>24 DEF Told, Sound, TypeOK, View
  <2>11. e.fresh => Fresh'
    BY <2>2, <2>3, <2>22, <2>24 DEF Fresh, Sound, TypeOK, View
  <2>12. Sound(e)'
    BY <2>6, <2>8, <2>9, <2>10, <2>11 DEF Sound
  <2>13. (timer.armed => timer.generation = ctl.generation)' /\ ctl'.delay = ctl.delay /\ inbox' = inbox /\ canvas' = canvas
    BY <1>7, <2>3, <2>22, <2>24, <2>25 DEF TypeOK
  <2>14. Head(script)[1] \notin Empties => ring' = ring
    BY <1>2, <2>1, <2>3 DEF Empties
  <2>15. Made(a, e)
    BY <2>4, <2>5, <2>12, <2>13, <2>14, Zenon DEF Made
  <2> QED
    BY <1>1, <2>15
<1>22. CASE StartWindow
  <2>1. c[1] = "window"
    BY <1>22, <1>2 DEF StartWindow, Call
  <2>2. e = [a EXCEPT !.mode = "Filling", !.armed = TRUE, !.fresh = TRUE]
    BY <1>6, <2>1 DEF Effect
  <2>20. PICK next : next = ctl'
    OBVIOUS
  <2>21. PICK g \in 0..(Generations - 1) : g = ctl.generation
    BY DEF TypeOK
  <2>22. (g + 1) % Generations \in 0..(Generations - 1) /\ (g + 1) % Generations # g
    BY <2>21, BoundAssumption
  <2>23. next = [ctl EXCEPT !.mode = "Filling", !.generation = (g + 1) % Generations]
    BY <1>22, <2>20, <2>21 DEF StartWindow
  <2>24. /\ next \in CtlType /\ next.mode = "Filling" /\ next.delay = ctl.delay /\ next.held = ctl.held
         /\ next.effective = ctl.effective /\ next.generation # ctl.generation
    BY <2>21, <2>22, <2>23 DEF TypeOK, CtlType, Modes
  <2>25. PICK count : count = Countdown(next)
    OBVIOUS
  <2>26. /\ count \in TimerType /\ count.armed /\ count.generation = next.generation
         /\ ~timer.armed \/ timer.generation # next.generation => count.left > 0
    BY <2>24, <2>25, CountdownIs, Zenon
  <2>27. count.left > 0 /\ count.armed = TRUE
    BY <1>7, <2>24, <2>26 DEF TimerType
  <2>3. /\ ctl' = next /\ timer' = count
        /\ UNCHANGED <<program, overlay, video, audio, ring, inbox, canvas, upsets>>
    BY <1>22, <1>2, <1>4, <2>1, <2>20, <2>25 DEF StartWindow, filters, graphics
  <2>4. TypeOK'
    BY <1>5, <1>8, <2>1, <2>3, <2>24, <2>26, <2>27 DEF TypeOK, CtlType, TimerType
  <2>5. e \in View
    BY <1>5, <2>1, <2>2 DEF View, Modes
  <2>6. /\ e.mode = ctl'.mode /\ e.video = video'.on /\ e.audio = audio'.on /\ e.held = ctl'.held
        /\ e.visible = overlay'.visible /\ e.armed = timer'.armed
    BY <1>5, <2>1, <2>2, <2>3, <2>24, <2>26, <2>27 DEF TypeOK, Sound, View
  <2>7. PlannedEffective' = PlannedEffective
    BY <2>3 DEF PlannedEffective, FitFor, TypeOK
  <2>8. e.delayed => Delayed'
    BY <2>2, <2>3, <2>24, <2>27 DEF Delayed, Sound, TypeOK, View
  <2>9. e.synced => Synced'
    BY <2>2, <2>3, <2>7, <2>24, <2>27 DEF Synced, Sound, TypeOK, View
  <2>10. e.told => Told'
    BY <2>2, <2>3, <2>7, <2>24, <2>27 DEF Told, Sound, TypeOK, View
  <2>11. e.fresh => Fresh'
    BY <2>2, <2>3, <2>24, <2>27 DEF Fresh, Sound, TypeOK, View
  <2>12. Sound(e)'
    BY <2>6, <2>8, <2>9, <2>10, <2>11 DEF Sound
  <2>13. (timer.armed => timer.generation = ctl.generation)' /\ ctl'.delay = ctl.delay /\ inbox' = inbox /\ canvas' = canvas
    BY <1>7, <2>3, <2>24, <2>26, <2>27 DEF TypeOK
  <2>14. Head(script)[1] \notin Empties => ring' = ring
    BY <1>2, <2>1, <2>3 DEF Empties
  <2>15. Made(a, e)
    BY <2>4, <2>5, <2>12, <2>13, <2>14, Zenon DEF Made
  <2> QED
    BY <1>1, <2>15
<1>23. CASE CollectionLoads
  <2>1. c[1] = "load"
    BY <1>23, <1>2 DEF CollectionLoads, Call
  <2>2. e = [a EXCEPT !.video = c[2].on, !.audio = c[2].on]
    BY <1>6, <2>1 DEF Effect
  <2>3. /\ video' = [video EXCEPT !.on = c[2].on] /\ audio' = [audio EXCEPT !.on = c[2].on] /\ program' = c[2].program /\ ring' = NoRing
        /\ UNCHANGED <<ctl, timer, overlay, inbox, canvas, upsets>>
    BY <1>23, <1>2, <1>4, <2>1 DEF CollectionLoads, filters, graphics, Arg
  <2>4. TypeOK'
    BY <1>5, <1>8, <2>1, <2>3 DEF TypeOK, NoRing
  <2>5. e \in View
    BY <1>5, <2>1, <2>2 DEF View, Modes
  <2>6. /\ e.mode = ctl'.mode /\ e.video = video'.on /\ e.audio = audio'.on /\ e.held = ctl'.held
        /\ e.visible = overlay'.visible /\ e.armed = timer'.armed
    BY <1>5, <2>1, <2>2, <2>3 DEF TypeOK, Sound, View
  <2>7. PlannedEffective' = PlannedEffective
    BY <2>3 DEF PlannedEffective, FitFor, TypeOK
  <2>8. e.delayed => Delayed'
    BY <2>2, <2>3 DEF Delayed, Sound, TypeOK, View
  <2>9. e.synced => Synced'
    BY <2>2, <2>3, <2>7 DEF Synced, Sound, TypeOK, View
  <2>10. e.told => Told'
    BY <2>2, <2>3, <2>7 DEF Told, Sound, TypeOK, View
  <2>11. e.fresh => Fresh'
    BY <2>2, <2>3 DEF Fresh, Sound, TypeOK, View
  <2>12. Sound(e)'
    BY <2>6, <2>8, <2>9, <2>10, <2>11 DEF Sound
  <2>13. (timer.armed => timer.generation = ctl.generation)' /\ ctl'.delay = ctl.delay /\ inbox' = inbox /\ canvas' = canvas
    BY <1>7, <2>3 DEF TypeOK
  <2>14. Head(script)[1] \notin Empties => ring' = ring
    BY <1>2, <2>1, <2>3 DEF Empties
  <2>15. Made(a, e)
    BY <2>4, <2>5, <2>12, <2>13, <2>14, Zenon DEF Made
  <2> QED
    BY <1>1, <2>15
<1>24. CASE DisableAllDelayFilters
  <2>1. c[1] = "clean"
    BY <1>24, <1>2 DEF DisableAllDelayFilters, Call
  <2>2. e = [a EXCEPT !.video = FALSE, !.audio = FALSE]
    BY <1>6, <2>1 DEF Effect
  <2>20. PICK left : left = Min({ring.held, 1})
    OBVIOUS
  <2>24. MaxDelay \in Nat /\ ring.held \in 0..(MaxDelay + 1)
    BY MaxDelayIs DEF TypeOK
  <2>21. ring.held \in Nat /\ ring.held <= MaxDelay + 1
    BY <2>24
  <2>22. left = (IF ring.held <= 1 THEN ring.held ELSE 1)
    BY <2>20, <2>21, MinOfTwo
  <2>23. left \in 0..(MaxDelay + 1)
    BY <2>21, <2>22, <2>24
  <2>3. /\ video' = [video EXCEPT !.on = FALSE] /\ audio' = [audio EXCEPT !.on = FALSE] /\ ring' = [ring EXCEPT !.held = left]
        /\ UNCHANGED <<ctl, timer, program, overlay, inbox, canvas, upsets>>
    BY <1>24, <1>2, <1>4, <2>1, <2>20 DEF DisableAllDelayFilters, filters, graphics
  <2>4. TypeOK'
    BY <1>5, <1>8, <2>1, <2>3, <2>23 DEF TypeOK
  <2>5. e \in View
    BY <1>5, <2>1, <2>2 DEF View, Modes
  <2>6. /\ e.mode = ctl'.mode /\ e.video = video'.on /\ e.audio = audio'.on /\ e.held = ctl'.held
        /\ e.visible = overlay'.visible /\ e.armed = timer'.armed
    BY <1>5, <2>1, <2>2, <2>3, <2>23 DEF TypeOK, Sound, View
  <2>7. PlannedEffective' = PlannedEffective
    BY <2>3 DEF PlannedEffective, FitFor, TypeOK
  <2>8. e.delayed => Delayed'
    BY <2>2, <2>3 DEF Delayed, Sound, TypeOK, View
  <2>9. e.synced => Synced'
    BY <2>2, <2>3, <2>7 DEF Synced, Sound, TypeOK, View
  <2>10. e.told => Told'
    BY <2>2, <2>3, <2>7 DEF Told, Sound, TypeOK, View
  <2>11. e.fresh => Fresh'
    BY <2>2, <2>3 DEF Fresh, Sound, TypeOK, View
  <2>12. Sound(e)'
    BY <2>6, <2>8, <2>9, <2>10, <2>11 DEF Sound
  <2>13. (timer.armed => timer.generation = ctl.generation)' /\ ctl'.delay = ctl.delay /\ inbox' = inbox /\ canvas' = canvas
    BY <1>7, <2>3, <2>23 DEF TypeOK
  <2>14. Head(script)[1] \notin Empties => ring' = ring
    BY <1>2, <2>1, <2>3 DEF Empties
  <2>15. Made(a, e)
    BY <2>4, <2>5, <2>12, <2>13, <2>14, Zenon DEF Made
  <2> QED
    BY <1>1, <2>15
<1> QED
  BY <1>1, <1>2, <1>10, <1>11, <1>12, <1>13, <1>14, <1>15, <1>16, <1>17, <1>18, <1>19, <1>20, <1>21, <1>22,
       <1>23, <1>24, Zenon DEF Controller

-----------------------------------------------------------------------------
(* The lists the handlers make, and where they lead. *)

\* The calls of s lead from a to b; they are calls of this controller, which
\* wants the delay d, and only a calm list empties the ring.
Leads(s, d, calm, a, b) ==
  /\ s \in Seq(Calls) /\ Runs(s, a, b)
  /\ \A i \in DOMAIN s : /\ s[i][1] = "delay" => s[i][2] = d
                         /\ s[i][1] \in Empties => calm

LEMMA LeadsNothing == ASSUME NEW s, s = << >>, NEW d, NEW calm, NEW a PROVE Leads(s, d, calm, a, a)
<1>1. s \in Seq(Calls) /\ DOMAIN s = {}
  <2> HIDE DEF Calls
  <2> QED
    OBVIOUS
<1>2. Runs(s, a, a)
  BY RunsNothing, Zenon
<1> HIDE DEF Runs
<1> QED
  BY <1>1, <1>2, Zenon DEF Leads

LEMMA LeadsOne ==
    ASSUME NEW c \in Calls, NEW d, NEW calm, NEW a,
           c[1] = "delay" => c[2] = d, c[1] \in Empties => calm
    PROVE  Leads(<<c>>, d, calm, a, Effect(c, a))
<1>1. PICK s : s = <<c>>
  OBVIOUS
<1>2. s \in Seq(Calls) /\ \A i \in DOMAIN s : s[i] = c
  <2> HIDE DEF Calls
  <2> QED
    BY <1>1
<1>3. Runs(s, a, Effect(c, a))
  BY <1>1, RunsOne, Zenon
<1>4. Leads(s, d, calm, a, Effect(c, a))
  BY <1>2, <1>3, Zenon DEF Leads
<1> QED
  BY <1>1, <1>4, Zenon

LEMMA LeadsJoin ==
    ASSUME NEW s, NEW t, NEW d, NEW calm, NEW a, NEW b, NEW e,
           Leads(s, d, calm, a, b), Leads(t, d, calm, b, e)
    PROVE  Leads(s \o t, d, calm, a, e)
<1>1. PICK u, C : u = s \o t /\ C = Calls
  OBVIOUS
<1>2. s \in Seq(C) /\ t \in Seq(C)
  BY <1>1, Zenon DEF Leads
<1>3. /\ u \in Seq(C)
      /\ \A i \in DOMAIN u : (i \in DOMAIN s /\ u[i] = s[i]) \/ (i - Len(s) \in DOMAIN t /\ u[i] = t[i - Len(s)])
  BY <1>1, <1>2
<1>4. Runs(u, a, e)
  <2>1. Runs(s, a, b) /\ Runs(t, b, e)
    BY Zenon DEF Leads
  <2> QED
    BY <1>1, <1>2, <2>1, RunsJoin, Zenon
<1>5. \A i \in DOMAIN u : /\ u[i][1] = "delay" => u[i][2] = d
                          /\ u[i][1] \in Empties => calm
  <2>1. /\ \A i \in DOMAIN s : /\ s[i][1] = "delay" => s[i][2] = d
                               /\ s[i][1] \in Empties => calm
        /\ \A i \in DOMAIN t : /\ t[i][1] = "delay" => t[i][2] = d
                               /\ t[i][1] \in Empties => calm
    BY Zenon DEF Leads
  <2> QED
    BY <1>3, <2>1, Zenon
<1>6. Leads(u, d, calm, a, e)
  BY <1>1, <1>3, <1>4, <1>5, Zenon DEF Leads
<1> QED
  BY <1>1, <1>6, Zenon

\* A list is its first call and the rest.
LEMMA LeadsMore ==
    ASSUME NEW c \in Calls, NEW s, NEW d, NEW calm, NEW a, NEW b, NEW e, b = Effect(c, a),
           c[1] = "delay" => c[2] = d, c[1] \in Empties => calm, Leads(s, d, calm, b, e)
    PROVE  Leads(<<c>> \o s, d, calm, a, e)
BY LeadsOne, LeadsJoin, Zenon

LEMMA WhenIs ==
    ASSUME NEW s
    PROVE  When(TRUE, s) = s /\ When(FALSE, s) = << >>
BY DEF When

\* The calls handlers make.
LEMMA CallsAre ==
    /\ \A d \in Delays : <<"delay", d>> \in Calls
    /\ \A h \in Heights : <<"height", h>> \in Calls
    /\ \A on \in BOOLEAN : <<"audio", on>> \in Calls /\ <<"video", on>> \in Calls
    /\ <<"sync", 0>> \in Calls /\ <<"acquire", 0>> \in Calls /\ <<"drop", 0>> \in Calls
    /\ <<"hide", 0>> \in Calls /\ <<"overlay", 0>> \in Calls /\ <<"window", 0>> \in Calls
    /\ <<"remember", 0>> \in Calls /\ <<"clean", 0>> \in Calls
    /\ <<"state", "Inactive">> \in Calls /\ <<"state", "Active">> \in Calls
    /\ \A s \in Scenes : <<"show", s>> \in Calls
    /\ \A on \in BOOLEAN, s \in Scenes : <<"load", [on |-> on, program |-> s]>> \in Calls
BY DEF Calls

\* What each of them does to the view.
LEMMA EffectsAre ==
    ASSUME NEW a \in View
    PROVE  /\ \A x : Effect(<<"delay", x>>, a) = [a EXCEPT !.delayed = TRUE, !.synced = FALSE, !.told = FALSE]
           /\ \A x : Effect(<<"height", x>>, a) = [a EXCEPT !.synced = FALSE, !.told = FALSE]
           /\ Effect(<<"sync", 0>>, a) = [a EXCEPT !.synced = a.delayed]
           /\ \A on : Effect(<<"audio", on>>, a) = [a EXCEPT !.audio = on]
           /\ \A on : Effect(<<"video", on>>, a) = [a EXCEPT !.video = on]
           /\ Effect(<<"acquire", 0>>, a) = [a EXCEPT !.held = TRUE]
           /\ Effect(<<"drop", 0>>, a) = [a EXCEPT !.held = FALSE]
           /\ Effect(<<"hide", 0>>, a) = [a EXCEPT !.visible = FALSE, !.synced = FALSE, !.told = FALSE]
           /\ Effect(<<"overlay", 0>>, a) = [a EXCEPT !.visible = (a.mode = "Active"), !.told = a.synced]
           /\ \A m : Effect(<<"state", m>>, a) = [a EXCEPT !.mode = m, !.armed = FALSE]
           /\ Effect(<<"window", 0>>, a) = [a EXCEPT !.mode = "Filling", !.armed = TRUE, !.fresh = TRUE]
           /\ \A r : Effect(<<"load", r>>, a) = [a EXCEPT !.video = r.on, !.audio = r.on]
           /\ Effect(<<"clean", 0>>, a) = [a EXCEPT !.video = FALSE, !.audio = FALSE]
           /\ Effect(<<"remember", 0>>, a) = a
           /\ \A s : Effect(<<"show", s>>, a) = a
<1>1. \A x : Effect(<<"delay", x>>, a) = [a EXCEPT !.delayed = TRUE, !.synced = FALSE, !.told = FALSE]
  BY DEF Effect
<1>2. \A x : Effect(<<"height", x>>, a) = [a EXCEPT !.synced = FALSE, !.told = FALSE]
  BY DEF Effect
<1>3. Effect(<<"sync", 0>>, a) = [a EXCEPT !.synced = a.delayed]
  BY DEF Effect
<1>4. \A on : Effect(<<"audio", on>>, a) = [a EXCEPT !.audio = on]
  BY DEF Effect
<1>5. \A on : Effect(<<"video", on>>, a) = [a EXCEPT !.video = on]
  BY DEF Effect
<1>6. Effect(<<"acquire", 0>>, a) = [a EXCEPT !.held = TRUE]
  BY DEF Effect
<1>7. Effect(<<"drop", 0>>, a) = [a EXCEPT !.held = FALSE]
  BY DEF Effect
<1>8. Effect(<<"hide", 0>>, a) = [a EXCEPT !.visible = FALSE, !.synced = FALSE, !.told = FALSE]
  BY DEF Effect
<1>9. Effect(<<"overlay", 0>>, a) = [a EXCEPT !.visible = (a.mode = "Active"), !.told = a.synced]
  BY DEF Effect
<1>10. \A m : Effect(<<"state", m>>, a) = [a EXCEPT !.mode = m, !.armed = FALSE]
  BY DEF Effect
<1>11. Effect(<<"window", 0>>, a) = [a EXCEPT !.mode = "Filling", !.armed = TRUE, !.fresh = TRUE]
  BY DEF Effect
<1>12. \A r : Effect(<<"load", r>>, a) = [a EXCEPT !.video = r.on, !.audio = r.on]
  BY DEF Effect
<1>13. Effect(<<"clean", 0>>, a) = [a EXCEPT !.video = FALSE, !.audio = FALSE]
  BY DEF Effect
<1>14. Effect(<<"remember", 0>>, a) = a
  BY DEF Effect
<1>15. \A s : Effect(<<"show", s>>, a) = a
  BY DEF Effect
<1> QED
  BY <1>1, <1>2, <1>3, <1>4, <1>5, <1>6, <1>7, <1>8, <1>9, <1>10, <1>11, <1>12, <1>13, <1>14, <1>15, Zenon

LEMMA PairIs == ASSUME NEW p, NEW q PROVE <<p>> \o <<q>> = <<p, q>>
<1>1. PICK s, t, u : s = <<p>> /\ t = <<q>> /\ u = <<p, q>>
  OBVIOUS
<1>2. /\ s \in Seq({p, q}) /\ t \in Seq({p, q}) /\ u \in Seq({p, q})
      /\ Len(s) = 1 /\ Len(t) = 1 /\ Len(u) = 2 /\ u[1] = p /\ u[2] = q /\ s[1] = p /\ t[1] = q
  BY <1>1
<1>3. PICK v : v = s \o t
  OBVIOUS
<1>4. v \in Seq({p, q}) /\ Len(v) = 2 /\ v[1] = p /\ v[2] = q
  <2>1. /\ v \in Seq({p, q}) /\ Len(v) = Len(s) + Len(t)
        /\ \A i \in 1..(Len(s) + Len(t)) : v[i] = IF i <= Len(s) THEN s[i] ELSE t[i - Len(s)]
    BY <1>2, <1>3, ConcatProperties, Zenon
  <2>2. 1 \in 1..(1 + 1) /\ 2 \in 1..(1 + 1) /\ 1 <= 1 /\ ~(2 <= 1) /\ 2 - 1 = 1 /\ 1 + 1 = 2
    OBVIOUS
  <2> QED
    BY <1>2, <2>1, <2>2
<1>5. \A i \in 1..Len(v) : v[i] = u[i]
  BY <1>2, <1>4
<1>6. v = u
  BY <1>2, <1>4, <1>5, SeqEqual
<1> QED
  BY <1>1, <1>3, <1>6

\* A list, call by call.
LEMMA ThreeIs == ASSUME NEW p, NEW q, NEW r PROVE <<p>> \o (<<q>> \o <<r>>) = <<p, q, r>>
<1>1. <<p, q, r>> = <<p>> \o <<q, r>>
  OBVIOUS
<1> QED
  BY <1>1, PairIs

LEMMA FourIs == ASSUME NEW p, NEW q, NEW r, NEW s PROVE <<p>> \o (<<q>> \o (<<r>> \o <<s>>)) = <<p, q, r, s>>
<1>1. <<p, q, r, s>> = <<p>> \o <<q, r, s>>
  OBVIOUS
<1> QED
  BY <1>1, ThreeIs

\* Stopping: everything is off, whatever the mode was.
LEMMA StopLeads ==
    ASSUME TypeOK, NEW a \in View, a.held = ctl.held, NEW d, NEW restore \in BOOLEAN
    PROVE  \E b \in View :
             /\ Leads(StopCalls(restore), d, TRUE, a, b)
             /\ b.mode = "Inactive" /\ ~b.video /\ ~b.audio /\ ~b.held /\ ~b.visible /\ ~b.armed
<1>1. PICK e1 : e1 = [a EXCEPT !.held = FALSE]
  OBVIOUS
<1>2. PICK e2 : e2 = [e1 EXCEPT !.visible = FALSE, !.synced = FALSE, !.told = FALSE]
  OBVIOUS
<1>3. PICK e3 : e3 = [e2 EXCEPT !.video = FALSE]
  OBVIOUS
<1>4. PICK e4 : e4 = [e3 EXCEPT !.audio = FALSE]
  OBVIOUS
<1>5. PICK e5 : e5 = [e4 EXCEPT !.mode = "Inactive", !.armed = FALSE]
  OBVIOUS
<1>6. e1 \in View
  BY <1>1 DEF View
<1>7. e2 \in View
  BY <1>2, <1>6 DEF View
<1>8. e3 \in View
  BY <1>3, <1>7 DEF View
<1>9. e4 \in View
  BY <1>4, <1>8 DEF View
<1>10. e5 \in View /\ e5.mode = "Inactive" /\ e5.armed = FALSE
  BY <1>5, <1>9 DEF View, Modes
<1>11. e5.video = FALSE /\ e5.audio = FALSE /\ e5.held = FALSE /\ e5.visible = FALSE
  BY <1>1, <1>2, <1>3, <1>4, <1>5, <1>6, <1>7, <1>8, <1>9, <1>10 DEF View
<1>12. Leads(When(ctl.held, << <<"drop", 0>> >>), d, TRUE, a, e1)
  <2>1. CASE ctl.held
    <3>1. ctl.held = TRUE
      BY <2>1 DEF TypeOK
    <3>2. When(ctl.held, << <<"drop", 0>> >>) = << <<"drop", 0>> >>
      BY <3>1, WhenIs, Zenon
    <3>3. PICK c : c = <<"drop", 0>>
      OBVIOUS
    <3>4. c[1] # "delay" /\ c[1] \notin Empties
      BY <3>3 DEF Empties
    <3>5. c \in Calls /\ Effect(c, a) = e1
      BY <1>1, <3>3, CallsAre, EffectsAre, Zenon
    <3>6. Leads(<<c>>, d, TRUE, a, Effect(c, a))
      BY <3>4, <3>5, LeadsOne, Zenon
    <3> QED
      BY <3>2, <3>3, <3>5, <3>6, Zenon
  <2>2. CASE ~ctl.held
    <3>1. ctl.held = FALSE
      BY <2>2 DEF TypeOK
    <3>2. When(ctl.held, << <<"drop", 0>> >>) = << >>
      BY <3>1, WhenIs, Zenon
    <3>3. e1 = a
      BY <1>1, <3>1 DEF View
    <3> QED
      BY <3>2, <3>3, LeadsNothing, Zenon
  <2> QED
    BY <2>1, <2>2
<1>13. Leads(<< <<"hide", 0>>, <<"video", FALSE>>, <<"audio", FALSE>> >>, d, TRUE, e1, e4)
  <2>1. PICK c2, c3, c4 : c2 = <<"hide", 0>> /\ c3 = <<"video", FALSE>> /\ c4 = <<"audio", FALSE>>
    OBVIOUS
  <2>2. /\ c2[1] # "delay" /\ c2[1] \notin Empties
        /\ c3[1] # "delay" /\ c4[1] # "delay"
    BY <2>1 DEF Empties
  <2>3. c2 \in Calls /\ c3 \in Calls /\ c4 \in Calls
    BY <2>1, CallsAre, Zenon
  <2>9. Effect(c2, e1) = e2
    BY <1>2, <1>6, <2>1, EffectsAre, Zenon
  <2>10. Effect(c3, e2) = e3
    BY <1>3, <1>7, <2>1, EffectsAre, Zenon
  <2>11. Effect(c4, e3) = e4
    BY <1>4, <1>8, <2>1, EffectsAre, Zenon
  <2>4. Effect(c2, e1) = e2 /\ Effect(c3, e2) = e3 /\ Effect(c4, e3) = e4
    BY <2>9, <2>10, <2>11
  <2>5. Leads(<<c4>>, d, TRUE, e3, e4)
    BY <2>2, <2>3, <2>4, LeadsOne, Zenon
  <2>6. Leads(<<c3>> \o <<c4>>, d, TRUE, e2, e4)
    BY <2>2, <2>3, <2>4, <2>5, LeadsMore, Zenon
  <2>7. Leads(<<c2>> \o (<<c3>> \o <<c4>>), d, TRUE, e1, e4)
    BY <2>2, <2>3, <2>4, <2>6, LeadsMore, Zenon
  <2>8. <<c2>> \o (<<c3>> \o <<c4>>) = <<c2, c3, c4>>
    BY ThreeIs, Zenon
  <2> QED
    BY <2>1, <2>7, <2>8, Zenon
<1>14. Leads(When(restore, RestoreCalls), d, TRUE, e4, e4)
  <2>1. CASE restore = TRUE
    <3>1. PICK scene \in Scenes : scene = IF ctl.before # "" THEN ctl.before ELSE "live"
      BY ScenesAre DEF TypeOK
    <3>2. PICK c : c = <<"show", scene>>
      OBVIOUS
    <3>3. When(restore, RestoreCalls) = <<c>>
      BY <2>1, <3>1, <3>2, WhenIs, Zenon DEF RestoreCalls
    <3>4. c[1] # "delay" /\ c[1] \notin Empties
      BY <3>2 DEF Empties
    <3>5. c \in Calls /\ Effect(c, e4) = e4
      BY <1>9, <3>2, CallsAre, EffectsAre, Zenon
    <3> QED
      BY <3>3, <3>4, <3>5, LeadsOne, Zenon
  <2>2. CASE restore = FALSE
    <3>1. When(restore, RestoreCalls) = << >>
      BY <2>2, WhenIs, Zenon
    <3> QED
      BY <3>1, LeadsNothing, Zenon
  <2> QED
    BY <2>1, <2>2
<1>15. Leads(<< <<"state", "Inactive">> >>, d, TRUE, e4, e5)
  <2>1. PICK c : c = <<"state", "Inactive">>
    OBVIOUS
  <2>2. c[1] # "delay" /\ c[1] \notin Empties
    BY <2>1 DEF Empties
  <2>3. c \in Calls /\ Effect(c, e4) = e5
    BY <1>5, <1>9, <2>1, CallsAre, EffectsAre, Zenon
  <2> QED
    BY <2>1, <2>2, <2>3, LeadsOne, Zenon
<1>16. Leads(StopCalls(restore), d, TRUE, a, e5)
  BY <1>12, <1>13, <1>14, <1>15, LeadsJoin, Zenon DEF StopCalls
<1> QED
  BY <1>10, <1>11, <1>16, Zenon

\* Covering a refill: the keep-alive is held.
LEMMA LoadingLeads ==
    ASSUME TypeOK, Covered, NEW a \in View, a.held = ctl.held, NEW d, NEW e, e = [a EXCEPT !.held = TRUE]
    PROVE  Leads(LoadingSceneCalls, d, FALSE, a, e)
<1>1. e \in View
  BY DEF View
<1>2. Leads(When(~ctl.held, << <<"acquire", 0>> >>), d, FALSE, a, e)
  <2>1. CASE ~ctl.held
    <3>1. (~ctl.held) = TRUE
      BY <2>1
    <3>2. PICK c : c = <<"acquire", 0>>
      OBVIOUS
    <3>3. When(~ctl.held, <<c>>) = <<c>>
      BY <3>1, WhenIs, Zenon
    <3>4. c[1] # "delay" /\ c[1] \notin Empties
      BY <3>2 DEF Empties
    <3>5. c \in Calls /\ Effect(c, a) = e
      BY <3>2, CallsAre, EffectsAre, Zenon
    <3>6. Leads(<<c>>, d, FALSE, a, Effect(c, a))
      BY <3>4, <3>5, LeadsOne, Zenon
    <3> QED
      BY <3>2, <3>3, <3>5, <3>6, Zenon
  <2>2. CASE ctl.held
    <3>1. (~ctl.held) = FALSE
      BY <2>2
    <3>2. When(~ctl.held, << <<"acquire", 0>> >>) = << >>
      BY <3>1, WhenIs, Zenon
    <3>3. e = a
      BY <2>2 DEF View, TypeOK
    <3> QED
      BY <3>2, <3>3, LeadsNothing, Zenon
  <2> QED
    BY <2>1, <2>2
<1>3. PICK c : c = <<"show", Loading>>
  OBVIOUS
<1>4. c[1] # "delay" /\ c[1] \notin Empties
  BY <1>3 DEF Empties
<1>5. c \in Calls /\ Effect(c, e) = e
  BY <1>1, <1>3, CallsAre, EffectsAre, ScenesAre, Zenon
<1>6. Leads(<<c>>, d, FALSE, e, e)
  <2>1. Leads(<<c>>, d, FALSE, e, Effect(c, e))
    BY <1>4, <1>5, LeadsOne, Zenon
  <2> QED
    BY <1>5, <2>1, Zenon
<1>7. (Loading # "") = TRUE
  BY DEF Covered
<1>8. LoadingSceneCalls = When(~ctl.held, << <<"acquire", 0>> >>) \o << <<"show", Loading>> >>
  BY <1>7, WhenIs, Zenon DEF LoadingSceneCalls
<1> QED
  BY <1>2, <1>3, <1>6, <1>8, LeadsJoin, Zenon

\* A change of delay or quality while active.
LEMMA ChangeLeads ==
    ASSUME TypeOK, Covered, NEW a \in View, a.held = ctl.held, a.mode = "Active",
           NEW push \in Calls, push[1] \in {"delay", "height"}, NEW d, push[1] = "delay" => push[2] = d,
           NEW refill \in BOOLEAN
    PROVE  \E b \in View :
             /\ Leads(ChangeCalls(refill, push), d, FALSE, a, b)
             /\ b.video = a.video /\ b.audio = a.audio
             /\ a.delayed \/ push[1] = "delay" => b.delayed
             /\ refill => b.mode = "Filling" /\ b.held /\ b.fresh
             /\ ~refill => b.mode = "Active" /\ b.held = a.held /\ b.visible /\ (b.delayed => b.synced /\ b.told)
<1>1. PICK e1 : e1 = IF refill THEN [a EXCEPT !.held = TRUE] ELSE a
  OBVIOUS
<1>2. PICK e2 : e2 = Effect(push, e1)
  OBVIOUS
<1>3. PICK e3 : e3 = [e2 EXCEPT !.synced = e2.delayed]
  OBVIOUS
<1>4. PICK e4 : e4 = IF refill THEN [e3 EXCEPT !.mode = "Filling", !.armed = TRUE, !.fresh = TRUE] ELSE e3
  OBVIOUS
<1>5. PICK e5 : e5 = [e4 EXCEPT !.visible = (e4.mode = "Active"), !.told = e4.synced]
  OBVIOUS
<1>6. /\ e1 \in View /\ e1.video = a.video /\ e1.audio = a.audio /\ e1.mode = a.mode /\ e1.delayed = a.delayed
      /\ refill => e1.held
      /\ ~refill => e1 = a
  BY <1>1 DEF View
<1>7. /\ e2 \in View /\ e2.video = e1.video /\ e2.audio = e1.audio /\ e2.mode = e1.mode /\ e2.held = e1.held
      /\ e1.delayed \/ push[1] = "delay" => e2.delayed
  <2>1. CASE push[1] = "delay"
    <3>1. e2 = [e1 EXCEPT !.delayed = TRUE, !.synced = FALSE, !.told = FALSE]
      BY <1>2, <2>1 DEF Effect
    <3> QED
      BY <1>6, <2>1, <3>1 DEF View
  <2>2. CASE push[1] = "height"
    <3>1. e2 = [e1 EXCEPT !.synced = FALSE, !.told = FALSE]
      BY <1>2, <2>2 DEF Effect
    <3> QED
      BY <1>6, <2>2, <3>1 DEF View
  <2> QED
    BY <2>1, <2>2
<1>8. /\ e3 \in View /\ e3.video = e2.video /\ e3.audio = e2.audio /\ e3.mode = e2.mode /\ e3.held = e2.held
      /\ e3.delayed = e2.delayed /\ e3.synced = e2.delayed
  BY <1>3, <1>7 DEF View
<1>9. /\ e4 \in View /\ e4.video = e3.video /\ e4.audio = e3.audio /\ e4.held = e3.held /\ e4.delayed = e3.delayed
      /\ refill => e4.mode = "Filling" /\ e4.fresh
      /\ ~refill => e4 = e3
  BY <1>4, <1>8 DEF View, Modes
<1>10. /\ e5 \in View /\ e5.video = e4.video /\ e5.audio = e4.audio /\ e5.held = e4.held /\ e5.delayed = e4.delayed
       /\ e5.mode = e4.mode /\ e5.fresh = e4.fresh /\ e5.synced = e4.synced /\ e5.told = e4.synced
       /\ e5.visible = (e4.mode = "Active")
  BY <1>5, <1>9 DEF View
<1>11. Leads(When(refill, LoadingSceneCalls), d, FALSE, a, e1)
  <2>1. CASE refill = TRUE
    <3>1. e1 = [a EXCEPT !.held = TRUE] /\ When(refill, LoadingSceneCalls) = LoadingSceneCalls
      BY <1>1, <2>1, WhenIs, Zenon
    <3> QED
      BY <3>1, LoadingLeads, Zenon
  <2>2. CASE refill = FALSE
    <3>1. e1 = a /\ When(refill, LoadingSceneCalls) = << >>
      BY <1>1, <2>2, WhenIs, Zenon
    <3> QED
      BY <3>1, LeadsNothing, Zenon
  <2> QED
    BY <2>1, <2>2
<1>12. Leads(<<push, <<"sync", 0>> >>, d, FALSE, e1, e3)
  <2>1. Leads(<< <<"sync", 0>> >>, d, FALSE, e2, e3)
    <3>1. PICK c : c = <<"sync", 0>>
      OBVIOUS
    <3>2. c[1] # "delay" /\ (c[1] \in Empties => FALSE)
      BY <3>1 DEF Empties
    <3>3. c \in Calls /\ Effect(c, e2) = e3
      BY <1>3, <1>7, <3>1, CallsAre, EffectsAre, Zenon
    <3>4. Leads(<<c>>, d, FALSE, e2, Effect(c, e2))
      BY <3>2, <3>3, LeadsOne, Zenon
    <3> QED
      BY <3>1, <3>3, <3>4, Zenon
  <2>2. push[1] \notin Empties
    BY DEF Empties
  <2>3. Leads(<<push>> \o << <<"sync", 0>> >>, d, FALSE, e1, e3)
    BY <1>2, <2>1, <2>2, LeadsMore, Zenon
  <2> QED
    BY <2>3, PairIs, Zenon
<1>13. Leads(When(refill, << <<"window", 0>> >>), d, FALSE, e3, e4)
  <2>1. CASE refill = TRUE
    <3>1. e4 = [e3 EXCEPT !.mode = "Filling", !.armed = TRUE, !.fresh = TRUE]
      BY <1>4, <2>1
    <3>2. When(refill, << <<"window", 0>> >>) = << <<"window", 0>> >>
      BY <2>1, WhenIs, Zenon
    <3>3. Leads(<< <<"window", 0>> >>, d, FALSE, e3, e4)
      <4>1. PICK c : c = <<"window", 0>>
        OBVIOUS
      <4>2. c[1] # "delay" /\ (c[1] \in Empties => FALSE)
        BY <4>1 DEF Empties
      <4>3. c \in Calls /\ Effect(c, e3) = e4
        BY <1>8, <3>1, <4>1, CallsAre, EffectsAre, Zenon
      <4>4. Leads(<<c>>, d, FALSE, e3, Effect(c, e3))
        BY <4>2, <4>3, LeadsOne, Zenon
      <4> QED
        BY <4>1, <4>3, <4>4, Zenon
    <3> QED
      BY <3>2, <3>3, Zenon
  <2>2. CASE refill = FALSE
    <3>1. e4 = e3 /\ When(refill, << <<"window", 0>> >>) = << >>
      BY <1>4, <2>2, WhenIs, Zenon
    <3> QED
      BY <3>1, LeadsNothing, Zenon
  <2> QED
    BY <2>1, <2>2
<1>14. Leads(<< <<"overlay", 0>> >>, d, FALSE, e4, e5)
  <2>1. PICK c : c = <<"overlay", 0>>
    OBVIOUS
  <2>2. c[1] # "delay" /\ (c[1] \in Empties => FALSE)
    BY <2>1 DEF Empties
  <2>3. c \in Calls /\ Effect(c, e4) = e5
    BY <1>5, <1>9, <2>1, CallsAre, EffectsAre, Zenon
  <2>4. Leads(<<c>>, d, FALSE, e4, Effect(c, e4))
    BY <2>2, <2>3, LeadsOne, Zenon
  <2> QED
    BY <2>1, <2>3, <2>4, Zenon
<1>15. Leads(ChangeCalls(refill, push), d, FALSE, a, e5)
  BY <1>11, <1>12, <1>13, <1>14, LeadsJoin, Zenon DEF ChangeCalls
<1>16. /\ e5.video = a.video /\ e5.audio = a.audio
       /\ a.delayed \/ push[1] = "delay" => e5.delayed
       /\ refill => e5.mode = "Filling" /\ e5.held /\ e5.fresh
  BY <1>6, <1>7, <1>8, <1>9, <1>10
<1>17. ~refill => e5.mode = "Active" /\ e5.held = a.held /\ e5.visible /\ (e5.delayed => e5.synced /\ e5.told)
  BY <1>6, <1>7, <1>8, <1>9, <1>10
<1> QED
  BY <1>10, <1>15, <1>16, <1>17, Zenon

\* Switching the delay on, up to the scene that covers it.
LEMMA PrepareLeads ==
    ASSUME TypeOK, NEW a \in View
    PROVE  \E b \in View :
             /\ Leads(<< <<"delay", ctl.delay>>, <<"height", ctl.height>>, <<"sync", 0>>, <<"audio", TRUE>>,
                         <<"video", TRUE>>, <<"acquire", 0>>, <<"remember", 0>> >>, ctl.delay, TRUE, a, b)
             /\ b.delayed = TRUE /\ b.audio = TRUE /\ b.video = TRUE /\ b.held = TRUE
<1>1. PICK d : d = ctl.delay
  OBVIOUS
<1>2. PICK e1 : e1 = [a EXCEPT !.delayed = TRUE, !.synced = FALSE, !.told = FALSE]
  OBVIOUS
<1>3. PICK e2 : e2 = [e1 EXCEPT !.synced = FALSE, !.told = FALSE]
  OBVIOUS
<1>4. PICK e3 : e3 = [e2 EXCEPT !.synced = e2.delayed]
  OBVIOUS
<1>5. PICK e4 : e4 = [e3 EXCEPT !.audio = TRUE]
  OBVIOUS
<1>6. PICK e5 : e5 = [e4 EXCEPT !.video = TRUE]
  OBVIOUS
<1>7. PICK e6 : e6 = [e5 EXCEPT !.held = TRUE]
  OBVIOUS
<1>9. e1 \in View /\ e1.delayed = TRUE
  BY <1>2 DEF View
<1>10. e2 \in View /\ e2.delayed = TRUE
  BY <1>3, <1>9 DEF View
<1>11. e3 \in View /\ e3.delayed = TRUE
  BY <1>4, <1>10 DEF View
<1>12. e4 \in View /\ e4.delayed = TRUE /\ e4.audio = TRUE
  BY <1>5, <1>11 DEF View
<1>13. e5 \in View /\ e5.delayed = TRUE /\ e5.audio = TRUE /\ e5.video = TRUE
  BY <1>6, <1>12 DEF View
<1>14. e6 \in View /\ e6.delayed = TRUE /\ e6.audio = TRUE /\ e6.video = TRUE /\ e6.held = TRUE
  BY <1>7, <1>13 DEF View
<1>16. PICK c1, c2, c3, c4, c5, c6, c7 :
          /\ c1 = <<"delay", ctl.delay>> /\ c2 = <<"height", ctl.height>> /\ c3 = <<"sync", 0>>
          /\ c4 = <<"audio", TRUE>> /\ c5 = <<"video", TRUE>> /\ c6 = <<"acquire", 0>> /\ c7 = <<"remember", 0>>
  OBVIOUS
<1>17. /\ c1[2] = d /\ c2[1] # "delay" /\ c3[1] # "delay" /\ c4[1] # "delay"
       /\ c5[1] # "delay" /\ c6[1] # "delay" /\ c7[1] # "delay"
  BY <1>1, <1>16
<1>18. ctl.delay \in Delays /\ ctl.height \in Heights
  BY DEF TypeOK
<1>19. /\ c1 \in Calls /\ c2 \in Calls /\ c3 \in Calls /\ c4 \in Calls /\ c5 \in Calls /\ c6 \in Calls /\ c7 \in Calls
  BY <1>16, <1>18, CallsAre, Zenon
<1>20. Effect(c1, a) = e1
  BY <1>2, <1>16, EffectsAre, Zenon
<1>21. Effect(c2, e1) = e2
  BY <1>3, <1>9, <1>16, EffectsAre, Zenon
<1>22. Effect(c3, e2) = e3
  BY <1>4, <1>10, <1>16, EffectsAre, Zenon
<1>23. Effect(c4, e3) = e4
  BY <1>5, <1>11, <1>16, EffectsAre, Zenon
<1>24. Effect(c5, e4) = e5
  BY <1>6, <1>12, <1>16, EffectsAre, Zenon
<1>25. Effect(c6, e5) = e6
  BY <1>7, <1>13, <1>16, EffectsAre, Zenon
<1>26. Effect(c7, e6) = e6
  BY <1>14, <1>16, EffectsAre, Zenon
<1>27. Leads(<<c7>>, d, TRUE, e6, e6)
  <2>1. Leads(<<c7>>, d, TRUE, e6, Effect(c7, e6))
    BY <1>17, <1>19, LeadsOne, Zenon
  <2> QED
    BY <1>26, <2>1, Zenon
<1>28. Leads(<<c6, c7>>, d, TRUE, e5, e6)
  <2>1. <<c6, c7>> = <<c6>> \o <<c7>>
    BY PairIs
  <2>2. Leads(<<c6>> \o <<c7>>, d, TRUE, e5, e6)
    BY <1>17, <1>19, <1>25, <1>27, LeadsMore, Zenon
  <2> QED
    BY <2>1, <2>2, Zenon
<1>29. Leads(<<c5, c6, c7>>, d, TRUE, e4, e6)
  <2>1. <<c5, c6, c7>> = <<c5>> \o <<c6, c7>>
    OBVIOUS
  <2>2. Leads(<<c5>> \o <<c6, c7>>, d, TRUE, e4, e6)
    BY <1>17, <1>19, <1>24, <1>28, LeadsMore, Zenon
  <2> QED
    BY <2>1, <2>2, Zenon
<1>30. Leads(<<c4, c5, c6, c7>>, d, TRUE, e3, e6)
  <2>1. <<c4, c5, c6, c7>> = <<c4>> \o <<c5, c6, c7>>
    OBVIOUS
  <2>2. Leads(<<c4>> \o <<c5, c6, c7>>, d, TRUE, e3, e6)
    BY <1>17, <1>19, <1>23, <1>29, LeadsMore, Zenon
  <2> QED
    BY <2>1, <2>2, Zenon
<1>31. Leads(<<c3, c4, c5, c6, c7>>, d, TRUE, e2, e6)
  <2>1. <<c3, c4, c5, c6, c7>> = <<c3>> \o <<c4, c5, c6, c7>>
    OBVIOUS
  <2>2. Leads(<<c3>> \o <<c4, c5, c6, c7>>, d, TRUE, e2, e6)
    BY <1>17, <1>19, <1>22, <1>30, LeadsMore, Zenon
  <2> QED
    BY <2>1, <2>2, Zenon
<1>32. Leads(<<c2, c3, c4, c5, c6, c7>>, d, TRUE, e1, e6)
  <2>1. <<c2, c3, c4, c5, c6, c7>> = <<c2>> \o <<c3, c4, c5, c6, c7>>
    OBVIOUS
  <2>2. Leads(<<c2>> \o <<c3, c4, c5, c6, c7>>, d, TRUE, e1, e6)
    BY <1>17, <1>19, <1>21, <1>31, LeadsMore, Zenon
  <2> QED
    BY <2>1, <2>2, Zenon
<1>33. Leads(<<c1, c2, c3, c4, c5, c6, c7>>, d, TRUE, a, e6)
  <2>1. <<c1, c2, c3, c4, c5, c6, c7>> = <<c1>> \o <<c2, c3, c4, c5, c6, c7>>
    OBVIOUS
  <2>2. Leads(<<c1>> \o <<c2, c3, c4, c5, c6, c7>>, d, TRUE, a, e6)
    BY <1>17, <1>19, <1>20, <1>32, LeadsMore, Zenon
  <2> QED
    BY <2>1, <2>2, Zenon
<1> QED
  BY <1>1, <1>14, <1>16, <1>33, Zenon

\* Switching the delay on.
LEMMA EnableLeads ==
    ASSUME TypeOK, Covered, NEW a \in View
    PROVE  \E b \in View :
             /\ Leads(EnableCalls, ctl.delay, TRUE, a, b)
             /\ b.mode = "Filling" /\ b.video /\ b.audio /\ b.held /\ b.delayed /\ b.fresh
<1>1. PICK d : d = ctl.delay
  OBVIOUS
<1>2. PICK e6 \in View :
        /\ Leads(<< <<"delay", ctl.delay>>, <<"height", ctl.height>>, <<"sync", 0>>, <<"audio", TRUE>>,
                    <<"video", TRUE>>, <<"acquire", 0>>, <<"remember", 0>> >>, d, TRUE, a, e6)
        /\ e6.delayed = TRUE /\ e6.audio = TRUE /\ e6.video = TRUE /\ e6.held = TRUE
  BY <1>1, PrepareLeads, Zenon
<1>8. PICK e7 : e7 = [e6 EXCEPT !.mode = "Filling", !.armed = TRUE, !.fresh = TRUE]
  OBVIOUS
<1>14. e6 \in View
  OBVIOUS
<1>15. e7 \in View /\ e7.delayed /\ e7.audio /\ e7.video /\ e7.held /\ e7.mode = "Filling" /\ e7.fresh
  BY <1>2, <1>8 DEF View, Modes
<1>35. Leads(When(Loading # "", << <<"show", Loading>> >>), d, TRUE, e6, e6)
  <2>1. PICK c : c = <<"show", Loading>>
    OBVIOUS
  <2>2. (Loading # "") = TRUE
    BY DEF Covered
  <2>3. When(Loading # "", <<c>>) = <<c>>
    BY <2>2, WhenIs, Zenon
  <2>4. c[1] # "delay"
    BY <2>1
  <2>5. c \in Calls /\ Effect(c, e6) = e6
    BY <1>14, <2>1, CallsAre, EffectsAre, ScenesAre, Zenon
  <2>6. Leads(<<c>>, d, TRUE, e6, Effect(c, e6))
    BY <2>4, <2>5, LeadsOne, Zenon
  <2> QED
    BY <2>1, <2>3, <2>5, <2>6, Zenon
<1>36. Leads(<< <<"window", 0>> >>, d, TRUE, e6, e7)
  <2>1. PICK c : c = <<"window", 0>>
    OBVIOUS
  <2>2. c[1] # "delay" /\ (c[1] \in Empties => TRUE)
    BY <2>1 DEF Empties
  <2>3. c \in Calls /\ Effect(c, e6) = e7
    BY <1>8, <1>14, <2>1, CallsAre, EffectsAre, Zenon
  <2>4. Leads(<<c>>, d, TRUE, e6, Effect(c, e6))
    BY <2>2, <2>3, LeadsOne, Zenon
  <2> QED
    BY <2>1, <2>3, <2>4, Zenon
<1>37. Leads(EnableCalls, d, TRUE, a, e7)
  BY <1>2, <1>35, <1>36, LeadsJoin, Zenon DEF EnableCalls
<1> QED
  BY <1>1, <1>15, <1>37, Zenon

\* The end of the countdown.
TimerCalls ==
  When(ctl.held, << <<"drop", 0>> >>)
  \o << <<"show", "wrapper">>, <<"sync", 0>>, <<"state", "Active">>, <<"overlay", 0>> >>

LEMMA TimerLeads ==
    ASSUME TypeOK, NEW a \in View, a.held = ctl.held, NEW d
    PROVE  \E b \in View :
             /\ Leads(TimerCalls, d, FALSE, a, b)
             /\ b.mode = "Active" /\ b.video = a.video /\ b.audio = a.audio /\ ~b.held /\ b.delayed = a.delayed
             /\ b.visible /\ b.synced = a.delayed /\ b.told = a.delayed
<1>1. PICK e1 : e1 = [a EXCEPT !.held = FALSE]
  OBVIOUS
<1>2. PICK e2 : e2 = [e1 EXCEPT !.synced = e1.delayed]
  OBVIOUS
<1>3. PICK e3 : e3 = [e2 EXCEPT !.mode = "Active", !.armed = FALSE]
  OBVIOUS
<1>4. PICK e4 : e4 = [e3 EXCEPT !.visible = (e3.mode = "Active"), !.told = e3.synced]
  OBVIOUS
<1>5. e1 \in View /\ e1.held = FALSE /\ e1.delayed = a.delayed /\ e1.video = a.video /\ e1.audio = a.audio
  BY <1>1 DEF View
<1>6. /\ e2 \in View /\ e2.held = FALSE /\ e2.delayed = a.delayed /\ e2.video = a.video /\ e2.audio = a.audio
      /\ e2.synced = a.delayed
  BY <1>2, <1>5 DEF View
<1>7. /\ e3 \in View /\ e3.held = FALSE /\ e3.delayed = a.delayed /\ e3.video = a.video /\ e3.audio = a.audio
      /\ e3.synced = a.delayed /\ e3.mode = "Active"
  BY <1>3, <1>6 DEF View, Modes
<1>8. /\ e4 \in View /\ e4.held = FALSE /\ e4.delayed = a.delayed /\ e4.video = a.video /\ e4.audio = a.audio
      /\ e4.synced = a.delayed /\ e4.mode = "Active" /\ e4.visible /\ e4.told = a.delayed
  BY <1>4, <1>7 DEF View
<1>9. Leads(When(ctl.held, << <<"drop", 0>> >>), d, FALSE, a, e1)
  <2>1. CASE ctl.held
    <3>1. ctl.held = TRUE
      BY <2>1 DEF TypeOK
    <3>2. When(ctl.held, << <<"drop", 0>> >>) = << <<"drop", 0>> >>
      BY <3>1, WhenIs, Zenon
    <3>3. Leads(<< <<"drop", 0>> >>, d, FALSE, a, e1)
      <4>1. PICK c : c = <<"drop", 0>>
        OBVIOUS
      <4>2. c[1] # "delay" /\ (c[1] \in Empties => FALSE)
        BY <4>1 DEF Empties
      <4>3. c \in Calls /\ Effect(c, a) = e1
        BY <1>1, <4>1, CallsAre, EffectsAre, Zenon
      <4>4. Leads(<<c>>, d, FALSE, a, Effect(c, a))
        BY <4>2, <4>3, LeadsOne, Zenon
      <4> QED
        BY <4>1, <4>3, <4>4, Zenon
    <3> QED
      BY <3>2, <3>3, Zenon
  <2>2. CASE ~ctl.held
    <3>1. ctl.held = FALSE
      BY <2>2 DEF TypeOK
    <3>2. When(ctl.held, << <<"drop", 0>> >>) = << >>
      BY <3>1, WhenIs, Zenon
    <3>3. e1 = a
      BY <1>1, <3>1 DEF View
    <3> QED
      BY <3>2, <3>3, LeadsNothing, Zenon
  <2> QED
    BY <2>1, <2>2
<1>10. PICK c1, c2, c3, c4 : c1 = <<"show", "wrapper">> /\ c2 = <<"sync", 0>> /\ c3 = <<"state", "Active">> /\ c4 = <<"overlay", 0>>
  OBVIOUS
<1>11. /\ c1[1] # "delay" /\ c2[1] # "delay" /\ c3[1] # "delay" /\ c4[1] # "delay"
       /\ c1[1] \notin Empties /\ c2[1] \notin Empties /\ c3[1] \notin Empties /\ c4[1] \notin Empties
  BY <1>10 DEF Empties
<1>12. c1 \in Calls /\ c2 \in Calls /\ c3 \in Calls /\ c4 \in Calls
  BY <1>10, CallsAre, ScenesAre, Zenon
<1>13. Effect(c1, e1) = e1
  BY <1>5, <1>10, EffectsAre, Zenon
<1>14. Effect(c2, e1) = e2
  BY <1>2, <1>5, <1>10, EffectsAre, Zenon
<1>15. Effect(c3, e2) = e3
  BY <1>3, <1>6, <1>10, EffectsAre, Zenon
<1>16. Effect(c4, e3) = e4
  BY <1>4, <1>7, <1>10, EffectsAre, Zenon
<1>17. Leads(<<c4>>, d, FALSE, e3, e4)
  BY <1>11, <1>12, <1>16, LeadsOne, Zenon
<1>18. Leads(<<c3>> \o <<c4>>, d, FALSE, e2, e4)
  BY <1>11, <1>12, <1>15, <1>17, LeadsMore, Zenon
<1>19. Leads(<<c2>> \o (<<c3>> \o <<c4>>), d, FALSE, e1, e4)
  BY <1>11, <1>12, <1>14, <1>18, LeadsMore, Zenon
<1>20. Leads(<<c1>> \o (<<c2>> \o (<<c3>> \o <<c4>>)), d, FALSE, e1, e4)
  BY <1>11, <1>12, <1>13, <1>19, LeadsMore, Zenon
<1>21. Leads(<<c1, c2, c3, c4>>, d, FALSE, e1, e4)
  BY <1>20, FourIs, Zenon
<1>22. Leads(TimerCalls, d, FALSE, a, e4)
  BY <1>9, <1>10, <1>21, LeadsJoin, Zenon DEF TimerCalls
<1> QED
  BY <1>8, <1>22, Zenon

\* The ring restarted by itself.
RestartCalls ==
  When(ctl.mode = "Active", LoadingSceneCalls) \o << <<"sync", 0>>, <<"window", 0>>, <<"overlay", 0>> >>

LEMMA RestartLeads ==
    ASSUME TypeOK, Covered, NEW a \in View, a.held = ctl.held, ctl.mode = "Active" \/ ctl.held, NEW d
    PROVE  \E b \in View :
             /\ Leads(RestartCalls, d, FALSE, a, b)
             /\ b.mode = "Filling" /\ b.video = a.video /\ b.audio = a.audio /\ b.held /\ b.delayed = a.delayed
             /\ b.fresh
<1>1. PICK e1 : e1 = [a EXCEPT !.held = TRUE]
  OBVIOUS
<1>2. PICK e2 : e2 = [e1 EXCEPT !.synced = e1.delayed]
  OBVIOUS
<1>3. PICK e3 : e3 = [e2 EXCEPT !.mode = "Filling", !.armed = TRUE, !.fresh = TRUE]
  OBVIOUS
<1>4. PICK e4 : e4 = [e3 EXCEPT !.visible = (e3.mode = "Active"), !.told = e3.synced]
  OBVIOUS
<1>5. e1 \in View /\ e1.held = TRUE /\ e1.delayed = a.delayed /\ e1.video = a.video /\ e1.audio = a.audio
  BY <1>1 DEF View
<1>6. /\ e2 \in View /\ e2.held = TRUE /\ e2.delayed = a.delayed /\ e2.video = a.video /\ e2.audio = a.audio
  BY <1>2, <1>5 DEF View
<1>7. /\ e3 \in View /\ e3.held = TRUE /\ e3.delayed = a.delayed /\ e3.video = a.video /\ e3.audio = a.audio
      /\ e3.mode = "Filling" /\ e3.fresh = TRUE
  BY <1>3, <1>6 DEF View, Modes
<1>8. /\ e4 \in View /\ e4.held /\ e4.delayed = a.delayed /\ e4.video = a.video /\ e4.audio = a.audio
      /\ e4.mode = "Filling" /\ e4.fresh
  BY <1>4, <1>7 DEF View
<1>9. Leads(When(ctl.mode = "Active", LoadingSceneCalls), d, FALSE, a, e1)
  <2>1. CASE ctl.mode = "Active"
    <3>1. (ctl.mode = "Active") = TRUE
      BY <2>1
    <3>2. When(ctl.mode = "Active", LoadingSceneCalls) = LoadingSceneCalls
      BY <3>1, WhenIs, Zenon
    <3> QED
      BY <1>1, <3>2, LoadingLeads, Zenon
  <2>2. CASE ctl.mode # "Active"
    <3>1. (ctl.mode = "Active") = FALSE
      BY <2>2
    <3>2. When(ctl.mode = "Active", LoadingSceneCalls) = << >>
      BY <3>1, WhenIs, Zenon
    <3>3. e1 = a
      BY <1>1, <2>2 DEF View, TypeOK
    <3> QED
      BY <3>2, <3>3, LeadsNothing, Zenon
  <2> QED
    BY <2>1, <2>2
<1>10. PICK c1, c2, c3 : c1 = <<"sync", 0>> /\ c2 = <<"window", 0>> /\ c3 = <<"overlay", 0>>
  OBVIOUS
<1>11. /\ c1[1] # "delay" /\ c2[1] # "delay" /\ c3[1] # "delay"
       /\ c1[1] \notin Empties /\ c2[1] \notin Empties /\ c3[1] \notin Empties
  BY <1>10 DEF Empties
<1>12. c1 \in Calls /\ c2 \in Calls /\ c3 \in Calls
  BY <1>10, CallsAre, Zenon
<1>13. Effect(c1, e1) = e2
  BY <1>2, <1>5, <1>10, EffectsAre, Zenon
<1>14. Effect(c2, e2) = e3
  BY <1>3, <1>6, <1>10, EffectsAre, Zenon
<1>15. Effect(c3, e3) = e4
  BY <1>4, <1>7, <1>10, EffectsAre, Zenon
<1>16. Leads(<<c3>>, d, FALSE, e3, e4)
  BY <1>11, <1>12, <1>15, LeadsOne, Zenon
<1>17. Leads(<<c2>> \o <<c3>>, d, FALSE, e2, e4)
  BY <1>11, <1>12, <1>14, <1>16, LeadsMore, Zenon
<1>18. Leads(<<c1>> \o (<<c2>> \o <<c3>>), d, FALSE, e1, e4)
  BY <1>11, <1>12, <1>13, <1>17, LeadsMore, Zenon
<1>19. Leads(<<c1, c2, c3>>, d, FALSE, e1, e4)
  BY <1>18, ThreeIs, Zenon
<1>20. Leads(RestartCalls, d, FALSE, a, e4)
  BY <1>9, <1>10, <1>19, LeadsJoin, Zenon DEF RestartCalls
<1> QED
  BY <1>8, <1>20, Zenon

\* Another collection: what it was saved with is switched off, but in Error.
LoadCalls(saved) == << <<"load", saved>> >>
Saved == [on : BOOLEAN, program : Scenes]

LEMMA LoadLeads ==
    ASSUME NEW saved \in Saved, NEW a \in View, NEW d
    PROVE  \E b \in View :
             /\ Leads(LoadCalls(saved), d, TRUE, a, b)
             /\ b.mode = a.mode /\ b.held = a.held /\ b.visible = a.visible /\ b.armed = a.armed
<1>1. PICK on \in BOOLEAN, scene \in Scenes : saved = [on |-> on, program |-> scene]
  BY DEF Saved
<1>2. saved.on = on
  BY <1>1
<1>3. PICK e : e = [a EXCEPT !.video = saved.on, !.audio = saved.on]
  OBVIOUS
<1>4. e \in View /\ e.mode = a.mode /\ e.held = a.held /\ e.visible = a.visible /\ e.armed = a.armed
  BY <1>2, <1>3 DEF View
<1>5. PICK c : c = <<"load", saved>>
  OBVIOUS
<1>6. c[1] # "delay"
  BY <1>5
<1>10. c \in Calls
  BY <1>1, <1>5, CallsAre, Zenon
<1>11. Effect(c, a) = e
  BY <1>3, <1>5, EffectsAre, Zenon
<1>7. c \in Calls /\ Effect(c, a) = e
  BY <1>10, <1>11
<1>8. Leads(<<c>>, d, TRUE, a, Effect(c, a))
  BY <1>6, <1>7, LeadsOne, Zenon
<1>9. Leads(LoadCalls(saved), d, TRUE, a, e)
  BY <1>5, <1>7, <1>8, Zenon DEF LoadCalls
<1> QED
  BY <1>4, <1>9, Zenon

LEMMA CleanLeads ==
    ASSUME NEW a \in View, NEW d
    PROVE  \E b \in View :
             /\ Leads(CleanCalls, d, TRUE, a, b)
             /\ b.mode = a.mode /\ b.held = a.held /\ b.visible = a.visible /\ b.armed = a.armed
             /\ ctl.mode # "Error" => ~b.video /\ ~b.audio
<1>1. CASE ctl.mode # "Error"
  <2>1. PICK e : e = [a EXCEPT !.video = FALSE, !.audio = FALSE]
    OBVIOUS
  <2>2. /\ e \in View /\ e.mode = a.mode /\ e.held = a.held /\ e.visible = a.visible /\ e.armed = a.armed
        /\ ~e.video /\ ~e.audio
    BY <2>1 DEF View
  <2>3. Leads(<< <<"clean", 0>> >>, d, TRUE, a, e)
    <3>1. PICK c : c = <<"clean", 0>>
      OBVIOUS
    <3>2. c[1] # "delay" /\ (c[1] \in Empties => TRUE)
      BY <3>1 DEF Empties
    <3>3. c \in Calls /\ Effect(c, a) = e
      BY <2>1, <3>1, CallsAre, EffectsAre, Zenon
    <3>4. Leads(<<c>>, d, TRUE, a, Effect(c, a))
      BY <3>2, <3>3, LeadsOne, Zenon
    <3> QED
      BY <3>1, <3>3, <3>4, Zenon
  <2>4. (ctl.mode # "Error") = TRUE
    BY <1>1
  <2>5. CleanCalls = << <<"clean", 0>> >>
    BY <2>4, WhenIs, Zenon DEF CleanCalls
  <2> QED
    BY <2>2, <2>3, <2>5, Zenon
<1>2. CASE ctl.mode = "Error"
  <2>1. (ctl.mode # "Error") = FALSE
    BY <1>2
  <2>2. CleanCalls = << >>
    BY <2>1, WhenIs, Zenon DEF CleanCalls
  <2>3. Leads(CleanCalls, d, TRUE, a, a)
    BY <2>2, LeadsNothing, Zenon
  <2> QED
    BY <1>2, <2>3, Zenon
<1> QED
  BY <1>1, <1>2

LEMMA BusyIs == Busy = TRUE \/ Busy = FALSE
BY DEF Busy

\* Stopped when it was busy.
LEMMA HaltLeads ==
    ASSUME TypeOK, NEW a \in View, a.held = ctl.held, a.mode = ctl.mode, NEW restore \in BOOLEAN, NEW d,
           ~BusyIn(a) => ~a.held /\ ~a.visible /\ ~a.armed
    PROVE  \E b \in View :
             /\ Leads(When(Busy, StopCalls(restore)), d, TRUE, a, b)
             /\ ~BusyIn(b) /\ ~b.held /\ ~b.visible /\ ~b.armed
             /\ b.mode = "Error" <=> ctl.mode = "Error"
<1>1. CASE Busy
  <2>1. Busy = TRUE
    BY <1>1, BusyIs, Zenon
  <2>2. When(Busy, StopCalls(restore)) = StopCalls(restore)
    BY <2>1, WhenIs, Zenon
  <2>3. PICK b \in View :
          /\ Leads(StopCalls(restore), d, TRUE, a, b)
          /\ b.mode = "Inactive" /\ ~b.video /\ ~b.audio /\ ~b.held /\ ~b.visible /\ ~b.armed
    BY StopLeads, Zenon
  <2>4. ~BusyIn(b) /\ b.mode # "Error" /\ ctl.mode # "Error"
    BY <1>1, <2>3 DEF BusyIn, Busy
  <2> QED
    BY <2>2, <2>3, <2>4, Zenon
<1>2. CASE ~Busy
  <2>1. Busy = FALSE
    BY <1>2, BusyIs, Zenon
  <2>2. When(Busy, StopCalls(restore)) = << >>
    BY <2>1, WhenIs, Zenon
  <2>3. ~BusyIn(a)
    BY <1>2 DEF Busy, BusyIn
  <2>4. Leads(When(Busy, StopCalls(restore)), d, TRUE, a, a)
    BY <2>2, LeadsNothing, Zenon
  <2> QED
    BY <2>3, <2>4, Zenon
<1> QED
  BY <1>1, <1>2

-----------------------------------------------------------------------------
(* The invariant: what holds now, followed to the end of the running       *)
(* handler, leaves everything as the mode says.                            *)

\* Delay, quality and OBS's settings only change where they restart the buffer
\* with the controller's knowledge.
Steady == "Filling" \notin ChangeIn /\ \A c, d \in Canvases : c = d

Settled(a, b) ==
  /\ Sound(a) /\ Leads(script, ctl.delay, Calm(b), a, b) /\ ModeEnd(b)
  /\ Steady => SyncEnd(b)

BufferInvariant ==
  /\ TypeOK
  /\ timer.armed => timer.generation = ctl.generation
  /\ \E a, b \in View : Settled(a, b)

\* Between two handlers there is nothing left to follow.
LEMMA IdleIs ==
    ASSUME Idle, NEW a, NEW b, Settled(a, b)
    PROVE  a = b
<1>1. Runs(script, a, b) /\ script = << >>
  BY Zenon DEF Settled, Leads, Idle
<1> QED
  BY <1>1, RunsNothing, Zenon

\* Nothing a handler relies on but the view, the ring and the queue.
LEMMA SettledAgain ==
    ASSUME NEW a \in View, NEW b \in View, NEW calm,
           TypeOK', (timer.armed => timer.generation = ctl.generation)',
           Sound(a)', Leads(script, ctl.delay, calm, a, b)', calm => Calm(b), ModeEnd(b), Steady => SyncEnd(b)'
    PROVE  BufferInvariant'
<1>1. PICK s, d : s = script' /\ d = ctl'.delay
  OBVIOUS
<1>2. Leads(s, d, calm, a, b)
  BY <1>1, Zenon
<1>3. Leads(s, d, Calm(b), a, b)
  BY <1>2, Zenon DEF Leads
<1>4. Leads(script, ctl.delay, Calm(b), a, b)'
  BY <1>1, <1>3, Zenon
<1>5. ModeEnd(b)' /\ (Steady => SyncEnd(b))'
  BY DEF ModeEnd, Steady
<1>6. Settled(a, b)'
  BY <1>4, <1>5, Zenon DEF Settled
<1> QED
  BY <1>6, Zenon DEF BufferInvariant

\* A call.
LEMMA CallKeeps == BufferInvariant /\ Controller => BufferInvariant'
<1> SUFFICES ASSUME BufferInvariant, Controller PROVE BufferInvariant'
  OBVIOUS
<1>1. PICK a \in View, b \in View : Settled(a, b)
  BY DEF BufferInvariant
<1>2. PICK e : e = Effect(Head(script), a)
  OBVIOUS
<1>3. TypeOK /\ Sound(a) /\ ModeEnd(b) /\ (Steady => SyncEnd(b)) /\ Leads(script, ctl.delay, Calm(b), a, b)
  BY <1>1, Zenon DEF BufferInvariant, Settled
<1>4. Scripted
  BY <1>3, Zenon DEF Scripted, Leads, BufferInvariant
<1>5. script # << >> /\ script' = Tail(script) /\ Made(a, e)
  BY <1>2, <1>3, <1>4, CallMade, Zenon
<1>6. /\ TypeOK' /\ e \in View /\ Sound(e)' /\ (timer.armed => timer.generation = ctl.generation)'
      /\ ctl'.delay = ctl.delay /\ inbox' = inbox
      /\ Head(script)[1] \notin Empties => ring' = ring
  BY <1>5, Zenon DEF Made
<1>7. /\ Head(script) \in Calls /\ Tail(script) \in Seq(Calls)
      /\ \A i \in DOMAIN Tail(script) : i + 1 \in DOMAIN script /\ Tail(script)[i] = script[i + 1]
      /\ 1 \in DOMAIN script /\ Head(script) = script[1]
  BY <1>4, <1>5, HeadIs, Zenon
<1>8. Head(script)[1] \in Empties => Calm(b)
  BY <1>3, <1>7, Zenon DEF Leads
<1>9. Leads(Tail(script), ctl.delay, Calm(b), e, b)
  <2>1. PICK C : C = Calls
    OBVIOUS
  <2>2. script \in Seq(C) /\ Runs(script, a, b)
    BY <1>3, <2>1, Zenon DEF Leads
  <2>3. Runs(Tail(script), e, b)
    BY <1>2, <1>5, <2>2, RunsOn, Zenon
  <2>4. \A i \in DOMAIN Tail(script) : /\ Tail(script)[i][1] = "delay" => Tail(script)[i][2] = ctl.delay
                                       /\ Tail(script)[i][1] \in Empties => Calm(b)
    BY <1>3, <1>7, Zenon DEF Leads
  <2> QED
    BY <1>7, <2>3, <2>4, Zenon DEF Leads
<1>10. PICK calm : calm = Calm(b)
  OBVIOUS
<1>12. Leads(script, ctl.delay, calm, e, b)'
  BY <1>5, <1>6, <1>9, <1>10, Zenon
<1>11. Steady => SyncEnd(b)'
  <2>1. CASE Head(script)[1] \in Empties
    <3>1. Calm(b)
      BY <1>8, <2>1
    <3> QED
      BY <1>3, <1>6, <3>1 DEF SyncEnd, Calm, BusyIn, Announced
  <2>2. CASE Head(script)[1] \notin Empties
    BY <1>3, <1>6, <2>2 DEF SyncEnd, BusyIn, Announced
  <2> QED
    BY <2>1, <2>2
<1>13. (calm => Calm(b)) /\ ModeEnd(b) /\ e \in View
  BY <1>3, <1>6, <1>10, Zenon
<1>14. TypeOK' /\ (timer.armed => timer.generation = ctl.generation)' /\ Sound(e)'
  BY <1>6, Zenon
<1> QED
  BY <1>11, <1>12, <1>13, <1>14, SettledAgain

\* A handler starts when the last one has ended.
LEMMA IdleHolds ==
    ASSUME BufferInvariant, Idle
    PROVE  \E a \in View : /\ TypeOK /\ (timer.armed => timer.generation = ctl.generation)
                           /\ Sound(a) /\ ModeEnd(a) /\ (Steady => SyncEnd(a)) /\ script = << >>
<1>1. PICK a \in View, b \in View : Settled(a, b)
  BY DEF BufferInvariant
<1>2. a = b
  BY <1>1, IdleIs, Zenon
<1>3. Sound(a) /\ ModeEnd(b) /\ (Steady => SyncEnd(b))
  BY <1>1, Zenon DEF Settled
<1> QED
  BY <1>2, <1>3, Zenon DEF BufferInvariant, Idle

\* What the view is about stays.
LEMMA SoundStays ==
    ASSUME NEW a \in View, Sound(a), UNCHANGED <<ctl, timer, overlay, video, audio, canvas>>
    PROVE  Sound(a)'
BY DEF Sound, Delayed, Synced, Told, Fresh, PlannedEffective, FitFor

\* Switching on.
LEMMA EnableKeeps ==
    ASSUME BufferInvariant, Covered, Enable
    PROVE  BufferInvariant'
<1>1. Idle
  BY Zenon DEF Enable, Running
<1>2. PICK a \in View : /\ TypeOK /\ (timer.armed => timer.generation = ctl.generation)
                        /\ Sound(a) /\ ModeEnd(a) /\ (Steady => SyncEnd(a)) /\ script = << >>
  BY <1>1, IdleHolds, Zenon
<1>3. /\ a.mode = ctl.mode /\ a.held = ctl.held
      /\ BusyIn(a) <=> Busy
  BY <1>2 DEF Sound, BusyIn, Busy
<1>4. script' = EnableCalls /\ UNCHANGED <<ctl, timer, program, overlay, video, audio, ring, inbox, canvas, upsets>>
  BY Zenon DEF Enable, Running, filters, graphics
<1>5. TypeOK' /\ (timer.armed => timer.generation = ctl.generation)'
  BY <1>2, <1>4 DEF TypeOK
<1>6. Sound(a)'
  BY <1>2, <1>4, SoundStays, Zenon
<1>7. PICK b \in View :
         /\ Leads(EnableCalls, ctl.delay, TRUE, a, b)
         /\ b.mode = "Filling" /\ b.video /\ b.audio /\ b.held /\ b.delayed /\ b.fresh
  BY <1>2, EnableLeads, Zenon
<1>8. ModeEnd(b) /\ Calm(b)
  BY <1>7 DEF ModeEnd, Calm, BusyIn, Modes
<1>9. SyncEnd(b)'
  BY <1>7 DEF SyncEnd, BusyIn
<1>10. Leads(script, ctl.delay, TRUE, a, b)'
  BY <1>4, <1>7, Zenon
<1> QED
  BY <1>5, <1>6, <1>8, <1>9, <1>10, SettledAgain

\* Switching off.
LEMMA DisableKeeps ==
    ASSUME BufferInvariant, Covered, Disable
    PROVE  BufferInvariant'
<1>1. Idle
  BY Zenon DEF Disable, Running
<1>2. PICK a \in View : /\ TypeOK /\ (timer.armed => timer.generation = ctl.generation)
                        /\ Sound(a) /\ ModeEnd(a) /\ (Steady => SyncEnd(a)) /\ script = << >>
  BY <1>1, IdleHolds, Zenon
<1>3. /\ a.mode = ctl.mode /\ a.held = ctl.held
      /\ BusyIn(a) <=> Busy
  BY <1>2 DEF Sound, BusyIn, Busy
<1>4. script' = StopCalls(TRUE) /\ UNCHANGED <<ctl, timer, program, overlay, video, audio, ring, inbox, canvas, upsets>>
  BY Zenon DEF Disable, Running, filters, graphics
<1>5. TypeOK' /\ (timer.armed => timer.generation = ctl.generation)'
  BY <1>2, <1>4 DEF TypeOK
<1>6. Sound(a)'
  BY <1>2, <1>4, SoundStays, Zenon
<1>7. PICK b \in View :
         /\ Leads(StopCalls(TRUE), ctl.delay, TRUE, a, b)
         /\ b.mode = "Inactive" /\ ~b.video /\ ~b.audio /\ ~b.held /\ ~b.visible /\ ~b.armed
  BY <1>2, <1>3, StopLeads, Zenon
<1>8. ModeEnd(b) /\ Calm(b)
  BY <1>7 DEF ModeEnd, Calm, BusyIn, Modes
<1>9. SyncEnd(b)'
  BY <1>7 DEF SyncEnd, BusyIn
<1>10. Leads(script, ctl.delay, TRUE, a, b)'
  BY <1>4, <1>7, Zenon
<1> QED
  BY <1>5, <1>6, <1>8, <1>9, <1>10, SettledAgain

\* Switching on, refused.
LEMMA RefusalKeeps ==
    ASSUME BufferInvariant, Covered, EnableRefused
    PROVE  BufferInvariant'
<1>1. Idle
  BY Zenon DEF EnableRefused
<1>2. PICK a \in View : /\ TypeOK /\ (timer.armed => timer.generation = ctl.generation)
                        /\ Sound(a) /\ ModeEnd(a) /\ (Steady => SyncEnd(a)) /\ script = << >>
  BY <1>1, IdleHolds, Zenon
<1>3. /\ a.mode = ctl.mode /\ a.held = ctl.held
      /\ BusyIn(a) <=> Busy
  BY <1>2 DEF Sound, BusyIn, Busy
<1>4. PICK next, count : next = [ctl EXCEPT !.mode = "Error"] /\ count = Countdown(next)
  OBVIOUS
<1>5. /\ ctl' = next /\ timer' = count
      /\ UNCHANGED <<program, overlay, video, audio, ring, inbox, canvas, script, upsets>>
  BY <1>4, Zenon DEF EnableRefused, filters, graphics
<1>6. next \in CtlType /\ next.mode = "Error" /\ next.delay = ctl.delay /\ next.held = ctl.held /\ next.effective = ctl.effective
  BY <1>2, <1>4 DEF TypeOK, CtlType, Modes
<1>7. count \in TimerType /\ ~count.armed /\ count.left = timer.left
  BY <1>2, <1>4, <1>6, CountdownIs, Zenon
<1>8. TypeOK' /\ (timer.armed => timer.generation = ctl.generation)'
  BY <1>2, <1>5, <1>6, <1>7 DEF TypeOK, CtlType, TimerType
<1>9. PICK e : e = [a EXCEPT !.mode = "Error", !.armed = FALSE]
  OBVIOUS
<1>10. /\ e \in View /\ e.mode = "Error" /\ ~e.armed /\ e.video = a.video /\ e.audio = a.audio /\ e.held = a.held
       /\ e.visible = a.visible /\ e.delayed = a.delayed /\ e.synced = a.synced /\ e.told = a.told /\ e.fresh = a.fresh
  BY <1>9 DEF View, Modes
<1>11. count.armed = FALSE /\ e.armed = FALSE
  BY <1>7, <1>10 DEF TimerType, View
<1>12. Sound(e)'
  <2>1. /\ e.mode = ctl'.mode /\ e.video = video'.on /\ e.audio = audio'.on /\ e.held = ctl'.held
        /\ e.visible = overlay'.visible /\ e.armed = timer'.armed
    BY <1>2, <1>5, <1>6, <1>10, <1>11 DEF Sound
  <2>2. (e.delayed => Delayed') /\ (e.fresh => Fresh')
    BY <1>2, <1>5, <1>6, <1>7, <1>10 DEF Sound, Delayed, Fresh
  <2>3. (e.synced => Synced') /\ (e.told => Told')
    BY <1>2, <1>5, <1>6, <1>10 DEF Sound, Synced, Told, PlannedEffective, FitFor
  <2> QED
    BY <2>1, <2>2, <2>3 DEF Sound
<1>13. ~Busy
  BY DEF EnableRefused
<1>14. ModeEnd(e) /\ (Steady => SyncEnd(e)')
  BY <1>2, <1>3, <1>10, <1>13 DEF ModeEnd, SyncEnd, BusyIn, Modes
<1>15. Leads(script, ctl.delay, FALSE, e, e)'
  BY <1>2, <1>5, LeadsNothing, Zenon
<1> QED
  BY <1>8, <1>10, <1>12, <1>14, <1>15, SettledAgain

\* Another delay.
LEMMA DelayKeeps ==
    ASSUME BufferInvariant, Covered, NEW value \in Delays, SetDelaySeconds(value)
    PROVE  BufferInvariant'
<1>1. Idle
  BY Zenon DEF SetDelaySeconds, Running
<1>2. PICK a \in View : /\ TypeOK /\ (timer.armed => timer.generation = ctl.generation)
                        /\ Sound(a) /\ ModeEnd(a) /\ (Steady => SyncEnd(a)) /\ script = << >>
  BY <1>1, IdleHolds, Zenon
<1>3. /\ a.mode = ctl.mode /\ a.held = ctl.held
      /\ BusyIn(a) <=> Busy
  BY <1>2 DEF Sound, BusyIn, Busy
<1>4. PICK refill, push : refill = ForeseesRestart(value, ctl.height) /\ push = <<"delay", value>>
  OBVIOUS
<1>5. /\ ctl.mode \in ChangeIn
      /\ ctl' = [ctl EXCEPT !.delay = value]
      /\ script' = When(ctl.mode = "Active", ChangeCalls(refill, push))
      /\ UNCHANGED <<timer, program, overlay, video, audio, ring, inbox, canvas, upsets>>
  BY <1>4, Zenon DEF SetDelaySeconds, Running, filters, graphics
<1>6. TypeOK' /\ (timer.armed => timer.generation = ctl.generation)'
  BY <1>2, <1>5 DEF TypeOK
<1>7. PICK e : e = [a EXCEPT !.delayed = FALSE, !.synced = FALSE]
  OBVIOUS
<1>8. /\ e \in View /\ e.mode = a.mode /\ e.video = a.video /\ e.audio = a.audio /\ e.held = a.held
      /\ e.visible = a.visible /\ e.armed = a.armed /\ e.told = a.told /\ e.fresh = a.fresh
      /\ e.delayed = FALSE /\ e.synced = FALSE
  BY <1>7 DEF View
<1>9. Sound(e)'
  <2>1. /\ e.mode = ctl'.mode /\ e.video = video'.on /\ e.audio = audio'.on /\ e.held = ctl'.held
        /\ e.visible = overlay'.visible /\ e.armed = timer'.armed
    BY <1>2, <1>5, <1>8 DEF Sound, TypeOK
  <2>2. (e.delayed => Delayed') /\ (e.fresh => Fresh')
    BY <1>2, <1>5, <1>8 DEF Sound, Delayed, Fresh, TypeOK
  <2>3. (e.synced => Synced') /\ (e.told => Told')
    BY <1>2, <1>5, <1>8 DEF Sound, Synced, Told, PlannedEffective, FitFor, TypeOK
  <2> QED
    BY <2>1, <2>2, <2>3 DEF Sound
<1>10. CASE ctl.mode = "Active"
  <2>1. (ctl.mode = "Active") = TRUE
    BY <1>10
  <2>2. script' = ChangeCalls(refill, push)
    BY <1>5, <2>1, WhenIs, Zenon
  <2>3. refill \in BOOLEAN
    BY <1>4 DEF ForeseesRestart
  <2>4. push \in Calls /\ push[1] = "delay" /\ push[2] = value
    BY <1>4, CallsAre
  <2>5. e.mode = "Active" /\ e.held = ctl.held
    BY <1>3, <1>8, <1>10
  <2>6. PICK d : d = ctl'.delay
    OBVIOUS
  <2>7. push[1] \in {"delay", "height"} /\ (push[1] = "delay" => push[2] = d)
    BY <1>2, <1>5, <2>4, <2>6 DEF TypeOK
  <2>8. PICK b \in View :
          /\ Leads(ChangeCalls(refill, push), d, FALSE, e, b)
          /\ b.video = e.video /\ b.audio = e.audio
          /\ e.delayed \/ push[1] = "delay" => b.delayed
          /\ refill => b.mode = "Filling" /\ b.held /\ b.fresh
          /\ ~refill => b.mode = "Active" /\ b.held = e.held /\ b.visible /\ (b.delayed => b.synced /\ b.told)
    BY <1>2, <1>8, <2>3, <2>4, <2>5, <2>7, ChangeLeads, Zenon
  <2>9. ModeEnd(b)
    BY <1>2, <1>3, <1>8, <1>10, <2>3, <2>8 DEF ModeEnd, BusyIn, Modes
  <2>10. Steady => SyncEnd(b)'
    BY <1>2, <1>3, <1>5, <1>8, <1>10, <2>3, <2>4, <2>8 DEF SyncEnd, BusyIn, Announced
  <2>11. Leads(script, ctl.delay, FALSE, e, b)'
    BY <2>2, <2>6, <2>8, Zenon
  <2> QED
    BY <1>6, <1>8, <1>9, <2>8, <2>9, <2>10, <2>11, SettledAgain
<1>11. CASE ctl.mode # "Active"
  <2>1. (ctl.mode = "Active") = FALSE
    BY <1>11
  <2>2. script' = << >>
    BY <1>5, <2>1, WhenIs, Zenon
  <2>3. ModeEnd(e)
    BY <1>2, <1>8 DEF ModeEnd, BusyIn
  <2>4. Steady => SyncEnd(e)'
    BY <1>2, <1>3, <1>5, <1>8, <1>11 DEF Steady, SyncEnd, BusyIn, Announced
  <2>5. Leads(script, ctl.delay, FALSE, e, e)'
    BY <2>2, LeadsNothing, Zenon
  <2> QED
    BY <1>6, <1>8, <1>9, <2>3, <2>4, <2>5, SettledAgain
<1> QED
  BY <1>10, <1>11

\* Another quality.
LEMMA HeightKeeps ==
    ASSUME BufferInvariant, Covered, NEW value \in Heights, SetMinResolutionHeight(value)
    PROVE  BufferInvariant'
<1>1. Idle
  BY Zenon DEF SetMinResolutionHeight, Running
<1>2. PICK a \in View : /\ TypeOK /\ (timer.armed => timer.generation = ctl.generation)
                        /\ Sound(a) /\ ModeEnd(a) /\ (Steady => SyncEnd(a)) /\ script = << >>
  BY <1>1, IdleHolds, Zenon
<1>3. /\ a.mode = ctl.mode /\ a.held = ctl.held
      /\ BusyIn(a) <=> Busy
  BY <1>2 DEF Sound, BusyIn, Busy
<1>4. PICK refill, push : refill = ForeseesRestart(ctl.delay, value) /\ push = <<"height", value>>
  OBVIOUS
<1>5. /\ ctl.mode \in ChangeIn
      /\ ctl' = [ctl EXCEPT !.height = value]
      /\ script' = When(ctl.mode = "Active", ChangeCalls(refill, push))
      /\ UNCHANGED <<timer, program, overlay, video, audio, ring, inbox, canvas, upsets>>
  BY <1>4, Zenon DEF SetMinResolutionHeight, Running, filters, graphics
<1>6. TypeOK' /\ (timer.armed => timer.generation = ctl.generation)'
  BY <1>2, <1>5 DEF TypeOK
<1>7. PICK e : e = a
  OBVIOUS
<1>8. /\ e \in View /\ e.mode = a.mode /\ e.video = a.video /\ e.audio = a.audio /\ e.held = a.held
      /\ e.visible = a.visible /\ e.armed = a.armed /\ e.told = a.told /\ e.fresh = a.fresh
      /\ e.delayed = a.delayed /\ e.synced = a.synced
  BY <1>7 DEF View
<1>9. Sound(e)'
  <2>1. /\ e.mode = ctl'.mode /\ e.video = video'.on /\ e.audio = audio'.on /\ e.held = ctl'.held
        /\ e.visible = overlay'.visible /\ e.armed = timer'.armed
    BY <1>2, <1>5, <1>8 DEF Sound, TypeOK
  <2>2. (e.delayed => Delayed') /\ (e.fresh => Fresh')
    BY <1>2, <1>5, <1>8 DEF Sound, Delayed, Fresh, TypeOK
  <2>3. (e.synced => Synced') /\ (e.told => Told')
    BY <1>2, <1>5, <1>8 DEF Sound, Synced, Told, PlannedEffective, FitFor, TypeOK
  <2> QED
    BY <2>1, <2>2, <2>3 DEF Sound
<1>10. CASE ctl.mode = "Active"
  <2>1. (ctl.mode = "Active") = TRUE
    BY <1>10
  <2>2. script' = ChangeCalls(refill, push)
    BY <1>5, <2>1, WhenIs, Zenon
  <2>3. refill \in BOOLEAN
    BY <1>4 DEF ForeseesRestart
  <2>4. push \in Calls /\ push[1] = "height" /\ push[2] = value
    BY <1>4, CallsAre
  <2>5. e.mode = "Active" /\ e.held = ctl.held
    BY <1>3, <1>8, <1>10
  <2>6. PICK d : d = ctl'.delay
    OBVIOUS
  <2>7. push[1] \in {"delay", "height"} /\ (push[1] = "delay" => push[2] = d)
    BY <1>2, <1>5, <2>4, <2>6 DEF TypeOK
  <2>8. PICK b \in View :
          /\ Leads(ChangeCalls(refill, push), d, FALSE, e, b)
          /\ b.video = e.video /\ b.audio = e.audio
          /\ e.delayed \/ push[1] = "delay" => b.delayed
          /\ refill => b.mode = "Filling" /\ b.held /\ b.fresh
          /\ ~refill => b.mode = "Active" /\ b.held = e.held /\ b.visible /\ (b.delayed => b.synced /\ b.told)
    BY <1>2, <1>8, <2>3, <2>4, <2>5, <2>7, ChangeLeads, Zenon
  <2>9. ModeEnd(b)
    BY <1>2, <1>3, <1>8, <1>10, <2>3, <2>8 DEF ModeEnd, BusyIn, Modes
  <2>10. Steady => SyncEnd(b)'
    BY <1>2, <1>3, <1>5, <1>8, <1>10, <2>3, <2>4, <2>8 DEF SyncEnd, BusyIn, Announced
  <2>11. Leads(script, ctl.delay, FALSE, e, b)'
    BY <2>2, <2>6, <2>8, Zenon
  <2> QED
    BY <1>6, <1>8, <1>9, <2>8, <2>9, <2>10, <2>11, SettledAgain
<1>11. CASE ctl.mode # "Active"
  <2>1. (ctl.mode = "Active") = FALSE
    BY <1>11
  <2>2. script' = << >>
    BY <1>5, <2>1, WhenIs, Zenon
  <2>3. ModeEnd(e)
    BY <1>2, <1>8 DEF ModeEnd, BusyIn
  <2>4. Steady => SyncEnd(e)'
    BY <1>2, <1>3, <1>5, <1>8, <1>11 DEF Steady, SyncEnd, BusyIn, Announced
  <2>5. Leads(script, ctl.delay, FALSE, e, e)'
    BY <2>2, LeadsNothing, Zenon
  <2> QED
    BY <1>6, <1>8, <1>9, <2>3, <2>4, <2>5, SettledAgain
<1> QED
  BY <1>10, <1>11

\* The countdown ends.
LEMMA TimerKeeps ==
    ASSUME BufferInvariant, Covered, OnFillTimerElapsed
    PROVE  BufferInvariant'
<1>1. Idle
  BY Zenon DEF OnFillTimerElapsed
<1>2. PICK a \in View : /\ TypeOK /\ (timer.armed => timer.generation = ctl.generation)
                        /\ Sound(a) /\ ModeEnd(a) /\ (Steady => SyncEnd(a)) /\ script = << >>
  BY <1>1, IdleHolds, Zenon
<1>3. /\ a.mode = ctl.mode /\ a.held = ctl.held
      /\ BusyIn(a) <=> Busy
  BY <1>2 DEF Sound, BusyIn, Busy
<1>4. /\ timer.armed /\ timer.left = 0
      /\ timer' = [timer EXCEPT !.armed = FALSE]
      /\ script' = When(ctl.mode = "Filling", TimerCalls)
      /\ UNCHANGED <<ctl, program, overlay, video, audio, ring, inbox, canvas, upsets>>
  BY Zenon DEF OnFillTimerElapsed, TimerCalls, filters, graphics
<1>5. TypeOK' /\ (timer.armed => timer.generation = ctl.generation)'
  BY <1>2, <1>4 DEF TypeOK
<1>6. PICK e : e = [a EXCEPT !.armed = FALSE]
  OBVIOUS
<1>7. /\ e \in View /\ e.mode = a.mode /\ e.video = a.video /\ e.audio = a.audio /\ e.held = a.held
      /\ e.visible = a.visible /\ e.armed = FALSE /\ e.told = a.told /\ e.fresh = a.fresh
      /\ e.delayed = a.delayed /\ e.synced = a.synced
  BY <1>6 DEF View
<1>8. Sound(e)'
  <2>1. /\ e.mode = ctl'.mode /\ e.video = video'.on /\ e.audio = audio'.on /\ e.held = ctl'.held
        /\ e.visible = overlay'.visible /\ e.armed = timer'.armed
    BY <1>2, <1>4, <1>7 DEF Sound, TypeOK
  <2>2. (e.delayed => Delayed') /\ (e.fresh => Fresh')
    BY <1>2, <1>4, <1>7 DEF Sound, Delayed, Fresh, TypeOK
  <2>3. (e.synced => Synced') /\ (e.told => Told')
    BY <1>2, <1>4, <1>7 DEF Sound, Synced, Told, PlannedEffective, FitFor, TypeOK
  <2> QED
    BY <2>1, <2>2, <2>3 DEF Sound
<1>9. CASE ctl.mode = "Filling"
  <2>1. (ctl.mode = "Filling") = TRUE
    BY <1>9
  <2>2. script' = TimerCalls
    BY <1>4, <2>1, WhenIs, Zenon
  <2>3. PICK d : d = ctl'.delay
    OBVIOUS
  <2>4. PICK b \in View :
          /\ Leads(TimerCalls, d, FALSE, e, b)
          /\ b.mode = "Active" /\ b.video = e.video /\ b.audio = e.audio /\ ~b.held /\ b.delayed = e.delayed
          /\ b.visible /\ b.synced = e.delayed /\ b.told = e.delayed
    BY <1>2, <1>3, <1>7, TimerLeads
  <2>5. ModeEnd(b)
    BY <1>2, <1>3, <1>7, <1>9, <2>4 DEF ModeEnd, BusyIn, Modes
  <2>9. a.fresh => timer.left > 0
    BY <1>2 DEF Sound, Fresh
  <2>10. timer.left = 0
    BY <1>4, Zenon
  <2>6. ~a.fresh
    BY <2>9, <2>10
  <2>7. Steady => SyncEnd(b)'
    BY <1>2, <1>3, <1>4, <1>7, <1>9, <2>4, <2>6 DEF SyncEnd, BusyIn, Announced
  <2>8. Leads(script, ctl.delay, FALSE, e, b)'
    BY <2>2, <2>3, <2>4, Zenon
  <2> QED
    BY <1>5, <1>7, <1>8, <2>4, <2>5, <2>7, <2>8, SettledAgain
<1>10. CASE ctl.mode # "Filling"
  <2>1. (ctl.mode = "Filling") = FALSE
    BY <1>10
  <2>2. script' = << >>
    BY <1>4, <2>1, WhenIs, Zenon
  <2>3. ModeEnd(e)
    BY <1>2, <1>7 DEF ModeEnd, BusyIn
  <2>4. Steady => SyncEnd(e)'
    BY <1>2, <1>4, <1>7 DEF SyncEnd, BusyIn, Announced
  <2>5. Leads(script, ctl.delay, FALSE, e, e)'
    BY <2>2, LeadsNothing, Zenon
  <2> QED
    BY <1>5, <1>7, <1>8, <2>3, <2>4, <2>5, SettledAgain
<1> QED
  BY <1>9, <1>10

\* The ring restarted.
LEMMA RestartKeeps ==
    ASSUME BufferInvariant, Covered, OnBufferRestarted
    PROVE  BufferInvariant'
<1>1. Idle
  BY Zenon DEF OnBufferRestarted
<1>2. PICK a \in View : /\ TypeOK /\ (timer.armed => timer.generation = ctl.generation)
                        /\ Sound(a) /\ ModeEnd(a) /\ (Steady => SyncEnd(a)) /\ script = << >>
  BY <1>1, IdleHolds, Zenon
<1>3. /\ a.mode = ctl.mode /\ a.held = ctl.held
      /\ BusyIn(a) <=> Busy
  BY <1>2 DEF Sound, BusyIn, Busy
<1>4. /\ inbox > 0 /\ inbox' = inbox - 1
      /\ script' = When(Busy, RestartCalls)
      /\ UNCHANGED <<ctl, timer, program, overlay, video, audio, ring, canvas, upsets>>
  BY Zenon DEF OnBufferRestarted, RestartCalls, filters
<1>9. inbox' \in Nat
  <2>1. inbox \in Nat
    BY <1>2 DEF TypeOK
  <2>2. inbox > 0 /\ inbox' = inbox - 1
    BY <1>4, Zenon
  <2> QED
    BY <2>1, <2>2
<1>5. TypeOK' /\ (timer.armed => timer.generation = ctl.generation)'
  BY <1>2, <1>4, <1>9 DEF TypeOK
<1>6. Sound(a)'
  BY <1>2, <1>4, SoundStays, Zenon
<1>7. CASE Busy
  <2>1. Busy = TRUE
    BY <1>7, BusyIs, Zenon
  <2>2. script' = RestartCalls
    BY <1>4, <2>1, WhenIs, Zenon
  <2>3. PICK d : d = ctl'.delay
    OBVIOUS
  <2>4. ctl.mode = "Active" \/ ctl.held
    BY <1>2, <1>3, <1>7 DEF ModeEnd, Busy
  <2>5. PICK b \in View :
          /\ Leads(RestartCalls, d, FALSE, a, b)
          /\ b.mode = "Filling" /\ b.video = a.video /\ b.audio = a.audio /\ b.held /\ b.delayed = a.delayed
          /\ b.fresh
    BY <1>2, <1>3, <2>4, RestartLeads, Zenon
  <2>6. ModeEnd(b)
    BY <1>2, <1>3, <1>7, <2>5 DEF ModeEnd, BusyIn, Modes
  <2>7. Steady => SyncEnd(b)'
    BY <1>2, <1>3, <1>7, <2>5 DEF SyncEnd, BusyIn
  <2>8. Leads(script, ctl.delay, FALSE, a, b)'
    BY <2>2, <2>3, <2>5, Zenon
  <2> QED
    BY <1>5, <1>6, <2>5, <2>6, <2>7, <2>8, SettledAgain
<1>8. CASE ~Busy
  <2>1. Busy = FALSE
    BY <1>8, BusyIs, Zenon
  <2>2. script' = << >>
    BY <1>4, <2>1, WhenIs, Zenon
  <2>3. Steady => SyncEnd(a)'
    BY <1>3, <1>8 DEF SyncEnd, BusyIn, Busy
  <2>4. Leads(script, ctl.delay, FALSE, a, a)'
    BY <2>2, LeadsNothing, Zenon
  <2> QED
    BY <1>2, <1>5, <1>6, <2>3, <2>4, SettledAgain
<1> QED
  BY <1>7, <1>8

\* Another collection.
LEMMA SwitchKeeps ==
    ASSUME BufferInvariant, Covered, NEW on \in BOOLEAN, NEW scene \in Scenes, SwitchCollection(on, scene)
    PROVE  BufferInvariant'
<1>1. Idle
  BY Zenon DEF SwitchCollection
<1>2. PICK a \in View : /\ TypeOK /\ (timer.armed => timer.generation = ctl.generation)
                        /\ Sound(a) /\ ModeEnd(a) /\ (Steady => SyncEnd(a)) /\ script = << >>
  BY <1>1, IdleHolds, Zenon
<1>3. /\ a.mode = ctl.mode /\ a.held = ctl.held
      /\ BusyIn(a) <=> Busy
  BY <1>2 DEF Sound, BusyIn, Busy
<1>4. /\ script' = When(Busy, StopCalls(TRUE)) \o LoadCalls([on |-> on, program |-> scene]) \o CleanCalls
      /\ UNCHANGED <<ctl, timer, program, overlay, video, audio, ring, inbox, canvas>>
      /\ upsets < MaxUpsets /\ upsets' = upsets + 1
  BY Zenon DEF SwitchCollection, LoadCalls, filters, graphics
<1>5. upsets' \in 0..MaxUpsets
  <2>1. upsets \in 0..MaxUpsets
    BY <1>2 DEF TypeOK
  <2> QED
    BY <1>4, <2>1, BoundAssumption
<1>6. TypeOK' /\ (timer.armed => timer.generation = ctl.generation)'
  BY <1>2, <1>4, <1>5 DEF TypeOK
<1>7. Sound(a)'
  BY <1>2, <1>4, SoundStays, Zenon
<1>8. ~BusyIn(a) => ~a.held /\ ~a.visible /\ ~a.armed
  BY <1>2 DEF ModeEnd, BusyIn
<1>9. PICK d : d = ctl.delay
  OBVIOUS
<1>10. PICK e1 \in View :
          /\ Leads(When(Busy, StopCalls(TRUE)), d, TRUE, a, e1)
          /\ ~BusyIn(e1) /\ ~e1.held /\ ~e1.visible /\ ~e1.armed
          /\ e1.mode = "Error" <=> ctl.mode = "Error"
  BY <1>2, <1>3, <1>8, HaltLeads
<1>11. PICK e2 \in View :
          /\ Leads(LoadCalls([on |-> on, program |-> scene]), d, TRUE, e1, e2)
          /\ e2.mode = e1.mode /\ e2.held = e1.held /\ e2.visible = e1.visible /\ e2.armed = e1.armed
  <2>1. [on |-> on, program |-> scene] \in Saved
    BY DEF Saved
  <2> QED
    BY <2>1, LoadLeads, Zenon
<1>12. PICK e3 \in View :
          /\ Leads(CleanCalls, d, TRUE, e2, e3)
          /\ e3.mode = e2.mode /\ e3.held = e2.held /\ e3.visible = e2.visible /\ e3.armed = e2.armed
          /\ ctl.mode # "Error" => ~e3.video /\ ~e3.audio
  BY CleanLeads, Zenon
<1>15. Leads(When(Busy, StopCalls(TRUE)) \o LoadCalls([on |-> on, program |-> scene]) \o CleanCalls, d, TRUE, a, e3)
  BY <1>10, <1>11, <1>12, LeadsJoin, Zenon
<1>13. ModeEnd(e3) /\ Calm(e3)
  BY <1>2, <1>3, <1>10, <1>11, <1>12 DEF ModeEnd, Calm, BusyIn, View, Modes
<1>14. SyncEnd(e3)'
  BY <1>10, <1>11, <1>12 DEF SyncEnd, BusyIn
<1>16. Leads(script, ctl.delay, TRUE, a, e3)'
  BY <1>4, <1>9, <1>15, Zenon
<1> QED
  BY <1>6, <1>7, <1>13, <1>14, <1>16, SettledAgain

\* A copy of the collection.
LEMMA CopyKeeps ==
    ASSUME BufferInvariant, Covered, CopyCollection
    PROVE  BufferInvariant'
<1>1. Idle
  BY Zenon DEF CopyCollection
<1>2. PICK a \in View : /\ TypeOK /\ (timer.armed => timer.generation = ctl.generation)
                        /\ Sound(a) /\ ModeEnd(a) /\ (Steady => SyncEnd(a)) /\ script = << >>
  BY <1>1, IdleHolds, Zenon
<1>3. /\ a.mode = ctl.mode /\ a.held = ctl.held
      /\ BusyIn(a) <=> Busy
  BY <1>2 DEF Sound, BusyIn, Busy
<1>4. /\ script' = LoadCalls([on |-> video.on, program |-> program]) \o When(Busy, StopCalls(program = "wrapper")) \o CleanCalls
      /\ UNCHANGED <<ctl, timer, program, overlay, video, audio, ring, inbox, canvas>>
      /\ upsets < MaxUpsets /\ upsets' = upsets + 1
  BY Zenon DEF CopyCollection, LoadCalls, filters, graphics
<1>5. upsets' \in 0..MaxUpsets
  <2>1. upsets \in 0..MaxUpsets
    BY <1>2 DEF TypeOK
  <2> QED
    BY <1>4, <2>1, BoundAssumption
<1>6. TypeOK' /\ (timer.armed => timer.generation = ctl.generation)'
  BY <1>2, <1>4, <1>5 DEF TypeOK
<1>7. Sound(a)'
  BY <1>2, <1>4, SoundStays, Zenon
<1>8. ~BusyIn(a) => ~a.held /\ ~a.visible /\ ~a.armed
  BY <1>2 DEF ModeEnd, BusyIn
<1>9. PICK d : d = ctl.delay
  OBVIOUS
<1>10. PICK e1 \in View :
          /\ Leads(LoadCalls([on |-> video.on, program |-> program]), d, TRUE, a, e1)
          /\ e1.mode = a.mode /\ e1.held = a.held /\ e1.visible = a.visible /\ e1.armed = a.armed
  <2>1. video.on \in BOOLEAN /\ program \in Scenes
    BY <1>2 DEF TypeOK
  <2>2. [on |-> video.on, program |-> program] \in Saved
    BY <2>1 DEF Saved
  <2> QED
    BY <2>2, LoadLeads, Zenon
<1>11. PICK e2 \in View :
          /\ Leads(When(Busy, StopCalls(program = "wrapper")), d, TRUE, e1, e2)
          /\ ~BusyIn(e2) /\ ~e2.held /\ ~e2.visible /\ ~e2.armed
          /\ e2.mode = "Error" <=> ctl.mode = "Error"
  <2>1. ~BusyIn(e1) => ~e1.held /\ ~e1.visible /\ ~e1.armed
    BY <1>8, <1>10 DEF BusyIn
  <2>2. PICK restore \in BOOLEAN : restore = (program = "wrapper")
    OBVIOUS
  <2>3. e1.held = ctl.held /\ e1.mode = ctl.mode
    BY <1>3, <1>10
  <2> QED
    BY <1>2, <2>1, <2>2, <2>3, HaltLeads
<1>12. PICK e3 \in View :
          /\ Leads(CleanCalls, d, TRUE, e2, e3)
          /\ e3.mode = e2.mode /\ e3.held = e2.held /\ e3.visible = e2.visible /\ e3.armed = e2.armed
          /\ ctl.mode # "Error" => ~e3.video /\ ~e3.audio
  BY CleanLeads, Zenon
<1>15. Leads(LoadCalls([on |-> video.on, program |-> program]) \o When(Busy, StopCalls(program = "wrapper")) \o CleanCalls, d, TRUE, a, e3)
  BY <1>10, <1>11, <1>12, LeadsJoin, Zenon
<1>13. ModeEnd(e3) /\ Calm(e3)
  BY <1>2, <1>3, <1>10, <1>11, <1>12 DEF ModeEnd, Calm, BusyIn, View, Modes
<1>14. SyncEnd(e3)'
  BY <1>10, <1>11, <1>12 DEF SyncEnd, BusyIn
<1>16. Leads(script, ctl.delay, TRUE, a, e3)'
  BY <1>4, <1>9, <1>15, Zenon
<1> QED
  BY <1>6, <1>7, <1>13, <1>14, <1>16, SettledAgain

\* OBS starts again, in the middle of a handler or not.
LEMMA StartKeeps ==
    ASSUME BufferInvariant, NEW on \in BOOLEAN, NEW scene \in Scenes, RestartObs(on, scene)
    PROVE  BufferInvariant'
<1>1. TypeOK
  BY DEF BufferInvariant
<1>2. /\ ctl' = [ctl EXCEPT !.mode = "Inactive", !.effective = 0, !.before = "", !.held = FALSE, !.generation = 0]
      /\ timer' = [armed |-> FALSE, left |-> 0, generation |-> 0]
      /\ overlay' = [visible |-> FALSE, seconds |-> 0]
      /\ video' = [video EXCEPT !.on = on] /\ audio' = [audio EXCEPT !.on = on]
      /\ program' = scene /\ ring' = NoRing /\ inbox' = 0 /\ script' = << <<"clean", 0>> >> /\ canvas' = canvas
  BY Zenon DEF RestartObs
<1>3. upsets' \in 0..MaxUpsets
  <2>1. upsets \in 0..MaxUpsets
    BY <1>1 DEF TypeOK
  <2>2. upsets < MaxUpsets /\ upsets' = upsets + 1
    BY Zenon DEF RestartObs
  <2> QED
    BY <2>1, <2>2, BoundAssumption
<1>4. 0 \in Nat /\ 0 \in 0..MaxDelay /\ 0 \in 0..(MaxDelay + 1) /\ 0 \in 0..(Generations - 1)
  BY MaxDelayIs, BoundAssumption
<1>5. TypeOK'
  BY <1>1, <1>2, <1>3, <1>4 DEF TypeOK, NoRing, Modes
<1>6. ~timer'.armed
  BY <1>2
<1>7. PICK e : e = [mode |-> "Inactive", video |-> on, audio |-> on, held |-> FALSE, visible |-> FALSE, armed |-> FALSE,
                    delayed |-> FALSE, synced |-> FALSE, told |-> FALSE, fresh |-> FALSE]
  OBVIOUS
<1>8. e \in View
  BY <1>7 DEF View, Modes
<1>9. Sound(e)'
  <2>1. /\ ctl'.mode = "Inactive" /\ ctl'.held = FALSE
    BY <1>1, <1>2 DEF TypeOK
  <2>2. video'.on = on /\ audio'.on = on
    BY <1>1, <1>2 DEF TypeOK
  <2>3. overlay'.visible = FALSE /\ timer'.armed = FALSE
    BY <1>2
  <2> QED
    BY <1>7, <2>1, <2>2, <2>3 DEF Sound
<1>10. PICK d, s : d = ctl'.delay /\ s = script'
  OBVIOUS
<1>11. PICK b : b = [e EXCEPT !.video = FALSE, !.audio = FALSE]
  OBVIOUS
<1>12. b \in View /\ b.mode = "Inactive" /\ ~b.video /\ ~b.audio /\ ~b.held /\ ~b.visible /\ ~b.armed
  BY <1>7, <1>11 DEF View, Modes
<1>13. PICK c : c = <<"clean", 0>>
  OBVIOUS
<1>14. c[1] # "delay" /\ c \in Calls /\ Effect(c, e) = b
  <2>1. c[1] # "delay"
    BY <1>13
  <2>2. c \in Calls
    BY <1>13, CallsAre, Zenon
  <2>3. Effect(c, e) = b
    BY <1>8, <1>11, <1>13, EffectsAre, Zenon
  <2> QED
    BY <2>1, <2>2, <2>3
<1>15. Leads(<<c>>, d, TRUE, e, Effect(c, e))
  BY <1>14, LeadsOne, Zenon
<1>16. Leads(script, ctl.delay, TRUE, e, b)'
  BY <1>2, <1>10, <1>13, <1>14, <1>15, Zenon
<1>17. ModeEnd(b) /\ Calm(b)
  BY <1>12 DEF ModeEnd, Calm, BusyIn, Modes
<1>18. SyncEnd(b)'
  BY <1>12 DEF SyncEnd, BusyIn
<1> QED
  BY <1>5, <1>6, <1>8, <1>9, <1>12, <1>16, <1>17, <1>18, SettledAgain

\* The user shows a scene.
LEMMA UserKeeps ==
    ASSUME BufferInvariant, NEW scene \in Scenes, UserShows(scene)
    PROVE  BufferInvariant'
<1>1. PICK a \in View, b \in View : Settled(a, b)
  BY DEF BufferInvariant
<1>2. /\ TypeOK /\ (timer.armed => timer.generation = ctl.generation)
      /\ Sound(a) /\ ModeEnd(b) /\ (Steady => SyncEnd(b)) /\ Leads(script, ctl.delay, Calm(b), a, b)
  BY <1>1, Zenon DEF BufferInvariant, Settled
<1>3. PICK calm : calm = Calm(b)
  OBVIOUS
<1>4. /\ program' = scene
      /\ UNCHANGED <<ctl, timer, overlay, video, audio, ring, inbox, canvas, script, upsets>>
  BY Zenon DEF UserShows, filters, graphics
<1>5. TypeOK' /\ (timer.armed => timer.generation = ctl.generation)'
  BY <1>2, <1>4 DEF TypeOK
<1>6. Sound(a)'
  BY <1>2, <1>4, SoundStays, Zenon
<1>7. Leads(script, ctl.delay, calm, a, b)'
  BY <1>2, <1>3, <1>4, Zenon
<1>8. Steady => SyncEnd(b)'
  BY <1>2, <1>4 DEF SyncEnd, Announced
<1> QED
  BY <1>1, <1>2, <1>3, <1>5, <1>6, <1>7, <1>8, SettledAgain

\* A hard resize: nothing is lost unannounced.
LEMMA ResizeKeeps ==
    ASSUME BufferInvariant, EnsureRingSized
    PROVE  BufferInvariant'
<1>1. PICK a \in View, b \in View : Settled(a, b)
  BY DEF BufferInvariant
<1>2. /\ TypeOK /\ (timer.armed => timer.generation = ctl.generation)
      /\ Sound(a) /\ ModeEnd(b) /\ (Steady => SyncEnd(b)) /\ Leads(script, ctl.delay, Calm(b), a, b)
  BY <1>1, Zenon DEF BufferInvariant, Settled
<1>3. PICK calm : calm = Calm(b)
  OBVIOUS
<1>4. /\ UNCHANGED <<ctl, timer, program, overlay, video, audio, canvas, script, upsets>>
      /\ ring' = [slots |-> FitFor(video.delay, video.height).slots, effective |-> PlannedEffective, canvas |-> canvas,
                  held |-> 0]
      /\ inbox' = IF ring # NoRing /\ ring.held > 0 THEN inbox + 1 ELSE inbox
  BY Zenon DEF EnsureRingSized, filters, PlannedEffective
<1>9. inbox \in Nat
  BY <1>2 DEF TypeOK
<1>10. inbox' \in Nat /\ (inbox > 0 \/ (ring # NoRing /\ ring.held > 0) => inbox' > 0)
  BY <1>4, <1>9
<1>11. ring' \in RingType
  <2>1. /\ FitFor(video.delay, video.height).slots \in Nat /\ PlannedEffective \in 1..MaxDelay
    BY <1>2, PlannedIs
  <2>2. canvas \in Canvases
    BY <1>2 DEF TypeOK
  <2>3. PICK slots, effective : slots = FitFor(video.delay, video.height).slots /\ effective = PlannedEffective
    OBVIOUS
  <2>4. effective \in 0..MaxDelay /\ 0 \in 0..(MaxDelay + 1)
    BY <2>1, <2>3, MaxDelayIs
  <2> QED
    BY <1>4, <2>1, <2>2, <2>3, <2>4 DEF RingType
<1>5. TypeOK' /\ (timer.armed => timer.generation = ctl.generation)'
  BY <1>2, <1>4, <1>10, <1>11 DEF TypeOK, RingType
<1>6. Sound(a)'
  BY <1>2, <1>4, SoundStays, Zenon
<1>7. Leads(script, ctl.delay, calm, a, b)'
  BY <1>2, <1>3, <1>4, Zenon
<1>12. ring = NoRing => ~(ring.held > 0)
  BY DEF NoRing
<1>8. Steady => SyncEnd(b)'
  <2>1. inbox > 0 \/ ring.held > 0 => inbox' > 0
    BY <1>10, <1>12
  <2> QED
    BY <1>2, <2>1 DEF SyncEnd, Announced
<1> QED
  BY <1>1, <1>2, <1>3, <1>5, <1>6, <1>7, <1>8, SettledAgain

\* The first frame of a ring.
LEMMA CaptureKeeps ==
    ASSUME BufferInvariant, CaptureFrame
    PROVE  BufferInvariant'
<1>1. PICK a \in View, b \in View : Settled(a, b)
  BY DEF BufferInvariant
<1>2. /\ TypeOK /\ (timer.armed => timer.generation = ctl.generation)
      /\ Sound(a) /\ ModeEnd(b) /\ (Steady => SyncEnd(b)) /\ Leads(script, ctl.delay, Calm(b), a, b)
  BY <1>1, Zenon DEF BufferInvariant, Settled
<1>3. PICK calm : calm = Calm(b)
  OBVIOUS
<1>4. /\ UNCHANGED <<ctl, timer, program, overlay, video, audio, inbox, canvas, script, upsets>>
      /\ ring' = [ring EXCEPT !.held = 1]
  BY Zenon DEF CaptureFrame, filters
<1>9. 1 \in 0..(MaxDelay + 1)
  BY MaxDelayIs
<1>5. TypeOK' /\ (timer.armed => timer.generation = ctl.generation)'
  BY <1>2, <1>4, <1>9 DEF TypeOK
<1>6. Sound(a)'
  BY <1>2, <1>4, SoundStays, Zenon
<1>7. Leads(script, ctl.delay, calm, a, b)'
  BY <1>2, <1>3, <1>4, Zenon
<1>10. ring'.held = 1
  BY <1>2, <1>4 DEF TypeOK
<1>8. Steady => SyncEnd(b)'
  <2>1. ring'.held > 0
    BY <1>10
  <2> QED
    BY <1>2, <1>4, <2>1 DEF SyncEnd, Announced
<1> QED
  BY <1>1, <1>2, <1>3, <1>5, <1>6, <1>7, <1>8, SettledAgain

\* Nothing happens.
LEMMA StutterKeeps ==
    ASSUME BufferInvariant, UNCHANGED vars
    PROVE  BufferInvariant'
<1>1. PICK a \in View, b \in View : Settled(a, b)
  BY DEF BufferInvariant
<1>2. /\ TypeOK /\ (timer.armed => timer.generation = ctl.generation)
      /\ Sound(a) /\ ModeEnd(b) /\ (Steady => SyncEnd(b)) /\ Leads(script, ctl.delay, Calm(b), a, b)
  BY <1>1, Zenon DEF BufferInvariant, Settled
<1>3. PICK calm : calm = Calm(b)
  OBVIOUS
<1>4. UNCHANGED <<ctl, timer, program, overlay, video, audio, ring, inbox, canvas, script, upsets>>
  BY Zenon DEF vars
<1>5. TypeOK' /\ (timer.armed => timer.generation = ctl.generation)'
  BY <1>2, <1>4 DEF TypeOK
<1>6. Sound(a)'
  BY <1>2, <1>4, SoundStays, Zenon
<1>7. Leads(script, ctl.delay, calm, a, b)'
  BY <1>2, <1>3, <1>4, Zenon
<1>8. Steady => SyncEnd(b)'
  BY <1>2, <1>4 DEF SyncEnd, Announced
<1> QED
  BY <1>1, <1>2, <1>3, <1>5, <1>6, <1>7, <1>8, SettledAgain

\* A second goes by.
LEMMA SecondKeeps ==
    ASSUME BufferInvariant, Covered, Second
    PROVE  BufferInvariant'
<1>1. Idle
  BY Zenon DEF Second
<1>2. PICK a \in View : /\ TypeOK /\ (timer.armed => timer.generation = ctl.generation)
                        /\ Sound(a) /\ ModeEnd(a) /\ (Steady => SyncEnd(a)) /\ script = << >>
  BY <1>1, IdleHolds, Zenon
<1>3. /\ a.mode = ctl.mode /\ a.held = ctl.held
      /\ BusyIn(a) <=> Busy
  BY <1>2 DEF Sound, BusyIn, Busy
<1>4. PICK left, aged :
        /\ left = IF timer.armed /\ timer.left > 0 THEN timer.left - 1 ELSE timer.left
        /\ aged = IF Rendered THEN Min({ring.held + 1, ring.effective + 1}) ELSE Min({ring.held, 1})
  OBVIOUS
<1>5. /\ timer' = [timer EXCEPT !.left = left] /\ ring' = [ring EXCEPT !.held = aged]
      /\ UNCHANGED <<ctl, program, overlay, video, audio, inbox, canvas, script, upsets>>
  <2>1. timer \in TimerType
    BY <1>2 DEF TypeOK, TimerType
  <2>2. timer' = [timer EXCEPT !.left = left]
    <3>1. timer = [timer EXCEPT !.left = timer.left]
      BY <2>1 DEF TimerType
    <3> QED
      BY <1>4, <3>1 DEF Second
  <2>3. ring' = [ring EXCEPT !.held = aged]
    BY <1>4 DEF Second, Aged
  <2> QED
    BY <2>2, <2>3, Zenon DEF Second, filters
<1>6. timer.left \in 0..MaxDelay /\ ring.held \in 0..(MaxDelay + 1) /\ ring.effective \in 0..MaxDelay
  <2>1. timer \in TimerType /\ ring \in RingType
    BY <1>2, Zenon DEF TypeOK, TimerType, RingType
  <2> QED
    BY <2>1 DEF TimerType, RingType
<1>7. MaxDelay \in Nat
  BY MaxDelayIs
<1>8. left \in 0..MaxDelay
  BY <1>4, <1>6, <1>7
<1>9. aged \in 0..(MaxDelay + 1) /\ (ring.held > 0 \/ Rendered => aged > 0)
  <2>1. ring.held \in Nat /\ ring.held + 1 \in Nat /\ ring.effective + 1 \in Nat /\ 1 \in Nat /\ ring.effective + 1 <= MaxDelay + 1
    BY <1>6, <1>7
  <2>2. /\ Min({ring.held + 1, ring.effective + 1}) = IF ring.held + 1 <= ring.effective + 1 THEN ring.held + 1 ELSE ring.effective + 1
        /\ Min({ring.held, 1}) = IF ring.held <= 1 THEN ring.held ELSE 1
    BY <2>1, MinOfTwo, Zenon
  <2>3. CASE Rendered
    <3>1. aged = Min({ring.held + 1, ring.effective + 1})
      BY <1>4, <2>3, Zenon
    <3> QED
      BY <1>6, <1>7, <2>1, <2>2, <3>1
  <2>4. CASE ~Rendered
    <3>1. aged = Min({ring.held, 1})
      BY <1>4, <2>4, Zenon
    <3>2. aged \in 0..(MaxDelay + 1) /\ (ring.held > 0 => aged > 0)
      BY <1>6, <1>7, <2>1, <2>2, <3>1
    <3> QED
      BY <2>4, <3>2, Zenon
  <2> QED
    BY <2>3, <2>4, Zenon
<1>10. TypeOK' /\ (timer.armed => timer.generation = ctl.generation)'
  BY <1>2, <1>5, <1>8, <1>9 DEF TypeOK
<1>11. PICK e : e = [a EXCEPT !.fresh = FALSE]
  OBVIOUS
<1>12. /\ e \in View /\ e.mode = a.mode /\ e.video = a.video /\ e.audio = a.audio /\ e.held = a.held
       /\ e.visible = a.visible /\ e.armed = a.armed /\ e.told = a.told /\ ~e.fresh
       /\ e.delayed = a.delayed /\ e.synced = a.synced
  BY <1>11 DEF View
<1>13. Sound(e)'
  <2>1. /\ e.mode = ctl'.mode /\ e.video = video'.on /\ e.audio = audio'.on /\ e.held = ctl'.held
        /\ e.visible = overlay'.visible /\ e.armed = timer'.armed
    BY <1>2, <1>5, <1>12 DEF Sound, TypeOK
  <2>2. e.delayed => Delayed'
    BY <1>2, <1>5, <1>12 DEF Sound, Delayed
  <2>3. (e.synced => Synced') /\ (e.told => Told')
    BY <1>2, <1>5, <1>12 DEF Sound, Synced, Told, PlannedEffective, FitFor
  <2> QED
    BY <1>12, <2>1, <2>2, <2>3 DEF Sound
<1>14. ring'.held = aged
  BY <1>2, <1>5 DEF TypeOK
<1>15. ModeEnd(e)
  BY <1>2, <1>12 DEF ModeEnd, BusyIn
<1>16. ctl.mode = "Filling" => Rendered
  <2>1. a.mode = "Filling" => a.video /\ a.held
    BY <1>2 DEF ModeEnd, BusyIn
  <2> QED
    BY <1>2, <2>1 DEF Sound, Rendered
<1>17. Steady => SyncEnd(e)'
  BY <1>2, <1>3, <1>5, <1>9, <1>12, <1>14, <1>16 DEF SyncEnd, BusyIn, Announced
<1>18. Leads(script, ctl.delay, FALSE, e, e)'
  BY <1>2, <1>5, LeadsNothing, Zenon
<1> QED
  BY <1>10, <1>12, <1>13, <1>15, <1>17, <1>18, SettledAgain

\* OBS has other video settings.
LEMMA VideoKeeps ==
    ASSUME BufferInvariant, Covered, NEW new \in Canvases, ResetVideo(new)
    PROVE  BufferInvariant'
<1>1. Idle
  BY Zenon DEF ResetVideo
<1>2. PICK a \in View : /\ TypeOK /\ (timer.armed => timer.generation = ctl.generation)
                        /\ Sound(a) /\ ModeEnd(a) /\ (Steady => SyncEnd(a)) /\ script = << >>
  BY <1>1, IdleHolds, Zenon
<1>3. /\ a.mode = ctl.mode /\ a.held = ctl.held
      /\ BusyIn(a) <=> Busy
  BY <1>2 DEF Sound, BusyIn, Busy
<1>4. /\ canvas' = new /\ upsets' = upsets + 1 /\ upsets < MaxUpsets /\ new # canvas
      /\ UNCHANGED <<ctl, timer, program, overlay, video, audio, ring, inbox, script>>
  BY Zenon DEF ResetVideo, filters
<1>5. upsets' \in 0..MaxUpsets
  <2>1. upsets \in 0..MaxUpsets
    BY <1>2 DEF TypeOK
  <2> QED
    BY <1>4, <2>1, BoundAssumption
<1>6. TypeOK' /\ (timer.armed => timer.generation = ctl.generation)'
  BY <1>2, <1>4, <1>5 DEF TypeOK
<1>7. PICK e : e = [a EXCEPT !.synced = FALSE, !.told = FALSE]
  OBVIOUS
<1>8. /\ e \in View /\ e.mode = a.mode /\ e.video = a.video /\ e.audio = a.audio /\ e.held = a.held
      /\ e.visible = a.visible /\ e.armed = a.armed /\ ~e.told /\ ~e.synced
      /\ e.delayed = a.delayed /\ e.fresh = a.fresh
  BY <1>7 DEF View
<1>9. Sound(e)'
  <2>1. /\ e.mode = ctl'.mode /\ e.video = video'.on /\ e.audio = audio'.on /\ e.held = ctl'.held
        /\ e.visible = overlay'.visible /\ e.armed = timer'.armed
    BY <1>2, <1>4, <1>8 DEF Sound
  <2>2. (e.delayed => Delayed') /\ (e.fresh => Fresh')
    BY <1>2, <1>4, <1>8 DEF Sound, Delayed, Fresh
  <2> QED
    BY <1>8, <2>1, <2>2 DEF Sound
<1>10. ModeEnd(e)
  BY <1>2, <1>8 DEF ModeEnd, BusyIn
<1>11. ~Steady
  <2>1. canvas \in Canvases
    BY <1>2 DEF TypeOK
  <2> QED
    BY <1>4, <2>1 DEF Steady
<1>12. Leads(script, ctl.delay, FALSE, e, e)'
  BY <1>2, <1>4, LeadsNothing, Zenon
<1> QED
  BY <1>6, <1>8, <1>9, <1>10, <1>11, <1>12, SettledAgain

\* It holds to begin with.
LEMMA BufferBegins == Init => BufferInvariant
<1> SUFFICES ASSUME Init PROVE BufferInvariant
  OBVIOUS
<1>1. TypeOK /\ Scripted
  BY TypesInit
<1>2. ctl.mode = "Inactive" /\ ctl.held = FALSE /\ video.on = FALSE /\ audio.on = FALSE
  <2>1. PICK none, d, h :
          /\ ctl = [mode |-> "Inactive", delay |-> d, height |-> h, effective |-> 0,
                    before |-> none, held |-> FALSE, generation |-> 0]
          /\ video = [delay |-> d, height |-> h, on |-> FALSE]
          /\ audio = [delay |-> d, on |-> FALSE]
    BY Zenon DEF Init
  <2> HIDE DEF Init
  <2> QED
    BY <2>1
<1>3. timer.armed = FALSE /\ overlay.visible = FALSE /\ script = << >>
  BY DEF Init
<1>4. PICK e : e = [mode |-> "Inactive", video |-> FALSE, audio |-> FALSE, held |-> FALSE, visible |-> FALSE,
                    armed |-> FALSE, delayed |-> FALSE, synced |-> FALSE, told |-> FALSE, fresh |-> FALSE]
  OBVIOUS
<1>5. e \in View
  BY <1>4 DEF View, Modes
<1>6. Sound(e)
  BY <1>2, <1>3, <1>4 DEF Sound
<1>7. ModeEnd(e) /\ SyncEnd(e)
  BY <1>4 DEF ModeEnd, SyncEnd, BusyIn, Modes
<1>8. Leads(script, ctl.delay, Calm(e), e, e)
  BY <1>3, LeadsNothing, Zenon
<1>9. Settled(e, e)
  BY <1>6, <1>7, <1>8, Zenon DEF Settled
<1> QED
  BY <1>1, <1>5, <1>9, Zenon DEF BufferInvariant, Scripted

LEMMA BufferStep == ASSUME Covered, BufferInvariant, [Next]_vars PROVE BufferInvariant'
<1>1. CASE Controller
  BY <1>1, CallKeeps
<1>2. CASE Handlers
  <2>1. CASE Enable
    BY <2>1, EnableKeeps, Zenon
  <2>2. CASE EnableRefused
    BY <2>2, RefusalKeeps, Zenon
  <2>3. CASE Disable
    BY <2>3, DisableKeeps, Zenon
  <2>4. ASSUME NEW d \in Delays, SetDelaySeconds(d) PROVE BufferInvariant'
    BY <2>4, DelayKeeps, Zenon
  <2>5. ASSUME NEW h \in Heights, SetMinResolutionHeight(h) PROVE BufferInvariant'
    BY <2>5, HeightKeeps, Zenon
  <2>6. CASE OnFillTimerElapsed
    BY <2>6, TimerKeeps, Zenon
  <2>7. CASE OnBufferRestarted
    BY <2>7, RestartKeeps, Zenon
  <2>8. ASSUME NEW on \in BOOLEAN, NEW s \in Scenes, SwitchCollection(on, s) PROVE BufferInvariant'
    BY <2>8, SwitchKeeps
  <2>9. ASSUME NEW on \in BOOLEAN, NEW s \in Scenes, RestartObs(on, s) PROVE BufferInvariant'
    BY <2>9, StartKeeps
  <2>10. CASE CopyCollection
    BY <2>10, CopyKeeps, Zenon
  <2>11. ASSUME NEW s \in UserScenes, UserShows(s) PROVE BufferInvariant'
    BY <2>11, UserKeeps, ScenesAre, Zenon
  <2> QED
    BY <1>2, <2>1, <2>2, <2>3, <2>4, <2>5, <2>6, <2>7, <2>8, <2>9, <2>10, <2>11, Zenon DEF Handlers
<1>3. CASE EnsureRingSized
  BY <1>3, ResizeKeeps, Zenon
<1>4. CASE CaptureFrame
  BY <1>4, CaptureKeeps, Zenon
<1>5. CASE Second
  BY <1>5, SecondKeeps, Zenon
<1>6. ASSUME NEW c \in Canvases, ResetVideo(c) PROVE BufferInvariant'
  BY <1>6, VideoKeeps, Zenon
<1>7. CASE UNCHANGED vars
  BY <1>7, StutterKeeps, Zenon
<1> QED
  BY <1>1, <1>2, <1>3, <1>4, <1>5, <1>6, <1>7, Zenon DEF Next

LEMMA BufferHolds == ASSUME Covered PROVE Spec => []BufferInvariant
<1>1. Init => BufferInvariant
  BY BufferBegins
<1>2. BufferInvariant /\ [Next]_vars => BufferInvariant'
  BY BufferStep, Zenon
<1> QED
  BY <1>1, <1>2, PTL DEF Spec

\* Between two handlers the filters, the keep-alive, the overlay and the
\* countdown are as the mode says, whatever the user, the graphics thread, a
\* collection or the end of OBS did in between. It needs a loading scene:
\* without one a refill is not fed behind another scene.
THEOREM ModeTheorem == ASSUME Loading # "" PROVE Spec => []ModeIsKept
<1>1. Covered
  BY DEF Covered
<1>2. BufferInvariant => ModeIsKept
  <2> SUFFICES ASSUME BufferInvariant PROVE ModeIsKept
    OBVIOUS
  <2>1. TypeOK
    BY DEF BufferInvariant
  <2>2. CASE Idle
    <3>1. PICK a \in View : Sound(a) /\ ModeEnd(a)
      BY <2>2, IdleHolds, Zenon
    <3>2. /\ ctl.held => ctl.mode = "Filling"
          /\ ctl.mode = "Filling" => video.on /\ ctl.held
          /\ ctl.mode # "Error" => (video.on <=> Busy) /\ (audio.on <=> Busy)
          /\ ~Busy => ~ctl.held /\ ~overlay.visible /\ ~timer.armed
      BY <3>1 DEF Sound, ModeEnd, BusyIn, Busy
    <3> QED
      BY <2>1, <3>2, Zenon DEF ModeIsKept, FiltersFollowMode, FillingIsFed, Rendered
  <2>3. CASE ~Idle
    BY <2>1, <2>3, Zenon DEF ModeIsKept, FiltersFollowMode, FillingIsFed
  <2> QED
    BY <2>2, <2>3
<1>3. Spec => []BufferInvariant
  BY <1>1, BufferHolds
<1> QED
  BY <1>2, <1>3, PTL

LEMMA SyncHolds == ASSUME Steady, BufferInvariant PROVE InSync
<1> SUFFICES ASSUME Idle, ctl.mode = "Active", inbox = 0, Sized
             PROVE  /\ audio.delay = ring.effective
                    /\ ctl.effective = ring.effective
                    /\ overlay = [visible |-> TRUE, seconds |-> ring.effective]
  BY Zenon DEF InSync
<1>1. PICK a \in View : Sound(a) /\ SyncEnd(a)
  BY IdleHolds, Zenon
<1>2. a.mode = "Active" /\ ~Announced
  <2>1. a.mode = ctl.mode
    BY <1>1, Zenon DEF Sound
  <2>2. ~Announced
    BY DEF Announced
  <2> QED
    BY <2>1, <2>2, Zenon
<1>3. a.visible /\ a.synced /\ a.told
  BY <1>1, <1>2, Zenon DEF SyncEnd
<1>4. Synced /\ Told /\ a.visible = overlay.visible
  BY <1>1, <1>3, Zenon DEF Sound
<1>5. ring.effective = PlannedEffective
  BY DEF Sized
<1>6. overlay \in [visible : BOOLEAN, seconds : 0..MaxDelay]
  BY Zenon DEF BufferInvariant, TypeOK
<1>7. overlay.visible = TRUE /\ overlay.seconds = ring.effective
  BY <1>3, <1>4, <1>5, <1>6 DEF Told
<1>8. overlay = [visible |-> TRUE, seconds |-> ring.effective]
  BY <1>6, <1>7
<1> QED
  BY <1>4, <1>5, <1>8 DEF Synced

\* While the delay is on, the audio, the overlay and the seconds the dock shows
\* are those of the ring, as long as nobody changes OBS's video settings or, in
\* the middle of a fill window, the delay.
THEOREM SyncTheorem ==
    ASSUME Loading # "", "Filling" \notin ChangeIn, \A c, d \in Canvases : c = d
    PROVE  Spec => []InSync
<1>1. Covered /\ Steady
  BY DEF Covered, Steady
<1>2. BufferInvariant => InSync
  BY <1>1, SyncHolds, Zenon
<1>3. Spec => []BufferInvariant
  BY <1>1, BufferHolds
<1> QED
  BY <1>2, <1>3, PTL
=============================================================================
