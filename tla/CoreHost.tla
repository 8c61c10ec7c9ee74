------------------------------ MODULE CoreHost ------------------------------
(***************************************************************************)
(* The core build's host of the buffer mode controller (core-host.cpp): a  *)
(* source whose settings carry the configuration, a command and a token,   *)
(* and a thread that owns the controller, its queue and its fill timer.    *)
(*                                                                         *)
(* The host program's IPC thread calls Update, which posts one task and    *)
(* waits for it up to 10 s; the graphics thread posts ring restarts; the   *)
(* controller's thread runs tasks first in, first out, and its timers when *)
(* there are none.  The controller itself is BufferMode's: here only the   *)
(* state its host reads and steers is kept.                                *)
(***************************************************************************)
EXTENDS Integers, Sequences

CONSTANTS
    Configs,     \* the host's settings: [scene, delay]
    Commands,    \* the commands it sends
    MaxCalls,    \* bound on Update calls
    MaxRestarts, \* bound on restarts of the ring
    MaxSlow      \* bound on waits that give up after 10 s

VARIABLES
    source,    \* the controller source and the Update call in progress
    coreThread,\* the Host object: its queue, thread and fill timer
    delayMode, \* the controller as its host sees it
    snapshot   \* what the thread published last
coreVars == <<source, coreThread, delayMode, snapshot>>

NoTask == [kind |-> "none"]

Status(mode, timer, ran) ==
    [state |-> mode.state, generation |-> mode.generation, armed |-> timer.armed, ran |-> ran]

CoreInit ==
    /\ \E config \in Configs :
         source = [alive |-> FALSE, pc |-> "idle", token |-> 0, calls |-> 0, done |-> 0, slow |-> 0,
                   saved |-> [config |-> config, command |-> "", token |-> 0],
                   sent |-> <<>>, seen |-> 0, current |-> TRUE]
    /\ coreThread = [alive |-> FALSE, stopping |-> FALSE, shut |-> FALSE, tasks |-> <<>>, running |-> NoTask,
                     timer |-> [armed |-> FALSE, generation |-> 0],
                     ran |-> <<>>, restarts |-> 0]
    /\ delayMode = [state |-> "inactive", generation |-> 0, scene |-> "none", started |-> "none", delay |-> 0]
    /\ snapshot = Status(delayMode, coreThread.timer, 0)

-----------------------------------------------------------------------------
(* The controller's operations, as far as its host can tell them apart.    *)

DelayOn(mode) == mode.state \in {"filling", "active"}

Filling(mode) == [mode EXCEPT !.state = "filling", !.generation = @ + 1]

\* Enable: nothing while it runs; otherwise it fills, or ends in an error.
EnableResults(mode) ==
    IF DelayOn(mode) THEN {mode}
    ELSE {[Filling(mode) EXCEPT !.started = mode.scene], [mode EXCEPT !.state = "error"]}
Stopped(mode) == [mode EXCEPT !.state = "inactive"]

CommandResults(mode, command) ==
    CASE command = "enable" -> EnableResults(mode)
      [] command = "disable" -> {Stopped(mode)}
      [] command = "toggle" -> IF mode.state = "inactive" THEN EnableResults(mode) ELSE {Stopped(mode)}
      [] command = "collection_changing" -> {IF DelayOn(mode) THEN Stopped(mode) ELSE mode}
      [] OTHER -> {mode}

\* Both scene pickers stay as they are while the delay runs.
MayPickScene(mode) == ~DelayOn(mode)

\* ApplyConfig: the settings once, then whatever differs; another delay may
\* restart an active ring.
ConfigResults(mode, config) ==
    LET picked == IF MayPickScene(mode) THEN [mode EXCEPT !.scene = config.scene] ELSE mode
        sized == [picked EXCEPT !.delay = config.delay]
    IN IF config.delay # mode.delay /\ mode.state = "active" THEN {sized, Filling(sized)} ELSE {sized}

\* OnStatus: the fill timer is armed once per fill window.
Rearmed(timer, mode) ==
    IF mode.state # "filling" THEN [timer EXCEPT !.armed = FALSE]
    ELSE IF timer.armed /\ timer.generation = mode.generation THEN timer
    ELSE [armed |-> TRUE, generation |-> mode.generation]

\* Every change of the controller's status goes through OnStatus.
Notified(mode, thread) ==
    LET timer == Rearmed(thread.timer, mode) IN
    /\ delayMode' = mode
    /\ coreThread' = [thread EXCEPT !.timer = timer]
    /\ snapshot' = Status(mode, timer, Len(thread.ran))

-----------------------------------------------------------------------------
(* The source, on the host program's IPC thread.                           *)

\* Host::Post: nothing is taken once the thread is stopping.
Posted_First(tasks, task) == <<task>> \o tasks
Posted(tasks, task) == Append(tasks, task)

\* Update: a token it has not seen makes the command count.
PostUpdate(settings, known) ==
    LET command == IF settings.token # known THEN settings.command ELSE ""
        task == [kind |-> "apply", call |-> source.calls + 1, config |-> settings.config,
                 command |-> command, token |-> settings.token]
    IN /\ coreThread' = [coreThread EXCEPT !.alive = TRUE, !.tasks = Posted(@, task)]
       /\ source' = [source EXCEPT !.alive = TRUE, !.pc = "waits", !.token = settings.token, !.saved = settings,
                                   !.calls = @ + 1,
                                   !.sent = IF command # "" THEN Append(@, settings.token) ELSE @]
       /\ UNCHANGED <<delayMode, snapshot>>

MayCall == source.pc = "idle" /\ source.calls < MaxCalls /\ ~coreThread.stopping

UpdateSettings(config, command) ==
    /\ MayCall /\ source.alive
    /\ PostUpdate([config |-> config, command |-> command,
                   token |-> IF command = "" THEN source.saved.token ELSE source.saved.token + 1], source.token)

\* Create: the token saved with the settings counts as seen.
CreateSource ==
    /\ MayCall /\ ~source.alive
    /\ PostUpdate(source.saved, source.saved.token)

DestroySource ==
    /\ source.alive /\ source.pc = "idle"
    /\ source' = [source EXCEPT !.alive = FALSE, !.token = 0]
    /\ UNCHANGED <<coreThread, delayMode, snapshot>>

\* RunAndWait returns with the task done, or after 10 s without it; Update then
\* writes the last snapshot into the settings.
Returns(current) ==
    /\ source' = [source EXCEPT !.pc = "idle", !.seen = snapshot.ran, !.current = current,
                                !.slow = IF current THEN @ ELSE @ + 1]
    /\ UNCHANGED <<coreThread, delayMode, snapshot>>
UpdateReturns == source.pc = "waits" /\ source.done >= source.calls /\ Returns(TRUE)
UpdateGivesUp == source.pc = "waits" /\ source.done < source.calls /\ source.slow < MaxSlow /\ Returns(FALSE)

\* Shutdown, at unload: the bridge is shut down by a last task, then the
\* thread stops once its queue is empty.
ShutdownCore ==
    /\ ~source.alive /\ coreThread.alive /\ ~coreThread.stopping
    /\ coreThread' = [coreThread EXCEPT !.stopping = TRUE, !.tasks = Posted(@, [kind |-> "shutdown"])]
    /\ UNCHANGED <<source, delayMode, snapshot>>

-----------------------------------------------------------------------------
(* The graphics thread: BufferRestartedSignal, dropped without a host.     *)

RingRestarts ==
    /\ DelayOn(delayMode) /\ coreThread.restarts < MaxRestarts
    /\ coreThread' = [coreThread EXCEPT
         !.restarts = @ + 1,
         !.tasks = IF coreThread.stopping THEN @ ELSE Posted(@, [kind |-> "restarted"])]
    /\ UNCHANGED <<source, delayMode, snapshot>>

-----------------------------------------------------------------------------
(* The controller's thread.                                                *)

NextTask == Head(coreThread.tasks)
MayTake(kind) ==
    /\ coreThread.running = NoTask /\ coreThread.tasks # <<>> /\ NextTask.kind = kind
Taken == [coreThread EXCEPT !.tasks = Tail(@)]

\* Apply: first the configuration (and its own notices), then the command.
ApplyConfig ==
    /\ MayTake("apply")
    /\ \E mode \in ConfigResults(delayMode, NextTask.config) :
         Notified(mode, [Taken EXCEPT !.running = NextTask])
    /\ UNCHANGED source

RunCommand ==
    /\ coreThread.running # NoTask
    /\ \E mode \in CommandResults(delayMode, coreThread.running.command) :
         Notified(mode, [coreThread EXCEPT
           !.running = NoTask,
           !.ran = IF coreThread.running.command # "" THEN Append(@, coreThread.running.token) ELSE @])
    /\ source' = [source EXCEPT !.done = coreThread.running.call]

\* BufferRestartedTask finds the bridge gone after its shutdown.
RunRestarted ==
    /\ MayTake("restarted")
    /\ Notified(IF DelayOn(delayMode) /\ ~coreThread.shut THEN Filling(delayMode) ELSE delayMode, Taken)
    /\ UNCHANGED source

RunShutdown ==
    /\ MayTake("shutdown")
    /\ coreThread' = [Taken EXCEPT !.shut = TRUE]
    /\ UNCHANGED <<source, delayMode, snapshot>>

\* Run: the timer is looked at between tasks.
FillElapses ==
    /\ coreThread.running = NoTask /\ coreThread.tasks = <<>> /\ coreThread.timer.armed
    /\ LET thread == [coreThread EXCEPT !.timer.armed = FALSE] IN
       Notified(IF delayMode.state = "filling" THEN [delayMode EXCEPT !.state = "active"] ELSE delayMode, thread)
    /\ UNCHANGED source

ThreadEnds ==
    /\ coreThread.stopping /\ coreThread.running = NoTask /\ coreThread.tasks = <<>> /\ coreThread.alive
    /\ coreThread' = [coreThread EXCEPT !.alive = FALSE]
    /\ UNCHANGED <<source, delayMode, snapshot>>

CoreNext ==
    \/ \E config \in Configs, command \in Commands \union {""} : UpdateSettings(config, command)
    \/ CreateSource \/ DestroySource \/ UpdateReturns \/ UpdateGivesUp \/ ShutdownCore
    \/ RingRestarts
    \/ ApplyConfig \/ RunCommand \/ RunRestarted \/ RunShutdown \/ FillElapses \/ ThreadEnds

-----------------------------------------------------------------------------
CoreTypeOK ==
    /\ delayMode.state \in {"inactive", "filling", "active", "error"}
    /\ source.pc \in {"idle", "waits"} /\ source.done <= source.calls
    /\ coreThread.running = NoTask \/ coreThread.running.kind = "apply"

IsCommand(task) == task.kind = "apply" /\ task.command # ""
\* The tokens of the commands in a queue, in order.
TokensOf(queue) ==
    LET told[n \in 0..Len(queue)] ==
            IF n = 0 THEN <<>>
            ELSE IF IsCommand(queue[n]) THEN Append(told[n - 1], queue[n].token) ELSE told[n - 1]
    IN  told[Len(queue)]
Queue == (IF coreThread.running = NoTask THEN <<>> ELSE <<coreThread.running>>) \o coreThread.tasks
Waiting == TokensOf(Queue)

\* Every command runs once, in the order given, however slow the thread was
\* and however often the source was recreated; none is left when it ends.
EveryCommandOnce == coreThread.ran \o Waiting = source.sent

\* Update that saw its task done reports a state after its own command.
UpdateReportsItsCommand == (source.pc = "idle" /\ source.current) => source.seen = Len(source.sent)

\* The delay never runs under another live scene than the one it started on.
SceneHeld == DelayOn(delayMode) => delayMode.scene = delayMode.started

\* The fill timer belongs to the fill window that is open, and there is one
\* whenever a window is.
TimerFollowsFill ==
    /\ coreThread.timer.armed <=> delayMode.state = "filling"
    /\ coreThread.timer.armed => coreThread.timer.generation = delayMode.generation

\* What the host program asks lands (core-host.cpp Update, RunAndWait, Apply,
\* Run): commands once and in order, status true, scene and timer kept.
HostCommandsLand ==
    CoreTypeOK /\ EveryCommandOnce /\ UpdateReportsItsCommand /\ SceneHeld /\ TimerFollowsFill
=============================================================================
