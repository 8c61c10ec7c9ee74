-------------------------- MODULE BackgroundTasks --------------------------
(* The plugin's background jobs (background-tasks.cpp, cancel-token.cpp,      *)
(* ui-tasks.cpp). A job runs on a thread of its own, subscribes to the cancel *)
(* token of its group while it waits for the network, and posts its result to  *)
(* the registry's queue; the UI thread drains the queue when the waker's       *)
(* queued call arrives. An owner that closes cancels its group, and OBS        *)
(* closing shuts the registry down: both wait for their jobs, for a while.     *)
EXTENDS Integers, Sequences, FiniteSets

CONSTANTS
    Groups,      \* the owners' groups
    Jobs,        \* jobs started (bound)
    NoGroup,     \* a job that belongs to no owner
    WakerThrows  \* whether the queued call may fail to be queued

VARIABLES
    registry,  \* RegistryState
    groups,    \* GroupState and the owner that holds it
    jobs,      \* the jobs' threads
    uiThread   \* what the UI thread is doing
tasksVars == <<registry, groups, jobs, uiThread>>

Owners == Groups \cup {NoGroup}
IdleUi == [at |-> "idle", items |-> <<>>, group |-> NoGroup, rest |-> {}, token |-> NoGroup,
           todo |-> {}, back |-> "idle"]
TasksInit ==
    /\ registry = [shutDown |-> FALSE, wakePending |-> FALSE, queue |-> <<>>, calls |-> 0,
                   stranded |-> FALSE, tokens |-> {}, waited |-> "no", gone |-> FALSE]
    /\ groups = [g \in Groups |-> [cancelled |-> FALSE, waited |-> "no"]]
    /\ jobs = [j \in Jobs |-> [of |-> NoGroup, pc |-> "unstarted", subscribed |-> FALSE,
                               event |-> FALSE, woken |-> FALSE, result |-> "none"]]
    /\ uiThread = IdleUi

(* The token of a job: its group's, or the registry's; `tokens' are those      *)
(* cancelled. A token is locked while its callbacks run, and the groups' tokens *)
(* are cancelled by callbacks of the registry's.                                *)
TokenCancelled(o) == o \in registry.tokens
Locked(o) ==
    \/ uiThread.at = "callbacks" /\ uiThread.token = o
    \/ /\ o = NoGroup /\ uiThread.group = NoGroup /\ TokenCancelled(NoGroup)
       /\ uiThread.at = "callbacks" \/ (uiThread.at = "cancelling" /\ uiThread.rest # {})
Refuses(o) == registry.shutDown \/ (o # NoGroup /\ groups[o].cancelled)
Running(o) == {j \in Jobs : jobs[j].of = o /\ jobs[j].pc \notin {"unstarted", "ended"}}
AllRunning == UNION {Running(o) : o \in Owners}
(* The UI thread runs code of the plugin: no result, a result, or what is left  *)
(* of one that closed something.                                                *)
UiActs == uiThread.at \in {"idle", "delivering", "handling"}

(* StartJob: refused once the group was cancelled or the registry shut down. *)
RunJob(j, o) ==
    /\ UiActs /\ jobs[j].pc = "unstarted" /\ ~Refuses(o)
    /\ jobs' = [jobs EXCEPT ![j].of = o, ![j].pc = "starting"]
    /\ UNCHANGED <<registry, groups, uiThread>>

(***************************************************************************)
(* A job's thread: the network call, cut short by the token, and the post.   *)
(***************************************************************************)
(* Subscribe: a token cancelled already runs the callback at once.            *)
Subscribe(j) ==
    /\ jobs[j].pc = "starting" /\ ~Locked(jobs[j].of)
    /\ jobs' = [jobs EXCEPT ![j].pc = "calling", ![j].event = TRUE,
                            ![j].subscribed = ~TokenCancelled(jobs[j].of),
                            ![j].woken = TokenCancelled(jobs[j].of)]
    /\ UNCHANGED <<registry, groups, uiThread>>
CallEnds(j) ==
    /\ jobs[j].pc = "calling"
    /\ jobs' = [jobs EXCEPT ![j].pc = "leaving"]
    /\ UNCHANGED <<registry, groups, uiThread>>
(* Unsubscribe waits for a callback that is running; then the event it sets   *)
(* may go.                                                                    *)
MayUnsubscribe_NoWait(j) == jobs[j].pc = "leaving"
MayUnsubscribe(j) == jobs[j].pc = "leaving" /\ ~Locked(jobs[j].of)
Unsubscribe(j) ==
    /\ MayUnsubscribe(j)
    /\ jobs' = [jobs EXCEPT ![j].pc = "posting", ![j].subscribed = FALSE, ![j].event = FALSE]
    /\ UNCHANGED <<registry, groups, uiThread>>
(* TaskContext::Post: one queued call until the next drain.                   *)
Queued(r, j, woke) ==
    LET wakes == ~r.wakePending IN
    [r EXCEPT !.queue = Append(@, j), !.wakePending = @ \/ woke,
              !.calls = @ + (IF wakes /\ woke THEN 1 ELSE 0),
              !.stranded = wakes /\ ~woke]
Post(j) ==
    /\ jobs[j].pc = "posting"
    /\ jobs' = [jobs EXCEPT ![j].pc = "returning",
                            ![j].result = IF Refuses(jobs[j].of) THEN "refused" ELSE "queued"]
    /\ IF Refuses(jobs[j].of) THEN UNCHANGED registry
       ELSE \E woke \in {TRUE} \cup (IF WakerThrows /\ ~registry.wakePending THEN {FALSE} ELSE {}) :
                registry' = Queued(registry, j, woke)
    /\ UNCHANGED <<groups, uiThread>>
JobReturns(j) ==
    /\ jobs[j].pc = "returning"
    /\ jobs' = [jobs EXCEPT ![j].pc = "ended"]
    /\ UNCHANGED <<registry, groups, uiThread>>

(***************************************************************************)
(* The UI thread: draining.                                                  *)
(***************************************************************************)
Drain ==
    /\ uiThread.at = "idle" /\ registry.calls > 0
    /\ registry' = [registry EXCEPT !.calls = @ - 1, !.wakePending = FALSE, !.stranded = FALSE,
                                    !.queue = IF registry.shutDown THEN @ ELSE <<>>]
    /\ uiThread' = IF registry.shutDown THEN uiThread
                   ELSE [uiThread EXCEPT !.at = "draining", !.items = registry.queue]
    /\ UNCHANGED <<groups, jobs>>
(* Checked right before each one: an earlier result may have closed the owner *)
(* of this one, or shut the registry down.                                    *)
Delivers_Unchecked(j) == jobs[j].of # NoGroup => ~groups[jobs[j].of].cancelled
Delivers(j) == ~Refuses(jobs[j].of)
NextResult ==
    /\ uiThread.at = "draining"
    /\ IF uiThread.items = <<>> THEN uiThread' = IdleUi /\ UNCHANGED jobs
       ELSE LET j == uiThread.items[1] IN
            /\ uiThread' = [uiThread EXCEPT !.items = Tail(@),
                                            !.at = IF Delivers(j) THEN "delivering" ELSE "draining",
                                            !.group = jobs[j].of]
            /\ jobs' = [jobs EXCEPT ![j].result = IF Delivers(j) THEN "delivered" ELSE "dropped"]
    /\ UNCHANGED <<registry, groups>>
ResultHandled ==
    /\ uiThread.at \in {"delivering", "handling"}
    /\ uiThread' = [uiThread EXCEPT !.at = "draining", !.group = NoGroup]
    /\ UNCHANGED <<registry, groups, jobs>>

(***************************************************************************)
(* Closing an owner and shutting down, also from inside a result.            *)
(***************************************************************************)
DropResults(j) == [jobs[j] EXCEPT !.result = "dropped"]
OfGroup(g) == {registry.queue[i] : i \in {i \in DOMAIN registry.queue : jobs[registry.queue[i]].of = g}}
Dropped(js) == [j \in Jobs |-> IF j \in js THEN DropResults(j) ELSE jobs[j]]
Subscribers(o) == {j \in Jobs : jobs[j].subscribed /\ jobs[j].of = o}
Cancels(o, tokens) ==
    uiThread' = [uiThread EXCEPT !.at = "cancelling", !.group = o, !.rest = tokens \ registry.tokens,
                                 !.back = IF uiThread.at = "idle" THEN "idle" ELSE "handling"]

(* Group::CancelAndWait, from the owner's close or its destructor, after the   *)
(* shutdown too: no result of its own from here on, then the token.            *)
CloseOwner(g) ==
    /\ UiActs /\ groups[g].waited = "no"
    /\ groups' = [groups EXCEPT ![g].cancelled = TRUE]
    /\ jobs' = Dropped(OfGroup(g))
    /\ registry' = [registry EXCEPT !.queue = SelectSeq(@, LAMBDA j : jobs[j].of # g)]
    /\ Cancels(g, {g})
(* Registry::Shutdown, once from a result, and from OBS unloading the module   *)
(* (uitasks::Shutdown), which ends the registry and with it the queued calls.  *)
Shutdown ==
    /\ UiActs /\ ~registry.gone /\ (uiThread.at = "idle" \/ ~registry.shutDown)
    /\ registry' = [registry EXCEPT !.shutDown = TRUE, !.queue = <<>>]
    /\ jobs' = Dropped({registry.queue[i] : i \in DOMAIN registry.queue})
    /\ Cancels(NoGroup, Owners)
    /\ UNCHANGED groups
(* CancelToken::Cancel runs the callbacks under the token's lock, once.       *)
TokenCancels(o) ==
    /\ uiThread.at = "cancelling" /\ o \in uiThread.rest
    /\ NoGroup \in uiThread.rest => o = NoGroup
    /\ registry' = [registry EXCEPT !.tokens = @ \cup {o}]
    /\ uiThread' = [uiThread EXCEPT !.at = "callbacks", !.token = o, !.rest = @ \ {o},
                                    !.todo = Subscribers(o)]
    /\ UNCHANGED <<groups, jobs>>
Callback(j) ==
    /\ uiThread.at = "callbacks" /\ j \in uiThread.todo
    /\ jobs' = [jobs EXCEPT ![j].woken = TRUE]
    /\ uiThread' = [uiThread EXCEPT !.todo = @ \ {j}]
    /\ UNCHANGED <<registry, groups>>
CallbacksDone ==
    /\ uiThread.at = "callbacks" /\ uiThread.todo = {}
    /\ jobs' = [j \in Jobs |-> IF j \in Subscribers(uiThread.token)
                               THEN [jobs[j] EXCEPT !.subscribed = FALSE] ELSE jobs[j]]
    /\ uiThread' = [uiThread EXCEPT !.at = "cancelling"]
    /\ UNCHANGED <<registry, groups>>
(* The wait ends when the jobs have, or at its limit. Once the registry is     *)
(* shut down its own wait was the only one: closing an owner doesn't wait.     *)
WaitOver(limit) ==
    LET o == uiThread.group
        waits == o = NoGroup \/ ~registry.shutDown
        left == IF o = NoGroup THEN AllRunning ELSE Running(o)
        outcome == IF limit THEN "limit" ELSE "ended"
    IN
    /\ uiThread.at = "cancelling" /\ uiThread.rest = {}
    /\ waits => limit \/ left = {}
    /\ IF o = NoGroup
       THEN /\ registry' = IF uiThread.back = "idle"
                            THEN [registry EXCEPT !.waited = outcome, !.gone = TRUE, !.calls = 0]
                            ELSE [registry EXCEPT !.waited = outcome]
            /\ UNCHANGED groups
       ELSE /\ groups' = [groups EXCEPT ![o].waited = IF waits THEN outcome ELSE registry.waited]
            /\ UNCHANGED registry
    /\ uiThread' = [uiThread EXCEPT !.at = uiThread.back, !.group = NoGroup, !.token = NoGroup,
                                    !.back = "idle"]
    /\ UNCHANGED jobs

TasksNext ==
    \/ \E j \in Jobs :
          \/ \E o \in Owners : RunJob(j, o)
          \/ Subscribe(j) \/ CallEnds(j) \/ Unsubscribe(j) \/ Post(j) \/ JobReturns(j) \/ Callback(j)
    \/ \E g \in Groups : CloseOwner(g)
    \/ Drain \/ NextResult \/ ResultHandled
    \/ \E o \in Owners : TokenCancels(o)
    \/ Shutdown \/ CallbacksDone
    \/ \E limit \in BOOLEAN : WaitOver(limit)

(***************************************************************************)
(* Properties.                                                               *)
(***************************************************************************)
TasksTypeOK ==
    /\ registry.calls \in Nat /\ uiThread.todo \subseteq Jobs
    /\ jobs \in [Jobs -> [of : Owners, subscribed : BOOLEAN, event : BOOLEAN, woken : BOOLEAN,
                          pc : {"unstarted", "starting", "calling", "leaving", "posting", "returning", "ended"},
                          result : {"none", "queued", "refused", "delivered", "dropped"}]]

(* background-tasks.hpp and ui-tasks.hpp: a result never reaches an owner that *)
(* was closed, nor anything once the registry was shut down, by an earlier     *)
(* result of the same drain too; a result that waits in the queue has a call on *)
(* its way (unless Qt could not queue it) and is in one place; a cancellation  *)
(* only wakes jobs whose event still exists, and misses no call in flight; and *)
(* a shutdown or a close whose wait did not end at its limit leaves no job of  *)
(* its own running, now or later, a close after the shutdown included, which   *)
(* does not wait itself.                                                       *)
OwnersGetTheirResults ==
    /\ TasksTypeOK
    /\ uiThread.at = "delivering" => ~Refuses(uiThread.group)
    /\ registry.queue # <<>> => registry.calls > 0 \/ registry.stranded
    /\ \A j \in uiThread.todo : jobs[j].event
    /\ \A j \in Jobs : jobs[j].pc = "calling" /\ TokenCancelled(jobs[j].of) =>
          jobs[j].woken \/ Locked(jobs[j].of)
    /\ \A j \in Jobs : jobs[j].result = "queued" =>
          \/ \E i \in DOMAIN registry.queue : registry.queue[i] = j
          \/ \E i \in DOMAIN uiThread.items : uiThread.items[i] = j
    /\ registry.gone => registry.queue = <<>> /\ registry.calls = 0
    /\ registry.waited = "ended" => AllRunning = {}
    /\ \A g \in Groups : groups[g].waited = "ended" => Running(g) = {}
TasksSpec == TasksInit /\ [][TasksNext]_tasksVars
=============================================================================
