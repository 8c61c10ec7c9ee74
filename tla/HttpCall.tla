------------------------------ MODULE HttpCall ------------------------------
(***************************************************************************)
(* One HTTP request at a time of a background job (win-http.cpp), and what *)
(* its two users make of the answer (Client::Run of api-client.cpp and the *)
(* update check).                                                          *)
(*                                                                         *)
(* Send runs WinHTTP in its asynchronous mode: it starts a step, waits for *)
(* the step, the cancel event or the deadline, and starts the next.  Three *)
(* parties share the AsyncCall record on Send's stack: the job's thread,   *)
(* WinHTTP's callbacks (external: they come on its threads, whenever it    *)
(* likes, until HANDLE_CLOSING) and whoever cancels the job's token, which *)
(* runs the subscribed callback under the token's lock.                    *)
(*                                                                         *)
(* Sizes are in chunks of kChunkBytes.                                     *)
(***************************************************************************)
EXTENDS Integers, Sequences

CONSTANTS
    Replies,        \* what the server may answer: [status, size, retryAfter, tag]
    MaxResponse,    \* Request::maxResponseBytes, in chunks
    RunningVersion, \* the plugin's version, <<major, minor, patch>>
    MaxRequests     \* bound on the requests the job makes

VARIABLES
    job,        \* the thread in Send and in its caller
    asyncCall,  \* the AsyncCall record, and whether its memory is in use
    winhttp,    \* the request handle and WinHTTP's work on it
    token       \* the job's cancel token
httpVars == <<job, asyncCall, winhttp, token>>

Uses == {"api", "update"}
Steps == {"send", "headers", "data", "read"}
NoReply == [status |-> 0, size |-> 0, retryAfter |-> 0, tag |-> <<0, 0, 0>>]
NoHeader == -1

Answer(error, reply, got) == [error |-> error, reply |-> reply, got |-> got]
NoAnswer == Answer("none yet", NoReply, 0)
NoResult == [outcome |-> "none", transport |-> "none", retryAfter |-> 0, newer |-> FALSE]

NewAsyncCall == [alive |-> TRUE, step |-> FALSE, wake |-> FALSE, closed |-> FALSE,
                 status |-> "none", error |-> "none", bytes |-> 0, connected |-> FALSE]

HttpInit ==
    /\ job = [pc |-> "idle", use |-> "api", awaits |-> "send", deadline |-> "none",
              got |-> 0, answer |-> NoAnswer, result |-> NoResult, requests |-> 0]
    /\ asyncCall = [NewAsyncCall EXCEPT !.alive = FALSE]
    /\ winhttp = [handle |-> "none", doing |-> "nothing", want |-> 0, left |-> 0, reply |-> NoReply]
    /\ token = [cancelled |-> FALSE, locked |-> FALSE, subscribed |-> FALSE]

-----------------------------------------------------------------------------
(* What the callers make of an answer.                                     *)

\* RetryAfterSeconds: whole seconds clamped to 1..3600, 60 without a number.
RetryAfterSeconds(header) ==
    IF header = NoHeader THEN 60 ELSE IF header < 1 THEN 1 ELSE IF header > 3600 THEN 3600 ELSE header

\* Versions compare number by number.
IsNewer(latest, current) ==
    \E i \in 1..3 : latest[i] > current[i] /\ \A k \in 1..(i - 1) : latest[k] = current[k]

\* Client::Run: 2xx is Ok, any other status an HttpError; a call that failed
\* below HTTP keeps its transport error.
RunResult(answer) ==
    IF answer.error # "ok" THEN [NoResult EXCEPT !.outcome = "Network", !.transport = answer.error]
    ELSE [NoResult EXCEPT
            !.outcome = IF answer.reply.status \in 200..299 THEN "Ok" ELSE "HttpError",
            !.transport = "ok",
            !.retryAfter = IF answer.reply.status = 429 THEN RetryAfterSeconds(answer.reply.retryAfter) ELSE 0]

\* CheckForUpdate: only a 200 whose JSON names a version says anything.  A
\* body without a tag, or that is not JSON, has the tag <<>>.
CheckForUpdate(answer) ==
    IF answer.error # "ok" \/ answer.reply.status # 200 \/ answer.reply.tag = <<>>
    THEN [NoResult EXCEPT !.outcome = "unknown"]
    ELSE [NoResult EXCEPT !.outcome = "checked", !.newer = IsNewer(answer.reply.tag, RunningVersion)]

ResultOf(use, answer) == IF use = "api" THEN RunResult(answer) ELSE CheckForUpdate(answer)

-----------------------------------------------------------------------------
(* Send on the job's thread.                                               *)

\* Only the short timeouts of an API call come with an overall deadline.
Deadlines(use) == IF use = "api" THEN {"none", "running"} ELSE {"none"}

\* Send's first lines: a request that is not well formed is refused, and so is
\* any of a cancelled job; neither has made the AsyncCall yet.
RefusedCall(error) ==
    /\ job' = [job EXCEPT !.pc = "returned", !.answer = Answer(error, NoReply, 0)]
    /\ UNCHANGED <<asyncCall, winhttp, token>>

Request(use) ==
    /\ job.pc = "idle" /\ job.requests < MaxRequests
    /\ \E deadline \in Deadlines(use) :
         job' = [job EXCEPT !.pc = "checks", !.use = use, !.deadline = deadline, !.requests = @ + 1,
                            !.got = 0, !.answer = NoAnswer, !.result = NoResult]
    /\ UNCHANGED <<asyncCall, winhttp, token>>

CheckRequest ==
    /\ job.pc = "checks"
    /\ \/ job.use = "api" /\ RefusedCall("Invalid")
       \/ token.cancelled /\ RefusedCall("Cancelled")
       \/ /\ ~token.cancelled
          /\ job' = [job EXCEPT !.pc = "subscribes"]
          /\ asyncCall' = NewAsyncCall
          /\ UNCHANGED <<winhttp, token>>

\* CancelSubscription: the token runs the callback at once when it is already
\* cancelled, and keeps it otherwise; both under the token's lock.
SubscribeCancel ==
    /\ job.pc = "subscribes" /\ ~token.locked
    /\ token' = [token EXCEPT !.subscribed = ~token.cancelled]
    /\ asyncCall' = [asyncCall EXCEPT !.wake = token.cancelled]
    /\ job' = [job EXCEPT !.pc = "opens"]
    /\ UNCHANGED winhttp

\* Session, connection and request handle, any of which may fail; with the
\* callback installed the destructor of RequestHandle waits.
OpenRequest ==
    /\ job.pc = "opens"
    /\ \/ /\ winhttp' = [winhttp EXCEPT !.handle = "open", !.doing = "send", !.left = 0, !.reply = NoReply]
          /\ job' = [job EXCEPT !.pc = "waits", !.awaits = "send"]
       \/ \E handle \in {"none", "bare"} :   \* FailLast before, or right after, the handle opened
            /\ winhttp' = [winhttp EXCEPT !.handle = handle]
            /\ job' = [job EXCEPT !.pc = "leaves", !.answer = Answer("Other", NoReply, 0)]
    /\ UNCHANGED <<asyncCall, token>>

\* StepFailure: a step's time-out before the server was reached is "no connection".
FailedStep(outcome) ==
    CASE outcome = "cancelled" -> "Cancelled"
      [] outcome = "deadline" -> "Timeout"
      [] outcome = "failed" ->
            IF asyncCall.error = "Timeout" /\ ~asyncCall.connected THEN "Connect" ELSE asyncCall.error

\* WaitStep: a cancel wins over a step that completed at the same moment, and
\* a completed step over the deadline.
StepOutcome ==
    IF asyncCall.wake THEN "cancelled"
    ELSE IF asyncCall.step THEN IF asyncCall.status = job.awaits THEN "done" ELSE "failed"
    ELSE "deadline"

Leaves(error) ==
    /\ job' = [job EXCEPT !.pc = "leaves", !.answer = Answer(error, winhttp.reply, job.got)]
    /\ UNCHANGED winhttp

\* WinHTTP takes the next step, or refuses it on the spot (FailLast).
Starts(next, want, got) ==
    \/ /\ winhttp' = [winhttp EXCEPT !.doing = next, !.want = want]
       /\ job' = [job EXCEPT !.awaits = next, !.got = got]
    \/ Leaves("Other")

AfterSend == job.awaits = "send" /\ Starts("headers", 0, 0)

\* The status and Retry-After are read, then the body is asked for.
AfterHeaders == job.awaits = "headers" /\ Starts("data", 0, 0)

AfterData ==
    /\ job.awaits = "data"
    /\ \/ asyncCall.bytes = 0 /\ Leaves("ok")
       \/ asyncCall.bytes > 0 /\ job.got + asyncCall.bytes > MaxResponse /\ Leaves("TooLarge")
       \/ asyncCall.bytes > 0 /\ job.got + asyncCall.bytes <= MaxResponse /\ Starts("read", 1, job.got)

AfterRead == job.awaits = "read" /\ Starts("data", 0, job.got + asyncCall.bytes)

WaitStep ==
    /\ job.pc = "waits"
    /\ asyncCall.wake \/ asyncCall.step \/ job.deadline = "passed"
    /\ asyncCall' = [asyncCall EXCEPT !.step = IF asyncCall.wake THEN @ ELSE FALSE]
    /\ IF StepOutcome = "done"
       THEN AfterSend \/ AfterHeaders \/ AfterData \/ AfterRead
       ELSE Leaves(FailedStep(StepOutcome))
    /\ UNCHANGED token

\* ~RequestHandle: close, and with the callback installed wait for the last one.
CloseRequest ==
    /\ job.pc = "leaves"
    /\ job' = [job EXCEPT !.pc = IF winhttp.handle = "open" THEN "closes" ELSE "unsubscribes"]
    /\ winhttp' = [winhttp EXCEPT !.handle = IF @ = "open" THEN "closing" ELSE "none"]
    /\ UNCHANGED <<asyncCall, token>>

\* Mutant: the destructor closes the handle and goes on.
MayLeave_Unwaited == TRUE
MayLeave == asyncCall.closed
LastCallbackSeen ==
    /\ job.pc = "closes" /\ MayLeave
    /\ job' = [job EXCEPT !.pc = "unsubscribes"]
    /\ UNCHANGED <<asyncCall, winhttp, token>>

\* ~CancelSubscription waits for the token's lock, then the AsyncCall goes.
UnsubscribeCancel ==
    /\ job.pc = "unsubscribes" /\ ~token.locked
    /\ token' = [token EXCEPT !.subscribed = FALSE]
    /\ asyncCall' = [asyncCall EXCEPT !.alive = FALSE]
    /\ job' = [job EXCEPT !.pc = "returned"]
    /\ UNCHANGED winhttp

UseAnswer ==
    /\ job.pc = "returned"
    /\ job' = [job EXCEPT !.pc = "idle", !.result = ResultOf(job.use, job.answer)]
    /\ UNCHANGED <<asyncCall, winhttp, token>>

DeadlinePasses ==
    /\ job.deadline = "running" /\ job.pc \notin {"idle", "returned"}
    /\ job' = [job EXCEPT !.deadline = "passed"]
    /\ UNCHANGED <<asyncCall, winhttp, token>>

-----------------------------------------------------------------------------
(* WinHTTP's threads, as StatusCallback sees them.                         *)

Working == winhttp.handle \in {"open", "closing"} /\ winhttp.doing \in Steps

Connects ==
    /\ Working /\ winhttp.doing = "send" /\ ~asyncCall.connected
    /\ asyncCall' = [asyncCall EXCEPT !.connected = TRUE]
    /\ UNCHANGED <<job, winhttp, token>>

\* StatusCallback's completion cases: the fields first, then the step event.
Signals(status, error, bytes) ==
    asyncCall' = [asyncCall EXCEPT !.status = status, !.error = error, !.bytes = bytes, !.step = TRUE]

Completes ==
    /\ Working /\ asyncCall.connected
    /\ \/ /\ winhttp.doing = "send" /\ Signals("send", "none", 0)
          /\ winhttp' = [winhttp EXCEPT !.doing = "nothing"]
       \/ \E reply \in Replies :
            /\ winhttp.doing = "headers" /\ Signals("headers", "none", 0)
            /\ winhttp' = [winhttp EXCEPT !.doing = "nothing", !.reply = reply, !.left = reply.size]
       \/ \E available \in 0..winhttp.left :
            /\ winhttp.doing = "data" /\ (available = 0 <=> winhttp.left = 0)
            /\ Signals("data", "none", available)
            /\ winhttp' = [winhttp EXCEPT !.doing = "nothing"]
       \/ /\ winhttp.doing = "read" /\ Signals("read", "none", winhttp.want)
          /\ winhttp' = [winhttp EXCEPT !.doing = "nothing", !.left = @ - winhttp.want]
    /\ UNCHANGED <<job, token>>

\* MapError of what REQUEST_ERROR may bring at each point of the connection.
Errors == IF asyncCall.connected THEN {"Timeout", "Tls", "Other"} ELSE {"Resolve", "Connect", "Timeout"}

StepFails ==
    /\ Working
    /\ \E error \in IF winhttp.handle = "closing" THEN {"Cancelled"} ELSE Errors :
         Signals("error", error, 0)
    /\ winhttp' = [winhttp EXCEPT !.doing = "nothing"]
    /\ UNCHANGED <<job, token>>

\* HANDLE_CLOSING, the last callback of the handle.
HandleClosing ==
    /\ winhttp.handle = "closing" /\ winhttp.doing = "nothing"
    /\ asyncCall' = [asyncCall EXCEPT !.closed = TRUE]
    /\ winhttp' = [winhttp EXCEPT !.handle = "none"]
    /\ UNCHANGED <<job, token>>

-----------------------------------------------------------------------------
(* CancelToken::Cancel, on the thread that closes the dialog or OBS.       *)

CancelJob ==
    /\ ~token.cancelled
    /\ token' = [token EXCEPT !.cancelled = TRUE, !.locked = TRUE]
    /\ UNCHANGED <<job, asyncCall, winhttp>>

\* The callback only sets the wake event.
CancelWakes ==
    /\ token.locked
    /\ token' = [token EXCEPT !.locked = FALSE]
    /\ asyncCall' = [asyncCall EXCEPT !.wake = @ \/ token.subscribed]
    /\ UNCHANGED <<job, winhttp>>

HttpNext ==
    \/ \E use \in Uses : Request(use)
    \/ CheckRequest \/ SubscribeCancel \/ OpenRequest \/ WaitStep
    \/ CloseRequest \/ LastCallbackSeen \/ UnsubscribeCancel \/ UseAnswer \/ DeadlinePasses
    \/ Connects \/ Completes \/ StepFails \/ HandleClosing
    \/ CancelJob \/ CancelWakes

-----------------------------------------------------------------------------
HttpTypeOK ==
    /\ job.pc \in {"idle", "checks", "subscribes", "opens", "waits", "leaves", "closes", "unsubscribes", "returned"}
    /\ job.awaits \in Steps /\ job.got \in 0..MaxResponse
    /\ winhttp.handle \in {"none", "bare", "open", "closing"} /\ winhttp.left >= 0

\* Nothing of WinHTTP or of the token may reach the AsyncCall once Send has
\* returned: while a callback can still come, or the cancel callback is
\* subscribed, its memory is in use.
NothingReachesFreedCall ==
    (winhttp.handle \in {"open", "closing"} \/ token.subscribed) => asyncCall.alive

\* A cancelled call is never left waiting for the network.
CancelWakesTheWait ==
    (job.pc = "waits" /\ token.cancelled /\ ~token.locked) => asyncCall.wake

\* What Send reports is what happened: a whole body within the limit, a
\* cancel somebody asked for, a time-out only from a server that was reached
\* or a deadline that passed.
AnswerIsTrue ==
    job.pc \in {"leaves", "closes", "unsubscribes", "returned"} =>
        LET answer == job.answer IN
        /\ answer.error = "ok" =>
              answer.reply \in Replies /\ answer.got = answer.reply.size /\ answer.got <= MaxResponse
        /\ answer.error = "TooLarge" => answer.reply.size > MaxResponse
        /\ answer.error = "Cancelled" => token.cancelled
        /\ answer.error = "Timeout" => asyncCall.connected \/ job.deadline = "passed"

\* An update is announced for a published version above the running one, and
\* a cut or failed answer announces nothing.
Above(latest, current) ==
    \/ latest[1] > current[1]
    \/ latest[1] = current[1] /\ latest[2] > current[2]
    \/ latest[1] = current[1] /\ latest[2] = current[2] /\ latest[3] > current[3]
NoticeIsTrue ==
    job.result.newer =>
        /\ job.use = "update" /\ job.answer.error = "ok" /\ job.answer.reply.status = 200
        /\ job.answer.reply.tag # <<>> /\ Above(job.answer.reply.tag, RunningVersion)

\* A call ends cleanly: cancelled at once, with a true answer, and with nobody
\* left who could touch its memory (win-http.cpp Send and ~RequestHandle).
CallEndsCleanly == HttpTypeOK /\ NothingReachesFreedCall /\ CancelWakesTheWait /\ AnswerIsTrue /\ NoticeIsTrue
=============================================================================
