--------------------------- MODULE Conversation ----------------------------
(* "Report a problem": the conversation with Trigi and the ticket form        *)
(* (support-service.cpp, support-client.cpp, trigi-page.cpp, trigi-states.cpp, *)
(* report-bug-dialog.cpp). Requests are jobs whose answers come back to the    *)
(* UI thread while the user goes on clicking: at most one of Trigi's is in     *)
(* flight, the rest wait in the service's queue. A ticket, the guest form's    *)
(* check and reading the log run beside it. Closing the dialog drops them all. *)
EXTENDS Integers, Sequences, FiniteSets

CONSTANTS
    MaxQuestions,  \* questions the user writes (bound)
    MaxDialogs,    \* times the dialog opens (bound)
    MaxSessions,   \* conversations of one dialog (bound)
    MaxQueued,     \* events waiting when the user makes another (bound)
    Outcomes       \* what the server or the network answers

VARIABLES
    account,  \* what AuthManager says of the sign-in and of Trigi
    service,  \* SupportService, one per dialog
    page,     \* TrigiPage
    dialog    \* ReportBugDialog
conversationVars == <<account, service, page, dialog>>

None == 0
Free(kind) == [kind |-> kind, of |-> None, session |-> None, generation |-> 0, diagnostics |-> FALSE]

(***************************************************************************)
(* The client: StatusFromResult, the states of the page, the dialog's.       *)
(***************************************************************************)
StatusOf(outcome) ==
    CASE outcome \in {"answer", "refused", "unavailable"} -> "ok"
      [] outcome \in {"no connection", "500"} -> "network"
      [] outcome = "took too long" -> "timeout"
      [] outcome = "429" -> "rate limited"
      [] outcome = "401" -> "session ended"
      [] outcome = "403 client_disabled" -> "disabled"
      [] outcome = "403 suspended" -> "inactive"
      [] outcome \in {"404", "409 session_closed"} -> "gone"
      [] outcome = "426" -> "outdated"
      [] OTHER -> "bad response"
ProblemFor(status) ==
    CASE status \in {"network", "timeout", "gone"} -> status
      [] status \in {"rate limited", "session ended", "disabled", "outdated", "inactive"} -> status
      [] OTHER -> "generic"
OpensForm(problem) == problem \in {"disabled", "outdated", "inactive"}

(* Gate(): why Trigi is offered or not.                                      *)
Gate(a, s) ==
    CASE a.signedIn = "no" -> "SignedOut"
      [] a.signedIn = "legacy" -> "LegacySignIn"
      [] a.inactive -> "AccountInactive"
      [] s.disabled -> "Disabled"
      [] s.outdated -> "Outdated"
      [] OTHER -> a.trigi
CanSubmitSignedIn(a) == a.signedIn = "plugin"

(***************************************************************************)
(* SupportService: the queue of requests. Whether a conversation has any      *)
(* question is all that is kept of their count.                               *)
(***************************************************************************)
NewService(notice) ==
    [session |-> None, questions |-> 0, busy |-> FALSE, running |-> Free("none"), queue |-> <<>>,
     generation |-> 0, resolved |-> FALSE, ticket |-> FALSE, disabled |-> FALSE, outdated |-> FALSE,
     retryAfter |-> FALSE, notice |-> notice, includes |-> FALSE, started |-> 0]
HasConversation == service.session # None /\ service.questions > 0
InFlight(s) == s.running.kind # "none"
Enqueue(s, request) ==
    IF InFlight(s) THEN [s EXCEPT !.queue = Append(@, request)] ELSE [s EXCEPT !.running = request]
Finish(s) ==
    IF s.queue = <<>> THEN [s EXCEPT !.running = Free("none")]
    ELSE [s EXCEPT !.running = s.queue[1], !.queue = Tail(@)]

(* NoteStatus; what the answer says of the sign-in goes to AuthManager.       *)
NoteStatus_KeepsGone(s, status) == [s EXCEPT !.retryAfter = @ \/ status = "rate limited"]
NoteStatus(s, status) ==
    CASE status = "rate limited" -> [s EXCEPT !.retryAfter = TRUE]
      [] status = "disabled" -> [s EXCEPT !.disabled = TRUE]
      [] status = "outdated" -> [s EXCEPT !.outdated = TRUE]
      [] status = "gone" -> [s EXCEPT !.session = None, !.questions = 0]
      [] OTHER -> s
ApplyEvents(a, status) ==
    CASE status = "session ended" -> [a EXCEPT !.signedIn = "no", !.inactive = FALSE, !.trigi = "Unknown"]
      [] status = "inactive" -> [a EXCEPT !.inactive = TRUE]
      [] OTHER -> a

Asking(q) ==
    [Free("ask") EXCEPT !.of = q, !.session = service.session, !.generation = service.generation,
                        !.diagnostics = service.session = None /\ service.includes]
Event(kind) == [Free(kind) EXCEPT !.session = service.session]
(* QueueEvent: only of a conversation that exists.                            *)
WithEvent(s, kind) ==
    IF service.session = None \/ account.signedIn # "plugin" THEN s ELSE Enqueue(s, Event(kind))
Forgotten(s) ==
    [s EXCEPT !.generation = @ + 1, !.session = None, !.questions = 0, !.busy = FALSE]

(***************************************************************************)
(* The page.                                                                 *)
(***************************************************************************)
NewPage == [pending |-> None, failed |-> None, summarizing |-> FALSE, problem |-> "none",
            feedback |-> FALSE, offers |-> FALSE, asked |-> 0]
Busy == service.busy \/ page.summarizing \/ page.pending # None
OnTrigi == dialog.at = "trigi"
NoProblem(p) == [p EXCEPT !.problem = "none"]

(* OpenForm: where the draft goes, and whether Trigi stays offered.            *)
Form(d, reason) ==
    [d EXCEPT !.at = "form", !.trigi = @ /\ reason = "user",
              !.route = IF CanSubmitSignedIn(account') THEN "signed in" ELSE "guest",
              !.guestCheck = IF ~CanSubmitSignedIn(account') /\ @ = "no" THEN "asked" ELSE @]
HandsOver(problem) == dialog' = Form(dialog, problem)

(* Send: the service may refuse, each refusal in its own way.                  *)
Send(q, p) ==
    LET gate == Gate(account, service) IN
    CASE gate = "SignedOut" ->
            /\ page' = [p EXCEPT !.failed = q, !.problem = "session ended"]
            /\ UNCHANGED <<account, service, dialog>>
      [] gate \notin {"SignedOut", "Available"} ->
            /\ UNCHANGED <<account, service>>
            /\ page' = p /\ HandsOver(gate)
      [] gate = "Available" /\ service.busy -> UNCHANGED <<account, service, page, dialog>>
      [] gate = "Available" /\ ~service.busy /\ service.retryAfter ->
            /\ page' = [p EXCEPT !.problem = "rate limited"]
            /\ UNCHANGED <<account, service, dialog>>
      [] OTHER ->
            /\ service' = Enqueue([service EXCEPT !.busy = TRUE], Asking(q))
            /\ page' = [p EXCEPT !.pending = q, !.failed = None, !.problem = "none", !.feedback = FALSE]
            /\ UNCHANGED <<account, dialog>>
Submit ==
    /\ OnTrigi /\ ~Busy /\ service.notice /\ page.asked < MaxQuestions
    /\ Send(page.asked + 1, [page EXCEPT !.asked = @ + 1])
Retry ==
    /\ OnTrigi /\ ~Busy /\ page.failed # None
    /\ page.problem \in {"network", "timeout", "gone", "generic", "over"}
    /\ Send(page.failed, page)
AcceptNotice ==
    /\ OnTrigi /\ ~service.notice
    /\ service' = [service EXCEPT !.notice = TRUE]
    /\ UNCHANGED <<account, page, dialog>>
TicksDiagnostics ==
    /\ OnTrigi /\ ~Busy /\ ~HasConversation
    /\ service' = [service EXCEPT !.includes = ~@]
    /\ UNCHANGED <<account, page, dialog>>

(* The answer to a question: the conversation it may have started first, which *)
(* may say itself that Trigi is unavailable: then no question was sent.        *)
AskDone(s, outcome, started, available) ==
    LET r == s.running
        s1 == [s EXCEPT !.busy = FALSE]
        s2 == IF started THEN [s1 EXCEPT !.session = s.started + 1, !.started = @ + 1, !.questions = 0]
              ELSE s1
        s3 == IF (started /\ available) \/ r.session # None THEN [s2 EXCEPT !.questions = 1] ELSE s2 IN
    Finish(IF r.generation # s.generation THEN s1 ELSE NoteStatus(s3, StatusOf(outcome)))
OnReply(outcome) ==
    LET problem == ProblemFor(StatusOf(outcome))
        sent == [page EXCEPT !.pending = None] IN
    IF StatusOf(outcome) = "ok"
    THEN /\ page' = [sent EXCEPT !.feedback = (outcome = "answer"), !.offers = TRUE]
         /\ UNCHANGED dialog
    ELSE IF OpensForm(problem)
    THEN page' = [sent EXCEPT !.failed = page.pending] /\ HandsOver(problem)
    ELSE page' = [sent EXCEPT !.failed = page.pending, !.problem = problem] /\ UNCHANGED dialog
Answered(outcome, started, available) ==
    LET r == service.running IN
    /\ r.kind = "ask"
    /\ started => r.session = None /\ service.started < MaxSessions
    /\ ~available => started /\ outcome = "unavailable"
    /\ StatusOf(outcome) = "ok" => started \/ r.session # None
    /\ StatusOf(outcome) = "gone" => r.session # None
    /\ service' = AskDone(service, outcome, started, available)
    /\ IF r.generation # service.generation THEN UNCHANGED <<account, page, dialog>>
       ELSE account' = ApplyEvents(account, StatusOf(outcome)) /\ OnReply(outcome)

(* "It helped" closes the conversation; "It didn't" offers a ticket.           *)
MayRate == OnTrigi /\ page.feedback /\ ~Busy
Helped(helpful) ==
    /\ MayRate /\ Len(service.queue) < MaxQueued
    /\ LET rated == WithEvent(service, "feedback") IN
       service' = IF helpful THEN Forgotten(WithEvent([rated EXCEPT !.resolved = TRUE], "resolved"))
                  ELSE rated
    /\ page' = [page EXCEPT !.feedback = FALSE]
    /\ UNCHANGED <<account, dialog>>
OpensWebSupport ==
    /\ OnTrigi /\ ~Busy /\ page.offers /\ Len(service.queue) < MaxQueued
    /\ service' = WithEvent(service, "handoff")
    /\ UNCHANGED <<account, page, dialog>>

(* StartTicket: a summary of the conversation, or the user's own words.        *)
StartTicket(handoff) ==
    LET s == IF handoff THEN WithEvent(service, "handoff") ELSE service IN
    /\ OnTrigi /\ ~Busy /\ service.notice /\ Len(service.queue) < MaxQueued
    /\ IF HasConversation /\ account.signedIn = "plugin"
       THEN /\ service' = Enqueue([s EXCEPT !.busy = TRUE],
                             [Free("summary") EXCEPT !.session = service.session,
                                                     !.generation = service.generation])
            /\ page' = [NoProblem(page) EXCEPT !.summarizing = TRUE, !.feedback = FALSE]
            /\ UNCHANGED <<account, dialog>>
       ELSE /\ service' = s
            /\ UNCHANGED <<account, page>> /\ HandsOver("user")
Summarized(outcome) ==
    LET r == service.running
        s == [service EXCEPT !.busy = FALSE]
        problem == ProblemFor(StatusOf(outcome)) IN
    /\ r.kind = "summary" /\ outcome # "refused" /\ outcome # "unavailable"
    /\ service' = Finish(IF r.generation = service.generation THEN NoteStatus(s, StatusOf(outcome)) ELSE s)
    /\ account' = ApplyEvents(account, StatusOf(outcome))
    /\ IF problem = "session ended"
       THEN page' = [page EXCEPT !.summarizing = FALSE, !.problem = problem] /\ UNCHANGED dialog
       ELSE /\ page' = [page EXCEPT !.summarizing = FALSE]
            /\ HandsOver(IF OpensForm(problem) THEN problem ELSE "user")
EventSent(outcome) ==
    /\ service.running.kind \in {"feedback", "resolved", "handoff"}
    /\ account' = ApplyEvents(account, StatusOf(outcome))
    /\ service' = Finish(service)
    /\ UNCHANGED <<page, dialog>>

(* The Retry-After countdown; the cleared view keeps the conversation.         *)
RateLimitOver ==
    /\ service.retryAfter
    /\ service' = [service EXCEPT !.retryAfter = FALSE]
    /\ page' = IF page.problem = "rate limited" THEN [page EXCEPT !.problem = "over"] ELSE page
    /\ UNCHANGED <<account, dialog>>
ClearConversation ==
    /\ OnTrigi /\ ~Busy /\ page.asked > 0
    /\ page' = [page EXCEPT !.feedback = FALSE, !.offers = FALSE, !.failed = None,
                            !.problem = IF @ = "rate limited" THEN @ ELSE "none"]
    /\ UNCHANGED <<account, service, dialog>>

(***************************************************************************)
(* The dialog and its form.                                                  *)
(***************************************************************************)
NoDialog == [at |-> "closed", trigi |-> FALSE, route |-> "none", busy |-> FALSE, disabled |-> FALSE,
             guestCheck |-> "no", log |-> "none", seen |-> "none", attached |-> "none", opened |-> 0]
OpenDialog ==
    /\ dialog.at = "closed" /\ dialog.opened < MaxDialogs
    /\ \E notice \in BOOLEAN : service' = NewService(notice)
    /\ page' = NewPage
    /\ LET available == Gate(account, service') = "Available"
           route == IF CanSubmitSignedIn(account) THEN "signed in" ELSE "guest" IN
       dialog' = [NoDialog EXCEPT !.at = IF available THEN "trigi" ELSE "form",
                                  !.trigi = available, !.route = route, !.opened = dialog.opened + 1,
                                  !.guestCheck = IF route = "guest" THEN "asked" ELSE "no"]
    /\ UNCHANGED account
GoBack ==
    /\ dialog.at = "form" /\ dialog.trigi /\ ~dialog.busy
    /\ dialog' = [dialog EXCEPT !.at = "trigi"]
    /\ UNCHANGED <<account, service, page>>
(* CheckGuestForm's answer: the form may need a human check.                   *)
GuestChecked(webOnly) ==
    /\ dialog.guestCheck = "asked"
    /\ dialog' = [dialog EXCEPT !.guestCheck = "known",
                                !.disabled = @ \/ (webOnly /\ dialog.route = "guest")]
    /\ UNCHANGED <<account, service, page>>
(* ShowLogPreview: the log is read, shown, and may be attached once seen.       *)
PreviewAsked ==
    /\ dialog.at = "form" /\ ~dialog.disabled /\ ~dialog.busy /\ dialog.log = "none"
    /\ dialog' = [dialog EXCEPT !.log = "reading"]
    /\ UNCHANGED <<account, service, page>>
PreviewShown(found) ==
    /\ dialog.log = "reading"
    /\ dialog' = [dialog EXCEPT !.log = IF found THEN "shown" ELSE "missing"]
    /\ UNCHANGED <<account, service, page>>
PreviewClosed ==
    /\ dialog.log = "shown"
    /\ dialog' = [dialog EXCEPT !.log = "seen", !.seen = "seen"]
    /\ UNCHANGED <<account, service, page>>
MayAttach_Always == TRUE
MayAttach == dialog.log = "seen"
SubmitForm(attach) ==
    /\ dialog.at = "form" /\ ~dialog.disabled /\ ~dialog.busy
    /\ attach => MayAttach
    /\ dialog' = [dialog EXCEPT !.busy = TRUE, !.attached = IF attach THEN "log" ELSE "none"]
    /\ UNCHANGED <<account, service, page>>
TicketDone(outcome) ==
    /\ dialog.busy
    /\ account' = IF dialog.route = "signed in" THEN ApplyEvents(account, StatusOf(outcome)) ELSE account
    /\ service' = [service EXCEPT !.ticket = @ \/ StatusOf(outcome) = "ok"]
    /\ dialog' = [dialog EXCEPT !.busy = FALSE,
                                !.at = IF StatusOf(outcome) = "ok" THEN "done" ELSE @,
                                !.disabled = @ \/ (dialog.route = "guest" /\ outcome = "captcha")]
    /\ UNCHANGED page
(* Closing destroys the service: its calls end, their answers are dropped.     *)
CloseDialog ==
    /\ dialog.at # "closed"
    /\ service' = NewService(service.notice)
    /\ page' = NewPage
    /\ dialog' = [NoDialog EXCEPT !.opened = dialog.opened]
    /\ UNCHANGED account

ConversationInit ==
    /\ account \in [signedIn : {"plugin", "legacy", "no"}, inactive : {FALSE},
                    trigi : {"Available", "Disabled", "Outdated", "Unknown"}]
    /\ account.signedIn # "plugin" => account.trigi = "Unknown"
    /\ service = NewService(FALSE) /\ page = NewPage /\ dialog = NoDialog
ConversationNext ==
    \/ OpenDialog \/ CloseDialog \/ GoBack
    \/ Submit \/ Retry \/ AcceptNotice \/ TicksDiagnostics \/ OpensWebSupport
    \/ RateLimitOver \/ ClearConversation \/ PreviewAsked \/ PreviewClosed
    \/ \E yes \in BOOLEAN :
          Helped(yes) \/ StartTicket(yes) \/ GuestChecked(yes) \/ PreviewShown(yes) \/ SubmitForm(yes)
    \/ \E outcome \in Outcomes :
          \/ \E started, available \in BOOLEAN : Answered(outcome, started, available)
          \/ Summarized(outcome) \/ EventSent(outcome) \/ TicketDone(outcome)

(***************************************************************************)
(* Properties.                                                               *)
(***************************************************************************)
Requests == IF InFlight(service) THEN <<service.running>> \o service.queue ELSE <<>>
Outstanding(kinds) == {i \in DOMAIN Requests : Requests[i].kind \in kinds}
ConversationTypeOK ==
    /\ service.busy \in BOOLEAN /\ service.questions \in 0..1
    /\ page.pending \in 0..MaxQuestions /\ page.failed \in 0..MaxQuestions
    /\ dialog.at \in {"closed", "trigi", "form", "done"}

(* docs/SPEC.md:596-598: at most one of Trigi's requests is in flight, and an *)
(* answer goes to the question the page shows as waiting, of the conversation  *)
(* it was asked in: while something waits the page is busy, and what makes it  *)
(* busy is really on its way, so the spinner always ends; events of a          *)
(* conversation go before any question of the next; after "the conversation is *)
(* gone" the next try starts another (trigi-states.hpp:42); the technical data *)
(* goes only with a question that starts a conversation, and only a log that    *)
(* was shown is attached (docs/SPEC.md:646-648).                                *)
AnswersFindTheirQuestion ==
    /\ ConversationTypeOK
    /\ service.queue # <<>> => InFlight(service)
    /\ Cardinality(Outstanding({"ask", "summary"})) <= 1
    /\ service.busy = (Outstanding({"ask", "summary"}) # {})
    /\ page.summarizing = (Outstanding({"summary"}) # {})
    /\ \A i \in Outstanding({"ask"}) :
          /\ Requests[i].of = page.pending
          /\ Requests[i].session = service.session
          /\ Requests[i].generation = service.generation
          /\ Requests[i].diagnostics => Requests[i].session = None
    /\ page.pending # None => Outstanding({"ask"}) # {}
    /\ \A i \in Outstanding({"feedback", "resolved", "handoff"}) :
          Outstanding({"ask", "summary"}) # {} =>
             \A k \in Outstanding({"ask", "summary"}) : i < k
    /\ page.problem = "gone" => service.session = None
    /\ dialog.attached = "log" => dialog.seen = "seen"
ConversationSpec == ConversationInit /\ [][ConversationNext]_conversationVars
=============================================================================
