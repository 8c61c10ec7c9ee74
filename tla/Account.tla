------------------------------ MODULE Account ------------------------------
(* The sign-in: the token store (token-store.cpp), the calls that use and    *)
(* renew its token (auth-client.cpp), and the state the dock shows            *)
(* (auth-manager.cpp). Calls run on their own threads; their results are      *)
(* posted to the UI thread and applied there one by one, in order. The server *)
(* may answer, refuse, rotate a token and lose its answer at any moment, the  *)
(* user may sign out meanwhile, and OBS may be closed and started again.      *)
EXTENDS Integers, Sequences, FiniteSets

CONSTANTS
    MaxTokens,    \* tokens the server issues (bound)
    CallPlaces,   \* calls outstanding at once (bound): 1..n
    MaxLogins,    \* sign-ins the user starts (bound)
    MaxLosses,    \* lost answers, failed writes, restarts and closed dialogs (bound)
    CanRotate     \* whether calls that renew tokens are made

VARIABLES
    tokens,  \* TokenStore: the token in memory and on disk, sign-outs counted
    auth,    \* AuthManager's members, UI thread only
    calls,   \* the jobs: what each is about to do next
    posted,  \* results posted to the UI thread, oldest first
    web      \* the server and the user: tokens, links, sign-outs
accountVars == <<tokens, auth, calls, posted, web>>

None == 0
Tokens == 1..MaxTokens
Logins == 1..MaxLogins
NoCall == [kind |-> "none", pc |-> "none", token |-> None, epoch |-> 0,
           attempt |-> 0, after |-> "none", gone |-> FALSE]
Call(kind, pc, epoch, attempt) ==
    [NoCall EXCEPT !.kind = kind, !.pc = pc, !.epoch = epoch, !.attempt = attempt]
News(kind, attempt, status) ==
    [kind |-> kind, attempt |-> attempt, status |-> status]
SignedOut == [session |-> "none", inactive |-> FALSE, attempt |-> 0,
              starting |-> FALSE, link |-> None, timer |-> FALSE, inFlight |-> FALSE]

FreePlaces == {c \in CallPlaces : calls[c].kind = "none"}
Place == CHOOSE c \in FreePlaces : \A d \in FreePlaces : c <= d
Started(call) ==
    /\ FreePlaces # {}
    /\ calls' = [calls EXCEPT ![Place] = call]
Continues(c, pc) == calls' = [calls EXCEPT ![c].pc = pc]

(* A finished call: its result goes to the UI thread.                       *)
Finished(c, status) ==
    /\ calls' = [calls EXCEPT ![c] = NoCall]
    /\ posted' = Append(posted, News(calls[c].kind, calls[c].attempt, status))

(* AuthManager::Init with what the disk holds: a stored sign-in is checked,  *)
(* a plain-text one of v0.5.x (token 1 here, until the exchange) migrated.   *)
InitCalls(disk, legacy) ==
    [c \in CallPlaces |->
        IF c # 1 \/ (disk = None /\ legacy = None) THEN NoCall
        ELSE IF disk # None THEN Call("check", "read", 0, 0)
        ELSE Call("exchange", "ask", 0, 0)]
InitAuth(disk, legacy) ==
    [SignedOut EXCEPT !.session = IF disk # None THEN "plugin"
                                  ELSE IF legacy # None THEN "legacy" ELSE "none"]
AccountInit ==
    \E kept \in {"nothing", "legacy", "token"} :
        LET disk == IF kept = "token" THEN 1 ELSE None
            legacy == IF kept = "legacy" THEN 1 ELSE None IN
        /\ tokens = [mem |-> disk, disk |-> disk, epoch |-> 0, legacy |-> legacy, lock |-> 0]
        /\ auth = InitAuth(disk, legacy)
        /\ calls = InitCalls(disk, legacy)
        /\ posted = <<>>
        /\ web = [state |-> [t \in Tokens |-> IF t = 1 /\ kept # "nothing" THEN "valid" ELSE "unissued"],
                  of |-> [t \in Tokens |-> 0],
                  link |-> [l \in Logins |-> "none"],
                  logins |-> 0, outAt |-> -1, losses |-> 0, revoking |-> {}, dropped |-> {}]

(***************************************************************************)
(* TokenStore: every operation under its mutex, so one step each.           *)
(***************************************************************************)
(* WriteLocked may fail: the sign-in then lasts until OBS closes.           *)
Wrote(token, old) == {token} \cup (IF web.losses < MaxLosses THEN {old} ELSE {})
Cleared == [tokens EXCEPT !.mem = None, !.disk = None, !.epoch = tokens.epoch + 1]
SaveIfEpoch_Always(token, epoch) ==
    {[tokens EXCEPT !.mem = token, !.disk = d] : d \in Wrote(token, tokens.disk)}
SaveIfEpoch(token, epoch) ==
    {store \in SaveIfEpoch_Always(token, epoch) : epoch = tokens.epoch}
ClearIfToken(token) == IF tokens.mem # token THEN tokens ELSE Cleared
Reloaded == IF tokens.disk = None THEN tokens ELSE [tokens EXCEPT !.mem = tokens.disk]

(* What the plugin forgets without telling the server, by name: a sign-in    *)
(* approved over another, and an older file read back over a newer token.    *)
Dropping(w, store) ==
    IF tokens.mem # None /\ store.mem # tokens.mem
        THEN [w EXCEPT !.dropped = @ \cup {tokens.mem}] ELSE w
Losing(w, wrote) == IF wrote THEN w ELSE [w EXCEPT !.losses = @ + 1]

(***************************************************************************)
(* The server's side.                                                        *)
(***************************************************************************)
Unissued == {t \in Tokens : web.state[t] = "unissued"}
Fresh == CHOOSE t \in Unissued : \A u \in Unissued : t <= u
Issued(old, login) ==
    [web EXCEPT !.state = [t \in Tokens |-> IF t = Fresh THEN "valid"
                                            ELSE IF t = old THEN "rotated" ELSE @[t]],
                !.of[Fresh] = login]
Ended(token) == [web EXCEPT !.state[token] = "ended"]
Accepts(token) == web.state[token] = "valid"
Lose(w) == [w EXCEPT !.losses = @ + 1]

(* The user ends the session from the web, or the server does: every token of *)
(* that sign-in.                                                              *)
ServerEnds(login) ==
    LET ofIt == {t \in Tokens : web.of[t] = login /\ web.state[t] \in {"valid", "rotated"}} IN
    /\ ofIt # {} /\ web.losses < MaxLosses
    /\ web' = [Lose(web) EXCEPT !.state = [t \in Tokens |-> IF t \in ofIt THEN "ended" ELSE @[t]]]
    /\ UNCHANGED <<tokens, auth, calls, posted>>
UserAnswersLink(l, answer) ==
    /\ web.link[l] = "open"
    /\ web' = [web EXCEPT !.link[l] = answer]
    /\ UNCHANGED <<tokens, auth, calls, posted>>

(***************************************************************************)
(* CallAuthorized, RenewIfDue, Renew, CheckSession: one call's steps.        *)
(* "read" chooses the token, "ask" is with the server, "renew" waits for the *)
(* renew mutex, "renewing" is with the server, "got" holds a new token and   *)
(* "revoke" hands one back. after says what follows a renewal.               *)
(***************************************************************************)
ReadToken(c) ==
    /\ calls[c].pc = "read"
    /\ \/ /\ tokens.mem = None
          /\ Finished(c, IF calls[c].kind = "check" THEN "ended" ELSE "ok")
       \/ /\ tokens.mem # None
          /\ calls' = [calls EXCEPT ![c].pc = "ask", ![c].token = tokens.mem]
          /\ UNCHANGED posted
       \/ /\ tokens.mem # None /\ calls[c].kind = "support" /\ calls[c].after = "none" /\ CanRotate
          /\ calls' = [calls EXCEPT ![c].pc = "renew", ![c].token = tokens.mem, ![c].after = "first"]
          /\ UNCHANGED posted
    /\ UNCHANGED <<tokens, auth, web>>

(* The answer to the call itself.                                            *)
AnswerOk(c) ==
    /\ calls[c].pc = "ask" /\ calls[c].kind \in {"check", "support"}
    /\ Accepts(calls[c].token)
    /\ \/ \E status \in {"ok", "inactive"} : Finished(c, status)
       \/ /\ CanRotate /\ calls[c].kind = "check" /\ tokens.mem # None   \* RenewIfDue after /me
          /\ calls' = [calls EXCEPT ![c].pc = "renew", ![c].token = tokens.mem, ![c].after = "done"]
          /\ UNCHANGED posted
    /\ UNCHANGED <<tokens, auth, web>>
NoAnswer(c) ==
    /\ calls[c].pc = "ask" /\ calls[c].kind \in {"check", "support", "exchange"}
    /\ web.losses < MaxLosses
    /\ Finished(c, "unreachable")
    /\ web' = Lose(web)
    /\ UNCHANGED <<tokens, auth>>
(* 401 token_rotated: what the file holds now, or a renewal; one retry.      *)
AnswerRotated(c) ==
    /\ calls[c].pc = "ask" /\ calls[c].kind \in {"check", "support"}
    /\ calls[c].token # None /\ web.state[calls[c].token] = "rotated"
    /\ IF calls[c].after = "retried"
       THEN Finished(c, IF calls[c].kind = "check" THEN "ended" ELSE "ok") /\ UNCHANGED <<tokens, web>>
       ELSE /\ tokens' = Reloaded
            /\ web' = Dropping(web, Reloaded)
            /\ calls' = [calls EXCEPT ![c] =
                  IF Reloaded.mem \notin {None, calls[c].token}
                      THEN [@ EXCEPT !.token = Reloaded.mem, !.after = "retried"]
                      ELSE [@ EXCEPT !.pc = "renew", !.after = "retry"]]
            /\ UNCHANGED posted
    /\ UNCHANGED auth
AnswerRefused(c) ==
    /\ calls[c].pc = "ask" /\ calls[c].kind \in {"check", "support"}
    /\ web.state[calls[c].token] = "ended"
    /\ tokens' = ClearIfToken(calls[c].token)
    /\ Finished(c, IF calls[c].kind = "check" \/ tokens.mem = calls[c].token THEN "ended" ELSE "ok")
    /\ UNCHANGED <<auth, web>>

(* What a call does once its renewal has ended.                              *)
Renewal(c, status, ended) ==
    LET k == calls[c].kind  a == calls[c].after
        next(pc) == /\ calls' = [calls EXCEPT ![c].pc = pc, ![c].after = "retried"]
                    /\ UNCHANGED posted
        out(s) == Finished(c, s) IN
    IF calls[c].gone
    THEN IF ended \/ status = "renewed" THEN out(IF ended THEN "ended" ELSE "ok")
         ELSE calls' = [calls EXCEPT ![c] = NoCall] /\ UNCHANGED posted
    ELSE CASE a = "first" /\ status = "ended" -> out(IF ended THEN "ended" ELSE "ok")
           [] a = "first" /\ status # "ended" ->
                 calls' = [calls EXCEPT ![c].pc = "read"] /\ UNCHANGED posted
           [] a = "done"  -> out(IF ended THEN "ended" ELSE "ok")
           [] a = "retry" /\ status = "renewed" -> next("read")
           [] OTHER -> out(IF k = "check" \/ ended THEN "ended" ELSE "ok")

RenewStarts(c) ==
    /\ calls[c].pc = "renew" /\ tokens.lock = 0
    /\ \/ /\ tokens.mem = None
          /\ Renewal(c, "ended", FALSE) /\ UNCHANGED tokens
       \/ /\ tokens.mem \notin {None, calls[c].token}
          /\ Renewal(c, "renewed", FALSE) /\ UNCHANGED tokens
       \/ /\ tokens.mem # None /\ tokens.mem = calls[c].token
          /\ tokens' = [tokens EXCEPT !.lock = c]
          /\ calls' = [calls EXCEPT ![c].pc = "renewing", ![c].epoch = tokens.epoch]
          /\ UNCHANGED posted
    /\ UNCHANGED <<auth, web>>

(* The server rotates the token, also one of its grace period, or its answer *)
(* is lost; it may refuse, or not be reached.                                *)
RenewAnswered(c) ==
    /\ calls[c].pc = "renewing"
    /\ web.state[calls[c].token] \in {"valid", "rotated"} /\ Unissued # {}
    /\ web' = Issued(calls[c].token, web.of[calls[c].token])
    /\ calls' = [calls EXCEPT ![c].pc = "got", ![c].token = Fresh]
    /\ UNCHANGED <<tokens, auth, posted>>
RenewFails(c) ==
    /\ calls[c].pc = "renewing" /\ web.losses < MaxLosses
    /\ Renewal(c, "failed", FALSE)
    /\ tokens' = [tokens EXCEPT !.lock = 0]
    /\ web' = Lose(web)
    /\ UNCHANGED auth
RenewAnswerLost(c) ==
    /\ calls[c].pc = "renewing" /\ web.losses < MaxLosses /\ Unissued # {}
    /\ web.state[calls[c].token] = "valid"
    /\ Renewal(c, "failed", FALSE)
    /\ tokens' = [tokens EXCEPT !.lock = 0]
    /\ web' = [Lose(Issued(calls[c].token, web.of[calls[c].token]))
                   EXCEPT !.dropped = @ \cup {Fresh}]
    /\ UNCHANGED auth
RenewRefused(c) ==
    /\ calls[c].pc = "renewing" /\ web.state[calls[c].token] \in {"ended", "rotated"}
    /\ tokens' = [ClearIfToken(calls[c].token) EXCEPT !.lock = 0]
    /\ Renewal(c, "ended", tokens.mem = calls[c].token)
    /\ UNCHANGED <<auth, web>>

(* A token in hand: kept unless the user signed out since it was asked for.  *)
Keep(c) ==
    /\ calls[c].pc = "got"
    /\ LET kept == SaveIfEpoch(calls[c].token, calls[c].epoch)
           k == calls[c].kind IN
       \/ /\ kept = {}
          /\ calls' = [calls EXCEPT ![c].pc = "revoke"]
          /\ tokens' = IF k = "exchange" THEN [tokens EXCEPT !.legacy = None] ELSE tokens
          /\ UNCHANGED <<posted, web>>
       \/ \E store \in kept :
          LET w == Losing(web, store.disk = calls[c].token) IN
          /\ web' = Dropping(w, store)
          /\ CASE k = "poll" -> tokens' = store /\ Finished(c, "approved")
               [] k = "exchange" ->
                     /\ tokens' = [store EXCEPT !.legacy = None]
                     /\ calls' = [calls EXCEPT ![c] = Call("check", "read", 0, 0)]
                     /\ posted' = Append(posted, News("exchange", 0, "migrated"))
               [] OTHER -> tokens' = [store EXCEPT !.lock = 0] /\ Renewal(c, "renewed", FALSE)
    /\ UNCHANGED auth
Revoke(c) ==
    /\ calls[c].pc = "revoke"
    /\ \/ web' = Ended(calls[c].token)
       \/ /\ web.losses < MaxLosses
          /\ web' = [Lose(web) EXCEPT !.dropped = @ \cup {calls[c].token}]
    /\ CASE calls[c].kind = "poll" -> Finished(c, "signedout") /\ UNCHANGED tokens
         [] calls[c].kind = "exchange" -> Finished(c, "signedout") /\ UNCHANGED tokens
         [] OTHER -> tokens' = [tokens EXCEPT !.lock = 0] /\ Renewal(c, "ended", FALSE)
    /\ UNCHANGED auth
(* The revocation a sign-out sends belongs to no one: only OBS closing ends it. *)
Revoked(t) ==
    /\ t \in web.revoking
    /\ \/ web' = [Ended(t) EXCEPT !.revoking = @ \ {t}]
       \/ /\ web.losses < MaxLosses
          /\ web' = [Lose(web) EXCEPT !.revoking = @ \ {t}, !.dropped = @ \cup {t}]
    /\ UNCHANGED <<tokens, auth, calls, posted>>

(* ExchangeLegacy: a new token, 409 (the old one is a plugin token already),  *)
(* or 401.                                                                    *)
ExchangeAnswered(c) ==
    /\ calls[c].kind = "exchange" /\ calls[c].pc = "ask"
    /\ IF tokens.legacy = None THEN Finished(c, "ended") /\ UNCHANGED <<tokens, web>>
       ELSE \/ /\ web.state[1] = "valid" /\ Unissued # {}
               /\ web' = Issued(1, web.of[1])
               /\ calls' = [calls EXCEPT ![c].pc = "got", ![c].token = Fresh]
               /\ UNCHANGED <<tokens, posted>>
            \/ /\ web.state[1] = "valid"
               /\ calls' = [calls EXCEPT ![c].pc = "got", ![c].token = 1]
               /\ UNCHANGED <<tokens, posted, web>>
            \/ /\ web.state[1] # "valid"
               /\ tokens' = [tokens EXCEPT !.legacy = None]
               /\ Finished(c, "ended") /\ UNCHANGED web
    /\ UNCHANGED auth

(***************************************************************************)
(* Signing in: the start call, the link, the polls.                          *)
(***************************************************************************)
StartLogin ==
    /\ auth.session = "none" /\ ~auth.starting /\ auth.link = None
    /\ web.logins < MaxLogins
    /\ auth' = [auth EXCEPT !.attempt = @ + 1, !.starting = TRUE]
    /\ web' = [web EXCEPT !.logins = @ + 1]
    /\ Started(Call("start", "ask", 0, auth.attempt + 1))
    /\ UNCHANGED <<tokens, posted>>
StartAnswered(c) ==
    /\ calls[c].kind = "start"
    /\ \/ /\ web' = [web EXCEPT !.link[web.logins] = "open"]
          /\ Finished(c, "ok")
       \/ /\ web.losses < MaxLosses /\ web' = Lose(web) /\ Finished(c, "failed")
    /\ UNCHANGED <<tokens, auth>>

NoLink(a) == [a EXCEPT !.link = None, !.timer = FALSE]      \* StopPolling
PollOnce ==
    /\ auth.timer /\ auth.link # None
    /\ \/ auth' = NoLink(auth) /\ UNCHANGED calls              \* the link's time is over
       \/ /\ ~auth.inFlight
          /\ auth' = [auth EXCEPT !.timer = FALSE, !.inFlight = TRUE]
          /\ Started([Call("poll", "ask", tokens.epoch, auth.attempt) EXCEPT !.token = auth.link])
    /\ UNCHANGED <<tokens, posted, web>>
PollAnswered(c) ==
    LET l == calls[c].token IN
    /\ calls[c].kind = "poll" /\ calls[c].pc = "ask"
    /\ CASE web.link[l] = "open" -> Finished(c, "pending") /\ UNCHANGED web
         [] web.link[l] = "denied" -> Finished(c, "denied") /\ UNCHANGED web
         [] web.link[l] = "used" -> Finished(c, "expired") /\ UNCHANGED web
         [] web.link[l] = "approved" /\ Unissued # {} ->
              /\ web' = [Issued(None, l) EXCEPT !.link[l] = "used"]
              /\ calls' = [calls EXCEPT ![c].pc = "got", ![c].token = Fresh]
              /\ UNCHANGED posted
         [] OTHER -> FALSE
    /\ UNCHANGED <<tokens, auth>>
PollAnswerLost(c) ==
    LET l == calls[c].token IN
    /\ calls[c].kind = "poll" /\ calls[c].pc = "ask" /\ web.losses < MaxLosses
    /\ Finished(c, "pending")
    /\ web' = IF web.link[l] = "approved" /\ Unissued # {}
                THEN [Lose(Issued(None, l)) EXCEPT !.link[l] = "used", !.dropped = @ \cup {Fresh}]
                ELSE Lose(web)
    /\ UNCHANGED <<tokens, auth>>

CancelLogin ==
    /\ auth.starting \/ auth.link # None
    /\ auth' = [NoLink(auth) EXCEPT !.attempt = @ + 1, !.starting = FALSE]
    /\ UNCHANGED <<tokens, calls, posted, web>>

(* Sign out, which the dock offers to a signed-in user: local data first.    *)
RevokedAtLogout ==
    {t \in {tokens.mem} \cup (IF auth.session = "legacy" /\ tokens.mem = None
                                THEN {tokens.legacy} ELSE {}) : t # None}
Logout ==
    /\ auth.session # "none"
    /\ tokens' = [Cleared EXCEPT !.legacy = None]
    /\ auth' = [SignedOut EXCEPT !.attempt = auth.attempt + 1, !.inFlight = auth.inFlight]
    /\ web' = [web EXCEPT !.outAt = web.logins, !.revoking = @ \cup RevokedAtLogout]
    /\ UNCHANGED <<calls, posted>>

(***************************************************************************)
(* Results on the UI thread.                                                 *)
(***************************************************************************)
(* EndSession forgets the stored token whatever it is by now.                *)
SessionOver(a) ==
    /\ tokens' = Cleared
    /\ web' = IF tokens.mem # None /\ Accepts(tokens.mem)
                THEN [web EXCEPT !.dropped = @ \cup {tokens.mem}] ELSE web
    /\ auth' = [a EXCEPT !.session = "none", !.inactive = FALSE]
Checked(a, status) ==
    CASE a.session # "plugin" -> auth' = a /\ UNCHANGED <<tokens, web>>
      [] a.session = "plugin" /\ status = "ended" -> SessionOver(a)
      [] a.session = "plugin" /\ status \in {"ok", "inactive"} ->
            auth' = [a EXCEPT !.inactive = (status = "inactive")] /\ UNCHANGED <<tokens, web>>
      [] OTHER -> auth' = a /\ UNCHANGED <<tokens, web>>

DeliverStart(n) ==
    /\ auth' = IF n.attempt # auth.attempt THEN auth
               ELSE IF n.status = "failed" THEN [auth EXCEPT !.starting = FALSE]
               ELSE [auth EXCEPT !.starting = FALSE, !.link = web.logins, !.timer = TRUE]
    /\ UNCHANGED <<tokens, web, calls>>
DeliverPoll(n) ==
    LET a == [auth EXCEPT !.inFlight = FALSE] IN
    /\ UNCHANGED <<tokens, web>>
    /\ CASE n.status = "signedout" -> auth' = a /\ UNCHANGED calls
         [] n.status = "approved" ->
              /\ auth' = [NoLink(a) EXCEPT !.starting = FALSE, !.session = "plugin", !.inactive = FALSE]
              /\ Started(Call("check", "read", 0, 0))
         [] n.status = "pending" ->
              /\ auth' = IF n.attempt # a.attempt \/ a.link = None THEN a ELSE [a EXCEPT !.timer = TRUE]
              /\ UNCHANGED calls
         [] OTHER ->
              /\ auth' = IF n.attempt # a.attempt \/ a.link = None THEN a ELSE NoLink(a)
              /\ UNCHANGED calls
DeliverExchange(n) ==
    /\ UNCHANGED calls
    /\ CASE auth.session # "legacy" \/ n.status \in {"unreachable", "signedout"} ->
              UNCHANGED <<tokens, auth, web>>
         [] auth.session = "legacy" /\ n.status = "migrated" ->
              auth' = [auth EXCEPT !.session = "plugin"] /\ UNCHANGED <<tokens, web>>
         [] OTHER -> SessionOver(auth)
(* ApplyAuthEvents: what a support call, or a renewal nobody waits for, saw. *)
DeliverSupport(n) ==
    /\ UNCHANGED calls
    /\ CASE n.status = "ended" /\ auth.session # "none" -> SessionOver(auth)
         [] n.status = "inactive" -> auth' = [auth EXCEPT !.inactive = TRUE] /\ UNCHANGED <<tokens, web>>
         [] OTHER -> UNCHANGED <<tokens, auth, web>>
Deliver ==
    /\ posted # <<>>
    /\ LET n == posted[1] IN
       \/ n.kind = "check" /\ Checked(auth, n.status) /\ UNCHANGED calls
       \/ n.kind = "start" /\ DeliverStart(n)
       \/ n.kind = "poll" /\ DeliverPoll(n)
       \/ n.kind = "exchange" /\ DeliverExchange(n)
       \/ n.kind = "support" /\ DeliverSupport(n)
    /\ posted' = Tail(posted)

(***************************************************************************)
(* The dialog's calls, and OBS closing.                                      *)
(***************************************************************************)
SupportCall ==
    /\ auth.session = "plugin" /\ CanRotate
    /\ \A c \in CallPlaces : calls[c].kind # "support"      \* one request at a time (Ask's busy_)
    /\ \A i \in DOMAIN posted : posted[i].kind # "support"
    /\ Started(Call("support", "read", 0, 0))
    /\ UNCHANGED <<tokens, auth, posted, web>>
(* The dialog closes: its results are dropped; a renewal carries on.          *)
DialogCloses ==
    /\ web.losses < MaxLosses /\ web' = Lose(web)
    /\ \E c \in CallPlaces : calls[c].kind = "support"
    /\ calls' = [c \in CallPlaces |->
          IF calls[c].kind # "support" THEN calls[c]
          ELSE IF calls[c].pc \in {"renew", "renewing", "got", "revoke"}
               THEN [calls[c] EXCEPT !.gone = TRUE] ELSE NoCall]
    /\ UNCHANGED <<tokens, auth, posted>>
(* OBS closes and starts again: memory, jobs and results are gone.            *)
HeldTokens ==
    ({calls[c].token : c \in {c \in CallPlaces : calls[c].pc \in {"got", "revoke"}}}
        \cup web.revoking \cup {tokens.mem}) \ {None, tokens.disk}
Restart ==
    /\ web.losses < MaxLosses
    /\ tokens' = [mem |-> tokens.disk, disk |-> tokens.disk, epoch |-> 0, lock |-> 0,
                  legacy |-> IF tokens.disk # None THEN None ELSE tokens.legacy]
    /\ auth' = InitAuth(tokens.disk, tokens.legacy)
    /\ calls' = InitCalls(tokens.disk, tokens.legacy)
    /\ posted' = <<>>
    /\ web' = [Lose(web) EXCEPT !.revoking = {}, !.dropped = @ \cup HeldTokens]

AccountNext ==
    \/ \E c \in CallPlaces :
          \/ ReadToken(c) \/ AnswerOk(c) \/ NoAnswer(c) \/ AnswerRotated(c) \/ AnswerRefused(c)
          \/ RenewStarts(c) \/ RenewAnswered(c) \/ RenewFails(c) \/ RenewAnswerLost(c) \/ RenewRefused(c)
          \/ Keep(c) \/ Revoke(c) \/ ExchangeAnswered(c)
          \/ StartAnswered(c) \/ PollAnswered(c) \/ PollAnswerLost(c)
    \/ \E t \in Tokens : Revoked(t)
    \/ \E login \in {0} \cup Logins : ServerEnds(login)
    \/ \E l \in Logins, answer \in {"approved", "denied"} : UserAnswersLink(l, answer)
    \/ StartLogin \/ PollOnce \/ CancelLogin \/ Logout
    \/ Deliver \/ SupportCall \/ DialogCloses \/ Restart

(***************************************************************************)
(* Properties.                                                               *)
(***************************************************************************)
AccountTypeOK ==
    /\ tokens.mem \in 0..MaxTokens /\ tokens.disk \in 0..MaxTokens /\ tokens.lock \in {0} \cup CallPlaces
    /\ auth.session \in {"none", "legacy", "plugin"}
    /\ calls \in [CallPlaces -> [kind : {"none", "start", "poll", "check", "support", "exchange"},
                                 pc : {"none", "read", "ask", "renew", "renewing", "got", "revoke"},
                                 token : 0..MaxTokens + MaxLogins, epoch : Nat, attempt : Nat,
                                 after : {"none", "first", "retry", "retried", "done"}, gone : BOOLEAN]]

InHand(t) ==
    \/ \E c \in CallPlaces : calls[c].pc \in {"got", "revoke"} /\ calls[c].token = t
    \/ t \in web.revoking

(* "A sign-out never comes undone" (docs/SPEC.md:573-576), nor does it leave *)
(* anything valid on the server (auth-client.cpp:69-70): a token in memory   *)
(* or on disk is of a sign-in asked for after the last sign-out, and every token   *)
(* the server would still accept is the stored one, in the hands of a call,   *)
(* being revoked, or one of those whose loss is named: a lost answer, OBS     *)
(* closing with it in hand, a second approval over the first.                 *)
SignOutIsFinal ==
    /\ AccountTypeOK
    /\ \A t \in {tokens.mem, tokens.disk} \ {None} : web.of[t] > web.outAt
    /\ \A t \in Tokens :
          (web.state[t] = "valid" /\ t \notin web.dropped) =>
              t \in {tokens.mem, tokens.legacy} \/ InHand(t)

(* docs/SPEC.md:564-566: a 401 ends the session "unless a newer token is      *)
(* stored by then", and `401 token_rotated` does not end it: only a token     *)
(* the server refuses is ever forgotten, unless the user signs out.           *)
NewerSignInStays ==
    [][(tokens.mem # None /\ tokens'.mem = None /\ web'.outAt = web.outAt
            /\ web'.losses = web.losses) =>
          ~Accepts(tokens.mem)]_accountVars
AccountSpec == AccountInit /\ [][AccountNext]_accountVars
=============================================================================
