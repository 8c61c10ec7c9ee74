--------------------------- MODULE HostLinksProofs ---------------------------
(***************************************************************************)
(* Theorems about the plugin's two links to the outside, as MCHostParts    *)
(* runs them: the account (Account) and the host program of the core build *)
(* (CoreHost).  They stand apart from HostPartsProofs for their length.    *)
(*                                                                         *)
(* A sign-out is final, for any number of tokens, sign-ins and calls at    *)
(* once.  The invariant says of every place a token can be in (memory,     *)
(* disk, a plain-text file, the calls under way, the news posted to the    *)
(* UI) where it comes from.  What the store holds was asked for after the  *)
(* last sign-out (StoreOK); a call or a piece of news that is older has an *)
(* epoch, or an attempt, that is no longer the present one, so it cannot   *)
(* write (CallsOK, PostedOK); and a token still valid that was asked for   *)
(* before the sign-out is one the program lost, or is about to revoke      *)
(* (Accounted).  Epochs and attempts only grow, but for a restart, which   *)
(* ends every call (Onward).                                               *)
(*                                                                         *)
(* What the host program asks lands, for any number of calls.  The         *)
(* invariant relates the queue to the calls (QueueOK): the commands run,   *)
(* then those left in it, are those sent, and the calls left are later     *)
(* than the last one done, so a call that saw its task done has no command *)
(* left (NothingLeft) and reports a state after its own (ReportOK).  The   *)
(* timer is as the last notice left it (FillOK), and the scene can only be *)
(* changed where no delay runs (OnStarted).                                *)
(***************************************************************************)
EXTENDS MCHostParts, FiniteSetTheorems, WellFoundedInduction, TLAPS

partsVars == <<part, vars, signInVars, tasksVars, supportVars, httpVars, coreVars, dockVars,
               scenesVars, outputsVars, sessionVars>>

\* A step is one of the part that runs, and leaves the others alone.
LEMMA PartSteps ==
    ASSUME [PartsNext]_partsVars
    PROVE  /\ part' = part
           /\ part = "signIn" => [SignIn!AccountNext]_signInVars
           /\ part = "core" => [Core!CoreNext]_coreVars
BY Zenon DEF PartsNext, partsVars, signInVars, tasksVars, supportVars, httpVars, coreVars, dockVars,
   scenesVars, outputsVars, sessionVars

\* A set of naturals has a least one: what the inductions below stand on.
LEMMA LeastName ==
    ASSUME NEW S, S \subseteq Nat, S # {}
    PROVE  \E m \in S : \A n \in S : m <= n
<1> DEFINE R == {p \in Nat \X Nat : p[1] < p[2]}
<1>1. IsWellFoundedOn(R, Nat)
  BY NatLessThanWellFounded, Zenon DEF OpToRel
<1>2. PICK x \in S : \A y \in S : ~(<<y, x>> \in R)
  BY <1>1, WFMin, Zenon
<1>3. ASSUME NEW y \in S PROVE x <= y
  <2>1. <<y, x>> \notin R
    BY <1>2
  <2> QED
    BY <2>1
<1> QED
  BY <1>3

-----------------------------------------------------------------------------
(* The sign-in.                                                            *)

Issue(w, t) == t \in SignIn!Tokens /\ w.state[t] # "unissued"

TokenStores == [mem : 0..MaxTokens, disk : 0..MaxTokens, epoch : Nat, legacy : {0, 1},
                lock : {0} \cup CallPlaces]
SignIns == [session : {"none", "legacy", "plugin"}, inactive : BOOLEAN, attempt : Nat, starting : BOOLEAN,
            link : {0} \cup SignIn!Logins, timer : BOOLEAN, inFlight : BOOLEAN]
CallKinds == {"none", "start", "poll", "check", "support", "exchange"}
CallRecords == [kind : CallKinds, pc : {"none", "read", "ask", "renew", "renewing", "got", "revoke"},
                token : 0..MaxTokens + MaxLogins, epoch : Nat, attempt : Nat,
                after : {"none", "first", "retry", "retried", "done"}, gone : BOOLEAN]
Statuses == {"ok", "inactive", "ended", "unreachable", "renewed", "approved", "signedout", "migrated", "pending",
             "denied", "expired", "failed"}
NewsRecords == [kind : CallKinds, attempt : Nat, status : Statuses]
Webs == [state : [SignIn!Tokens -> {"unissued", "valid", "rotated", "ended"}],
         of : [SignIn!Tokens -> 0..MaxLogins], link : [SignIn!Logins -> {"none", "open", "approved", "denied", "used"}],
         logins : 0..MaxLogins, outAt : Int, losses : Nat,
         revoking : SUBSET SignIn!Tokens, dropped : SUBSET SignIn!Tokens]

AccountTypes ==
    /\ tokens \in TokenStores /\ auth \in SignIns /\ calls \in [CallPlaces -> CallRecords]
    /\ posted \in Seq(NewsRecords) /\ web \in Webs

\* What memory and disk hold was asked for after the last sign-out; a plain-text token is alone.
StoreOK ==
    /\ \A t \in {tokens.mem, tokens.disk} \ {0} : Issue(web, t) /\ web.of[t] > web.outAt
    /\ tokens.legacy # 0 =>
          /\ Issue(web, 1) /\ web.of[1] > web.outAt
          /\ tokens.mem = 0 /\ tokens.disk = 0 /\ auth.session = "legacy" /\ auth.link = 0
    /\ auth.link # 0 => auth.link > web.outAt
    /\ web.outAt <= web.logins

ShapeOK(k) ==
    /\ k.kind = "none" => k.pc = "none"
    /\ k.kind = "start" => k.pc = "ask"
    /\ k.kind \in {"poll", "exchange"} => k.pc \in {"ask", "got", "revoke"}
    /\ k.kind \in {"check", "support"} => k.pc # "none"
TokenOK(k, w) ==
    IF k.kind = "poll" /\ k.pc = "ask" THEN k.token \in SignIn!Logins
    ELSE /\ k.token # 0 => Issue(w, k.token)
         /\ k.pc \in {"renew", "renewing", "got", "revoke"} => k.token # 0
         /\ k.pc = "ask" /\ k.kind \in {"check", "support"} => k.token # 0
EpochOK(k, tok, w) ==
    /\ k.epoch <= tok.epoch
    /\ k.epoch = tok.epoch /\ k.pc \in {"renewing", "got"} => w.of[k.token] > w.outAt
    /\ k.epoch = tok.epoch /\ k.kind = "poll" /\ k.pc = "ask" => k.token > w.outAt
StartOK(k, au, w) ==
    k.kind = "start" =>
       /\ w.logins >= 1 /\ k.attempt <= au.attempt
       /\ k.attempt = au.attempt => w.logins > w.outAt
LegacyOK(k, tok, w) ==
    /\ k.kind = "exchange" /\ k.pc = "got" => k.token = 1 \/ w.state[1] \in {"rotated", "ended"}
    /\ tok.legacy # 0 => k.kind \in {"none", "exchange"} /\ k.pc # "revoke"
CallOK(k, tok, au, w) ==
    ShapeOK(k) /\ TokenOK(k, w) /\ EpochOK(k, tok, w) /\ StartOK(k, au, w) /\ LegacyOK(k, tok, w)
NewsOK(n, tok, au, w) ==
    /\ StartOK(n, au, w)
    /\ tok.legacy # 0 => n.kind = "exchange" /\ n.status = "unreachable"

CallsOK == \A c \in CallPlaces : CallOK(calls[c], tokens, auth, web)
PostedOK == \A i \in 1..Len(posted) : NewsOK(posted[i], tokens, auth, web)
Accounted ==
    \A t \in SignIn!Tokens :
        web.state[t] = "valid" /\ t \notin web.dropped => t \in {tokens.mem, tokens.legacy} \/ SignIn!InHand(t)

AccountInvariant == AccountTypes /\ StoreOK /\ CallsOK /\ PostedOK /\ Accounted

\* What every step but a restart keeps: issued tokens stay so and of their sign-in; epochs, attempts and
\* sign-ins grow, and a sign-out begins an epoch and an attempt.
Onward ==
    /\ \A t : Issue(web, t) => Issue(web', t) /\ web'.of[t] = web.of[t]
    /\ web.state[1] \in {"rotated", "ended"} => web'.state[1] \in {"rotated", "ended"}
    /\ tokens.epoch <= tokens'.epoch
    /\ tokens'.epoch = tokens.epoch => web'.outAt = web.outAt
    /\ auth.attempt <= auth'.attempt
    /\ auth'.attempt = auth.attempt => web'.outAt = web.outAt
    /\ web.logins <= web'.logins
    /\ tokens'.legacy # 0 => tokens.legacy # 0
TypesNext == tokens' \in TokenStores /\ auth' \in SignIns /\ web' \in Webs
Replaced(c, k) ==
    /\ calls' \in [CallPlaces -> CallRecords] /\ calls'[c] = k
    /\ \A d \in CallPlaces \ {c} : calls'[d] = calls[d]
Tells ==
    \/ posted' = posted
    \/ posted # <<>> /\ posted' = Tail(posted)
    \/ \E n \in NewsRecords : posted' = Append(posted, n) /\ NewsOK(n, tokens', auth', web')

LEMMA StartOnward ==
    ASSUME AccountTypes, TypesNext, Onward, NEW k, k.attempt \in Nat, StartOK(k, auth, web)
    PROVE  StartOK(k, auth', web')
<1>1. /\ auth.attempt \in Nat /\ auth'.attempt \in Nat
      /\ auth.attempt <= auth'.attempt
      /\ auth'.attempt = auth.attempt => web'.outAt = web.outAt
  BY DEF AccountTypes, TypesNext, SignIns, Onward
<1>2. /\ web.logins \in Int /\ web'.logins \in Int /\ web.outAt \in Int /\ web'.outAt \in Int
      /\ web.logins <= web'.logins
  BY AccountAssumption DEF AccountTypes, TypesNext, Webs, Onward
<1> QED
  BY <1>1, <1>2 DEF StartOK

LEMMA CallOnward ==
    ASSUME AccountTypes, TypesNext, Onward, NEW k \in CallRecords, CallOK(k, tokens, auth, web)
    PROVE  CallOK(k, tokens', auth', web')
<1>1. k.epoch \in Nat /\ k.attempt \in Nat /\ tokens.epoch \in Nat /\ tokens'.epoch \in Nat
  BY DEF CallRecords, AccountTypes, TypesNext, TokenStores
<1>2. ShapeOK(k) /\ TokenOK(k, web) /\ EpochOK(k, tokens, web) /\ StartOK(k, auth, web) /\ LegacyOK(k, tokens, web)
  BY DEF CallOK
<1>3. TokenOK(k, web')
  BY <1>2, Zenon DEF TokenOK, Onward
<1>4. EpochOK(k, tokens', web')
  <2>1. /\ k.epoch <= tokens.epoch /\ tokens.epoch <= tokens'.epoch
        /\ tokens'.epoch = tokens.epoch => web'.outAt = web.outAt
    BY <1>2 DEF EpochOK, Onward
  <2>2. k.epoch <= tokens'.epoch /\ (k.epoch = tokens'.epoch => k.epoch = tokens.epoch /\ web'.outAt = web.outAt)
    BY <1>1, <2>1
  <2>3. k.pc \in {"renewing", "got"} => web'.of[k.token] = web.of[k.token]
    BY <1>2 DEF TokenOK, Onward
  <2> QED
    BY <1>2, <2>2, <2>3, Zenon DEF EpochOK
<1>5. StartOK(k, auth', web')
  BY <1>1, <1>2, StartOnward
<1>6. LegacyOK(k, tokens', web')
  BY <1>2, Zenon DEF LegacyOK, Onward
<1> QED
  BY <1>2, <1>3, <1>4, <1>5, <1>6 DEF CallOK

LEMMA NewsOnward ==
    ASSUME AccountTypes, TypesNext, Onward, NEW n \in NewsRecords, NewsOK(n, tokens, auth, web)
    PROVE  NewsOK(n, tokens', auth', web')
<1>1. n.attempt \in Nat
  BY DEF NewsRecords
<1>2. StartOK(n, auth', web')
  BY <1>1, StartOnward DEF NewsOK
<1> QED
  BY <1>2, Zenon DEF NewsOK, Onward

LEMMA PostedOnward ==
    ASSUME AccountTypes, PostedOK, TypesNext, Onward, Tells
    PROVE  posted' \in Seq(NewsRecords) /\ PostedOK'
<1>1. posted \in Seq(NewsRecords)
  BY DEF AccountTypes
<1>2. ASSUME NEW i \in 1..Len(posted) PROVE NewsOK(posted[i], tokens', auth', web')
  <2>1. posted[i] \in NewsRecords /\ NewsOK(posted[i], tokens, auth, web)
    BY <1>1, <1>2 DEF PostedOK
  <2> QED
    BY <2>1, NewsOnward
<1>3. CASE posted' = posted
  BY <1>1, <1>2, <1>3 DEF PostedOK
<1>4. CASE \E n \in NewsRecords : posted' = Append(posted, n) /\ NewsOK(n, tokens', auth', web')
  <2>1. PICK n \in NewsRecords : posted' = Append(posted, n) /\ NewsOK(n, tokens', auth', web')
    BY <1>4
  <2>2. /\ posted' \in Seq(NewsRecords) /\ Len(posted') = Len(posted) + 1
        /\ \A i \in 1..Len(posted) : posted'[i] = posted[i]
        /\ posted'[Len(posted) + 1] = n /\ Len(posted) \in Nat
    BY <1>1, <2>1
  <2>3. ASSUME NEW i \in 1..Len(posted') PROVE NewsOK(posted'[i], tokens', auth', web')
    <3>1. i \in 1..Len(posted) \/ i = Len(posted) + 1
      BY <2>2
    <3> QED
      BY <1>2, <2>1, <2>2, <3>1
  <2> QED
    BY <2>2, <2>3 DEF PostedOK
<1>5. CASE posted # <<>> /\ posted' = Tail(posted)
  <2>1. /\ posted' \in Seq(NewsRecords) /\ Len(posted') = Len(posted) - 1 /\ Len(posted) \in Nat
        /\ \A i \in 1..Len(posted') : posted'[i] = posted[i + 1]
    BY <1>1, <1>5
  <2>2. ASSUME NEW i \in 1..Len(posted') PROVE NewsOK(posted'[i], tokens', auth', web')
    <3>1. i + 1 \in 1..Len(posted)
      BY <2>1
    <3> QED
      BY <1>2, <2>1, <3>1
  <2> QED
    BY <2>1, <2>2 DEF PostedOK
<1> QED
  BY <1>3, <1>4, <1>5 DEF Tells

\* A step that changes one call: what there is to show of it.
LEMMA OneCallStep ==
    ASSUME AccountInvariant, NEW c \in CallPlaces, NEW k \in CallRecords, Replaced(c, k), TypesNext, Onward,
           CallOK(k, tokens', auth', web'), Tells, StoreOK', Accounted'
    PROVE  AccountInvariant'
<1>1. AccountTypes /\ CallsOK /\ PostedOK
  BY DEF AccountInvariant
<1>2. posted' \in Seq(NewsRecords) /\ PostedOK'
  BY <1>1, PostedOnward
<1>3. CallsOK'
  <2>1. ASSUME NEW d \in CallPlaces PROVE CallOK(calls'[d], tokens', auth', web')
    <3>1. CASE d = c
      BY <3>1 DEF Replaced
    <3>2. CASE d # c
      <4>1. calls'[d] = calls[d] /\ calls[d] \in CallRecords /\ CallOK(calls[d], tokens, auth, web)
        BY <1>1, <3>2 DEF Replaced, AccountTypes, CallsOK
      <4>2. CallOK(calls[d], tokens', auth', web')
        BY <1>1, <4>1, CallOnward
      <4> QED
        BY <4>1, <4>2
    <3> QED
      BY <3>1, <3>2
  <2> QED
    BY <2>1 DEF CallsOK
<1>4. AccountTypes'
  BY <1>2 DEF AccountTypes, TypesNext, Replaced
<1> QED
  BY <1>2, <1>3, <1>4 DEF AccountInvariant

\* A step that leaves the calls alone.
LEMMA NoCallStep ==
    ASSUME AccountInvariant, UNCHANGED calls, TypesNext, Onward, Tells, StoreOK', Accounted'
    PROVE  AccountInvariant'
<1>1. AccountTypes /\ CallsOK /\ PostedOK
  BY DEF AccountInvariant
<1>2. posted' \in Seq(NewsRecords) /\ PostedOK'
  BY <1>1, PostedOnward
<1>3. CallsOK'
  <2>1. ASSUME NEW d \in CallPlaces PROVE CallOK(calls'[d], tokens', auth', web')
    <3>1. calls'[d] = calls[d] /\ calls[d] \in CallRecords /\ CallOK(calls[d], tokens, auth, web)
      BY <1>1 DEF AccountTypes, CallsOK
    <3> QED
      BY <1>1, <3>1, CallOnward
  <2> QED
    BY <2>1 DEF CallsOK
<1>4. AccountTypes'
  BY <1>1, <1>2 DEF AccountTypes, TypesNext
<1> QED
  BY <1>2, <1>3, <1>4 DEF AccountInvariant

InHandOf(k, t) == k.pc \in {"got", "revoke"} /\ k.token = t

LEMMA AccountedByCall ==
    ASSUME Accounted, NEW c \in CallPlaces, NEW k, Replaced(c, k), web.revoking \subseteq web'.revoking,
           \A t \in SignIn!Tokens : web'.state[t] = "valid" /\ t \notin web'.dropped =>
              \/ t \in {tokens'.mem, tokens'.legacy}
              \/ InHandOf(k, t)
              \/ /\ web.state[t] = "valid" /\ t \notin web.dropped /\ t \notin {tokens.mem, tokens.legacy}
                 /\ ~InHandOf(calls[c], t)
    PROVE  Accounted'
<1>1. ASSUME NEW t \in SignIn!Tokens, web'.state[t] = "valid", t \notin web'.dropped
      PROVE  t \in {tokens'.mem, tokens'.legacy} \/ SignIn!InHand(t)'
  <2>1. CASE t \in {tokens'.mem, tokens'.legacy}
    BY <2>1
  <2>2. CASE InHandOf(k, t)
    BY <2>2 DEF InHandOf, Replaced, SignIn!InHand
  <2>3. CASE /\ web.state[t] = "valid" /\ t \notin web.dropped /\ t \notin {tokens.mem, tokens.legacy}
             /\ ~InHandOf(calls[c], t)
    <3>1. SignIn!InHand(t)
      BY <2>3, Zenon DEF Accounted
    <3> QED
      BY <2>3, <3>1, Zenon DEF SignIn!InHand, InHandOf, Replaced
  <2> QED
    BY <1>1, <2>1, <2>2, <2>3
<1> QED
  BY <1>1, Zenon DEF Accounted

LEMMA AccountedAlone ==
    ASSUME Accounted, UNCHANGED calls,
           \A t \in SignIn!Tokens : web'.state[t] = "valid" /\ t \notin web'.dropped =>
              \/ t \in {tokens'.mem, tokens'.legacy} \/ t \in web'.revoking
              \/ /\ web.state[t] = "valid" /\ t \notin web.dropped /\ t \notin {tokens.mem, tokens.legacy}
                 /\ t \in web.revoking => t \in web'.revoking
    PROVE  Accounted'
<1>1. ASSUME NEW t \in SignIn!Tokens, web'.state[t] = "valid", t \notin web'.dropped
      PROVE  t \in {tokens'.mem, tokens'.legacy} \/ SignIn!InHand(t)'
  <2>1. CASE t \in {tokens'.mem, tokens'.legacy} \/ t \in web'.revoking
    BY <2>1, Zenon DEF SignIn!InHand
  <2>2. CASE /\ web.state[t] = "valid" /\ t \notin web.dropped /\ t \notin {tokens.mem, tokens.legacy}
             /\ t \in web.revoking => t \in web'.revoking
    <3>1. SignIn!InHand(t)
      BY <2>2, Zenon DEF Accounted
    <3> QED
      BY <2>2, <3>1, Zenon DEF SignIn!InHand
  <2> QED
    BY <1>1, <2>1, <2>2
<1> QED
  BY <1>1, Zenon DEF Accounted

WebSame == /\ web'.state = web.state /\ web'.of = web.of /\ web'.logins = web.logins /\ web'.outAt = web.outAt
           /\ web.dropped \subseteq web'.dropped /\ web.revoking \subseteq web'.revoking
TokensSame == /\ tokens'.mem = tokens.mem /\ tokens'.disk = tokens.disk /\ tokens'.epoch = tokens.epoch
              /\ tokens'.legacy = tokens.legacy
AuthSame == auth'.session = auth.session /\ auth'.attempt = auth.attempt /\ auth'.link = auth.link
Says ==
    \/ posted' = posted
    \/ \E n \in NewsRecords : posted' = Append(posted, n) /\ NewsOK(n, tokens, auth, web)

LEMMA QuietOnward ==
    ASSUME AccountTypes, TypesNext, web'.state = web.state, web'.of = web.of, web'.logins = web.logins,
           web'.outAt = web.outAt, tokens.epoch <= tokens'.epoch, auth.attempt <= auth'.attempt,
           tokens'.legacy \in {0, tokens.legacy}
    PROVE  Onward
<1>1. web.logins <= web'.logins
  BY AccountAssumption DEF AccountTypes, Webs
<1> QED
  BY <1>1, Zenon DEF Onward, Issue

LEMMA SaysTells == ASSUME AccountInvariant, TypesNext, Onward, Says PROVE Tells
BY NewsOnward, Zenon DEF AccountInvariant, Says, Tells

LEMMA SameIsOnward == ASSUME AccountInvariant, TypesNext, WebSame, TokensSame, AuthSame PROVE Onward
<1>1. tokens.epoch <= tokens'.epoch /\ auth.attempt <= auth'.attempt
  BY DEF AccountInvariant, AccountTypes, TokenStores, SignIns, TokensSame, AuthSame
<1> QED
  BY <1>1, QuietOnward, Zenon DEF AccountInvariant, WebSame, TokensSame

LEMMA StoreSame == ASSUME StoreOK, WebSame, TokensSame, AuthSame PROVE StoreOK'
BY Zenon DEF StoreOK, WebSame, TokensSame, AuthSame, Issue

LEMMA TokensArePositive ==
    /\ 0 \notin SignIn!Tokens /\ 1 \in SignIn!Tokens /\ SignIn!Tokens \subseteq Nat
    /\ 0 \notin SignIn!Logins /\ SignIn!Logins \subseteq Nat
BY AccountAssumption DEF SignIn!Tokens, SignIn!Logins

LEMMA SameStep ==
    ASSUME AccountInvariant, NEW c \in CallPlaces, NEW k \in CallRecords, Replaced(c, k), TypesNext, WebSame,
           TokensSame, AuthSame, CallOK(k, tokens, auth, web), Says, calls[c].pc \notin {"got", "revoke"}
    PROVE  AccountInvariant'
<1>1. Onward
  BY SameIsOnward
<1>2. CallOK(k, tokens', auth', web')
  BY <1>1, CallOnward DEF AccountInvariant
<1>3. StoreOK'
  BY StoreSame DEF AccountInvariant
<1>4. Accounted'
  BY AccountedByCall, Zenon DEF AccountInvariant, InHandOf, WebSame, TokensSame
<1> QED
  BY <1>1, <1>2, <1>3, <1>4, SaysTells, OneCallStep, Zenon

LEMMA NoCallOK ==
    ASSUME AccountInvariant
    PROVE  SignIn!NoCall \in CallRecords /\ CallOK(SignIn!NoCall, tokens, auth, web)
           /\ SignIn!NoCall.pc = "none"
<1>1. tokens.epoch \in Nat
  BY DEF AccountInvariant, AccountTypes, TokenStores
<1>2. SignIn!NoCall \in CallRecords
  BY AccountAssumption DEF SignIn!NoCall, SignIn!None, CallRecords, CallKinds
<1>3. /\ SignIn!NoCall.kind = "none" /\ SignIn!NoCall.pc = "none" /\ SignIn!NoCall.token = 0
      /\ SignIn!NoCall.epoch = 0
  BY DEF SignIn!NoCall, SignIn!None
<1>4. ShapeOK(SignIn!NoCall) /\ TokenOK(SignIn!NoCall, web)
  BY <1>3 DEF ShapeOK, TokenOK
<1>5. EpochOK(SignIn!NoCall, tokens, web)
  BY <1>1, <1>3 DEF EpochOK
<1>6. StartOK(SignIn!NoCall, auth, web) /\ LegacyOK(SignIn!NoCall, tokens, web)
  BY <1>3 DEF StartOK, LegacyOK
<1> QED
  BY <1>2, <1>3, <1>4, <1>5, <1>6 DEF CallOK

LEMMA ReplacedIs ==
    ASSUME AccountInvariant, NEW c \in CallPlaces, NEW k \in CallRecords, calls' = [calls EXCEPT ![c] = k]
    PROVE  Replaced(c, k)
BY DEF AccountInvariant, AccountTypes, Replaced

LEMMA CallFacts ==
    ASSUME AccountInvariant, NEW c \in CallPlaces
    PROVE  calls[c] \in CallRecords /\ CallOK(calls[c], tokens, auth, web)
BY DEF AccountInvariant, AccountTypes, CallsOK

\* A finished call leaves its place and one message.
LEMMA FinishedIs ==
    ASSUME AccountInvariant, NEW c \in CallPlaces, NEW s \in Statuses, SignIn!Finished(c, s),
           tokens.legacy # 0 => calls[c].kind = "exchange" /\ s = "unreachable"
    PROVE  Replaced(c, SignIn!NoCall) /\ Says
<1>1. calls' = [calls EXCEPT ![c] = SignIn!NoCall]
      /\ posted' = Append(posted, SignIn!News(calls[c].kind, calls[c].attempt, s))
  BY DEF SignIn!Finished
<1>2. calls[c] \in CallRecords /\ StartOK(calls[c], auth, web)
  BY CallFacts DEF CallOK
<1>3. PICK n : n = SignIn!News(calls[c].kind, calls[c].attempt, s)
  OBVIOUS
<1>4. n \in NewsRecords /\ n.kind = calls[c].kind /\ n.attempt = calls[c].attempt /\ n.status = s
  BY <1>2, <1>3 DEF SignIn!News, NewsRecords, CallRecords
<1>5. NewsOK(n, tokens, auth, web)
  BY <1>2, <1>4, Zenon DEF NewsOK, StartOK
<1> QED
  BY <1>1, <1>3, <1>4, <1>5, NoCallOK, ReplacedIs, Zenon DEF Says

\* A call that works with a token.
LEMMA WorkerOK ==
    ASSUME NEW k \in CallRecords, NEW tok, NEW au, NEW w, k.kind \in {"check", "support"},
           k.pc \in {"read", "ask", "renew"}, k.token # 0 => Issue(w, k.token), k.pc # "read" => k.token # 0,
           k.epoch <= tok.epoch, tok.legacy = 0
    PROVE  CallOK(k, tok, au, w)
<1>1. ShapeOK(k)
  BY DEF ShapeOK
<1>2. TokenOK(k, w)
  BY DEF TokenOK
<1>3. EpochOK(k, tok, w)
  BY DEF EpochOK
<1>4. StartOK(k, au, w) /\ LegacyOK(k, tok, w)
  BY DEF StartOK, LegacyOK
<1> QED
  BY <1>1, <1>2, <1>3, <1>4 DEF CallOK

LEMMA WorkerFacts ==
    ASSUME AccountInvariant, NEW c \in CallPlaces, calls[c].kind \in {"check", "support"}
    PROVE  /\ tokens.legacy = 0 /\ calls[c].epoch <= tokens.epoch
           /\ calls[c].token # 0 => Issue(web, calls[c].token)
           /\ calls[c].pc \in {"ask", "renew", "renewing", "got", "revoke"} => calls[c].token # 0
<1>1. calls[c] \in CallRecords /\ CallOK(calls[c], tokens, auth, web)
  BY CallFacts
<1>2. tokens.legacy = 0
  BY <1>1, Zenon DEF CallOK, LegacyOK
<1>3. calls[c].epoch <= tokens.epoch
  BY <1>1 DEF CallOK, EpochOK
<1> QED
  BY <1>1, <1>2, <1>3 DEF CallOK, TokenOK

\* What is left of a call whose renewal has ended: nothing, or the call back at its start.
LEMMA RenewalIs ==
    ASSUME AccountInvariant, NEW c \in CallPlaces, calls[c].kind \in {"check", "support"},
           NEW status \in Statuses, NEW ended \in BOOLEAN, SignIn!Renewal(c, status, ended)
    PROVE  /\ Says
           /\ \E k \in CallRecords : /\ Replaced(c, k) /\ CallOK(k, tokens, auth, web)
                                     /\ k.pc \notin {"got", "revoke"}
<1>1. calls[c] \in CallRecords /\ tokens.legacy = 0
  BY CallFacts, WorkerFacts
<1>2. ASSUME NEW s \in Statuses, SignIn!Finished(c, s)
      PROVE  /\ Says
             /\ \E k \in CallRecords : /\ Replaced(c, k) /\ CallOK(k, tokens, auth, web)
                                       /\ k.pc \notin {"got", "revoke"}
  <2>1. Replaced(c, SignIn!NoCall) /\ Says
    BY <1>1, <1>2, FinishedIs
  <2> QED
    BY <2>1, NoCallOK
<1>3. ASSUME calls' = [calls EXCEPT ![c] = SignIn!NoCall], posted' = posted
      PROVE  /\ Says
             /\ \E k \in CallRecords : /\ Replaced(c, k) /\ CallOK(k, tokens, auth, web)
                                       /\ k.pc \notin {"got", "revoke"}
  <2>1. Replaced(c, SignIn!NoCall)
    BY <1>3, ReplacedIs, NoCallOK
  <2> QED
    BY <1>3, <2>1, NoCallOK DEF Says
<1>4. ASSUME NEW a \in {"retried", calls[c].after}, posted' = posted,
             calls' = [calls EXCEPT ![c] = [calls[c] EXCEPT !.pc = "read", !.after = a]]
      PROVE  /\ Says
             /\ \E k \in CallRecords : /\ Replaced(c, k) /\ CallOK(k, tokens, auth, web)
                                       /\ k.pc \notin {"got", "revoke"}
  <2>1. PICK k : k = [calls[c] EXCEPT !.pc = "read", !.after = a]
    OBVIOUS
  <2>2. a \in {"none", "first", "retry", "retried", "done"}
    BY <1>1 DEF CallRecords
  <2>3. k \in CallRecords /\ k.pc = "read" /\ k.kind = calls[c].kind /\ k.token = calls[c].token
        /\ k.epoch = calls[c].epoch
    BY <1>1, <2>1, <2>2 DEF CallRecords
  <2>4. CallOK(k, tokens, auth, web)
    BY <1>1, <2>3, WorkerFacts, WorkerOK
  <2>5. Replaced(c, k)
    BY <1>4, <2>1, <2>3, ReplacedIs
  <2> QED
    BY <1>4, <2>3, <2>4, <2>5 DEF Says
<1>5. [calls EXCEPT ![c].pc = "read", ![c].after = "retried"]
          = [calls EXCEPT ![c] = [calls[c] EXCEPT !.pc = "read", !.after = "retried"]]
  BY DEF AccountInvariant, AccountTypes
<1>6. [calls EXCEPT ![c].pc = "read"]
          = [calls EXCEPT ![c] = [calls[c] EXCEPT !.pc = "read", !.after = calls[c].after]]
  BY <1>1 DEF AccountInvariant, AccountTypes, CallRecords
<1>7. \/ \E s \in {"ended", "ok"} : SignIn!Finished(c, s)
      \/ calls' = [calls EXCEPT ![c] = SignIn!NoCall] /\ posted' = posted
      \/ calls' = [calls EXCEPT ![c].pc = "read"] /\ posted' = posted
      \/ calls' = [calls EXCEPT ![c].pc = "read", ![c].after = "retried"] /\ posted' = posted
  BY DEF SignIn!Renewal
<1>8. CASE \E s \in {"ended", "ok"} : SignIn!Finished(c, s)
  <2>1. PICK s \in {"ended", "ok"} : SignIn!Finished(c, s)
    BY <1>8
  <2>2. s \in Statuses
    BY <2>1 DEF Statuses
  <2> QED
    BY <1>2, <2>1, <2>2, Zenon
<1>9. CASE calls' = [calls EXCEPT ![c].pc = "read"] /\ posted' = posted
  BY <1>4, <1>6, <1>9, Zenon
<1>10. CASE calls' = [calls EXCEPT ![c].pc = "read", ![c].after = "retried"] /\ posted' = posted
  BY <1>4, <1>5, <1>10, Zenon
<1> QED
  BY <1>3, <1>7, <1>8, <1>9, <1>10, Zenon

\* Changes of the web and of a call that no invariant of the store sees.
LEMMA LoseIs ==
    ASSUME AccountInvariant
    PROVE  /\ SignIn!Lose(web) \in Webs
           /\ web' = SignIn!Lose(web) => WebSame
<1>1. web \in Webs
  BY DEF AccountInvariant, AccountTypes
<1>2. SignIn!Lose(web) \in Webs
  BY <1>1 DEF SignIn!Lose, Webs
<1>3. web' = SignIn!Lose(web) => WebSame
  BY <1>1 DEF SignIn!Lose, Webs, WebSame
<1> QED
  BY <1>2, <1>3

LEMMA TypesKept ==
    ASSUME AccountInvariant
    PROVE  /\ tokens \in TokenStores /\ auth \in SignIns /\ web \in Webs
           /\ web' = web => WebSame
           /\ tokens' = tokens => TokensSame
           /\ auth' = auth => AuthSame
BY DEF AccountInvariant, AccountTypes, WebSame, TokensSame, AuthSame

LEMMA FinishStep ==
    ASSUME AccountInvariant, NEW c \in CallPlaces, NEW s \in Statuses, SignIn!Finished(c, s),
           tokens.legacy # 0 => calls[c].kind = "exchange" /\ s = "unreachable",
           TypesNext, WebSame, TokensSame, AuthSame, calls[c].pc \notin {"got", "revoke"}
    PROVE  AccountInvariant'
BY FinishedIs, NoCallOK, SameStep

LEMMA ReadStep == ASSUME AccountInvariant, NEW c \in CallPlaces, SignIn!ReadToken(c) PROVE AccountInvariant'
<1>1. calls[c].pc = "read" /\ UNCHANGED <<tokens, auth, web>>
  BY DEF SignIn!ReadToken
<1>2. calls[c] \in CallRecords /\ calls[c].kind \in {"check", "support"}
  BY <1>1, CallFacts DEF CallOK, ShapeOK, CallRecords, CallKinds
<1>3. tokens.legacy = 0 /\ calls[c].epoch <= tokens.epoch
  BY <1>2, WorkerFacts
<1>4. TypesNext /\ WebSame /\ TokensSame /\ AuthSame
  BY <1>1, TypesKept DEF TypesNext
<1>5. CASE SignIn!Finished(c, IF calls[c].kind = "check" THEN "ended" ELSE "ok")
  <2>1. PICK s \in Statuses : s = IF calls[c].kind = "check" THEN "ended" ELSE "ok"
    BY DEF Statuses
  <2> QED
    BY <1>1, <1>3, <1>4, <1>5, <2>1, FinishStep
<1>6. ASSUME tokens.mem # 0, posted' = posted, NEW pc \in {"ask", "renew"}, NEW a \in {"first", calls[c].after},
             calls' = [calls EXCEPT ![c] = [calls[c] EXCEPT !.pc = pc, !.token = tokens.mem, !.after = a]]
      PROVE  AccountInvariant'
  <2>1. PICK k : k = [calls[c] EXCEPT !.pc = pc, !.token = tokens.mem, !.after = a]
    OBVIOUS
  <2>2. Issue(web, tokens.mem) /\ tokens.mem \in 0..MaxTokens + MaxLogins
    <3>1. tokens.mem \in 0..MaxTokens
      BY DEF AccountInvariant, AccountTypes, TokenStores
    <3>2. Issue(web, tokens.mem)
      BY <1>6 DEF AccountInvariant, StoreOK
    <3> QED
      BY <3>1, <3>2, AccountAssumption
  <2>3. a \in {"none", "first", "retry", "retried", "done"}
    BY <1>2, <1>6 DEF CallRecords
  <2>4. k \in CallRecords /\ k.pc = pc /\ k.kind = calls[c].kind /\ k.token = tokens.mem
        /\ k.epoch = calls[c].epoch
    BY <1>2, <1>6, <2>1, <2>2, <2>3 DEF CallRecords
  <2>5. CallOK(k, tokens, auth, web)
    BY <1>2, <1>3, <1>6, <2>2, <2>4, WorkerOK
  <2>6. Replaced(c, k)
    BY <1>6, <2>1, <2>4, ReplacedIs
  <2> QED
    BY <1>1, <1>4, <1>6, <2>4, <2>5, <2>6, SameStep DEF Says
<1>7. [calls EXCEPT ![c].pc = "ask", ![c].token = tokens.mem]
          = [calls EXCEPT ![c] = [calls[c] EXCEPT !.pc = "ask", !.token = tokens.mem, !.after = calls[c].after]]
  BY <1>2 DEF AccountInvariant, AccountTypes, CallRecords
<1>8. [calls EXCEPT ![c].pc = "renew", ![c].token = tokens.mem, ![c].after = "first"]
          = [calls EXCEPT ![c] = [calls[c] EXCEPT !.pc = "renew", !.token = tokens.mem, !.after = "first"]]
  BY <1>2 DEF AccountInvariant, AccountTypes, CallRecords
<1>9. CASE tokens.mem # 0 /\ calls' = [calls EXCEPT ![c].pc = "ask", ![c].token = tokens.mem] /\ posted' = posted
  BY <1>6, <1>7, <1>9, Zenon
<1>10. CASE /\ tokens.mem # 0 /\ posted' = posted
            /\ calls' = [calls EXCEPT ![c].pc = "renew", ![c].token = tokens.mem, ![c].after = "first"]
  BY <1>6, <1>8, <1>10, Zenon
<1> QED
  BY <1>5, <1>9, <1>10, Zenon DEF SignIn!ReadToken, SignIn!None

LEMMA OkStep == ASSUME AccountInvariant, NEW c \in CallPlaces, SignIn!AnswerOk(c) PROVE AccountInvariant'
<1>1. /\ calls[c].pc = "ask" /\ calls[c].kind \in {"check", "support"} /\ UNCHANGED <<tokens, auth, web>>
      /\ calls[c] \in CallRecords
  BY CallFacts DEF SignIn!AnswerOk
<1>3. tokens.legacy = 0 /\ calls[c].epoch <= tokens.epoch
  BY <1>1, WorkerFacts
<1>4. TypesNext /\ WebSame /\ TokensSame /\ AuthSame
  BY <1>1, TypesKept DEF TypesNext
<1>5. CASE \E status \in {"ok", "inactive"} : SignIn!Finished(c, status)
  <2>1. PICK s \in Statuses : SignIn!Finished(c, s)
    BY <1>5 DEF Statuses
  <2> QED
    BY <1>1, <1>3, <1>4, <2>1, FinishStep
<1>6. CASE /\ tokens.mem # 0 /\ posted' = posted
           /\ calls' = [calls EXCEPT ![c].pc = "renew", ![c].token = tokens.mem, ![c].after = "done"]
  <2>1. PICK k : k = [calls[c] EXCEPT !.pc = "renew", !.token = tokens.mem, !.after = "done"]
    OBVIOUS
  <2>2. Issue(web, tokens.mem) /\ tokens.mem \in 0..MaxTokens + MaxLogins
    <3>1. tokens.mem \in 0..MaxTokens
      BY DEF AccountInvariant, AccountTypes, TokenStores
    <3>2. Issue(web, tokens.mem)
      BY <1>6 DEF AccountInvariant, StoreOK
    <3> QED
      BY <3>1, <3>2, AccountAssumption
  <2>4. k \in CallRecords /\ k.pc = "renew" /\ k.kind = calls[c].kind /\ k.token = tokens.mem
        /\ k.epoch = calls[c].epoch
    BY <1>1, <2>1, <2>2 DEF CallRecords
  <2>5. CallOK(k, tokens, auth, web)
    BY <1>1, <1>3, <1>6, <2>2, <2>4, WorkerOK
  <2>6. calls' = [calls EXCEPT ![c] = k]
    BY <1>1, <1>6, <2>1 DEF AccountInvariant, AccountTypes, CallRecords
  <2>7. Replaced(c, k)
    BY <2>4, <2>6, ReplacedIs
  <2> QED
    BY <1>1, <1>4, <1>6, <2>4, <2>5, <2>7, SameStep DEF Says
<1> QED
  BY <1>5, <1>6, Zenon DEF SignIn!AnswerOk, SignIn!None

LEMMA NoAnswerStep == ASSUME AccountInvariant, NEW c \in CallPlaces, SignIn!NoAnswer(c) PROVE AccountInvariant'
<1>1. /\ calls[c].pc = "ask" /\ calls[c].kind \in {"check", "support", "exchange"} /\ UNCHANGED <<tokens, auth>>
      /\ SignIn!Finished(c, "unreachable") /\ web' = SignIn!Lose(web)
  BY DEF SignIn!NoAnswer
<1>2. tokens.legacy # 0 => calls[c].kind = "exchange"
  BY <1>1, WorkerFacts
<1>3. TypesNext /\ WebSame /\ TokensSame /\ AuthSame
  BY <1>1, TypesKept, LoseIs DEF TypesNext
<1>4. "unreachable" \in Statuses
  BY DEF Statuses
<1> QED
  BY <1>1, <1>2, <1>3, <1>4, FinishStep

\* The tokens of a step that saves, clears or reloads, with a finished or an altered call.
LEMMA FinishOnward ==
    ASSUME AccountInvariant, NEW c \in CallPlaces, NEW s \in Statuses, SignIn!Finished(c, s),
           tokens.legacy # 0 => calls[c].kind = "exchange" /\ s = "unreachable",
           TypesNext, Onward, StoreOK', calls[c].pc \notin {"got", "revoke"}, web.revoking \subseteq web'.revoking,
           \A t \in SignIn!Tokens : web'.state[t] = "valid" /\ t \notin web'.dropped =>
              \/ t \in {tokens'.mem, tokens'.legacy}
              \/ web.state[t] = "valid" /\ t \notin web.dropped /\ t \notin {tokens.mem, tokens.legacy}
    PROVE  AccountInvariant'
<1>1. Replaced(c, SignIn!NoCall) /\ Says
  BY FinishedIs
<1>2. SignIn!NoCall \in CallRecords /\ CallOK(SignIn!NoCall, tokens', auth', web')
  BY NoCallOK, CallOnward DEF AccountInvariant
<1>3. Accounted'
  BY <1>1, AccountedByCall, Zenon DEF AccountInvariant, InHandOf
<1> QED
  BY <1>1, <1>2, <1>3, SaysTells, OneCallStep

LEMMA ReloadedIs ==
    ASSUME AccountInvariant, NEW store, store = SignIn!Reloaded, NEW w, w = SignIn!Dropping(web, store)
    PROVE  /\ store \in TokenStores /\ w \in Webs
           /\ store.mem \in {tokens.mem, tokens.disk} /\ store.disk = tokens.disk
           /\ store.epoch = tokens.epoch /\ store.legacy = tokens.legacy
           /\ w.state = web.state /\ w.of = web.of /\ w.logins = web.logins /\ w.outAt = web.outAt
           /\ w.revoking = web.revoking /\ web.dropped \subseteq w.dropped
           /\ tokens.mem # 0 /\ store.mem # tokens.mem => tokens.mem \in w.dropped
<1>1. tokens \in TokenStores /\ web \in Webs
  BY DEF AccountInvariant, AccountTypes
<1>2. tokens.mem # 0 => tokens.mem \in SignIn!Tokens
  BY DEF AccountInvariant, StoreOK, Issue
<1>3. store \in TokenStores /\ store.mem \in {tokens.mem, tokens.disk} /\ store.disk = tokens.disk
      /\ store.epoch = tokens.epoch /\ store.legacy = tokens.legacy
  BY <1>1 DEF SignIn!Reloaded, TokenStores
<1>4. CASE tokens.mem # 0 /\ store.mem # tokens.mem
  <2>1. w = [web EXCEPT !.dropped = web.dropped \cup {tokens.mem}]
    BY <1>4 DEF SignIn!Dropping, SignIn!None
  <2>2. w \in Webs
    BY <1>1, <1>2, <1>4, <2>1 DEF Webs
  <2>3. /\ w.state = web.state /\ w.of = web.of /\ w.logins = web.logins /\ w.outAt = web.outAt
        /\ w.revoking = web.revoking /\ w.dropped = web.dropped \cup {tokens.mem}
    BY <1>1, <2>1 DEF Webs
  <2> QED
    BY <1>3, <2>2, <2>3
<1>5. CASE ~(tokens.mem # 0 /\ store.mem # tokens.mem)
  <2>1. w = web
    BY <1>5 DEF SignIn!Dropping, SignIn!None
  <2> QED
    BY <1>1, <1>3, <1>5, <2>1
<1> QED
  BY <1>4, <1>5

LEMMA RotatedStep == ASSUME AccountInvariant, NEW c \in CallPlaces, SignIn!AnswerRotated(c) PROVE AccountInvariant'
<1>1. /\ calls[c].pc = "ask" /\ calls[c].kind \in {"check", "support"} /\ auth' = auth
      /\ calls[c] \in CallRecords
  BY CallFacts DEF SignIn!AnswerRotated
<1>2. /\ tokens.legacy = 0 /\ calls[c].epoch <= tokens.epoch /\ calls[c].token # 0
      /\ Issue(web, calls[c].token)
  BY <1>1, WorkerFacts
<1>3. CASE /\ SignIn!Finished(c, IF calls[c].kind = "check" THEN "ended" ELSE "ok")
           /\ UNCHANGED <<tokens, web>>
  <2>1. PICK s \in Statuses : s = IF calls[c].kind = "check" THEN "ended" ELSE "ok"
    BY DEF Statuses
  <2>2. TypesNext /\ WebSame /\ TokensSame /\ AuthSame
    BY <1>1, <1>3, TypesKept DEF TypesNext
  <2> QED
    BY <1>1, <1>2, <1>3, <2>1, <2>2, FinishStep
<1>4. CASE /\ tokens' = SignIn!Reloaded /\ web' = SignIn!Dropping(web, SignIn!Reloaded)
           /\ calls' = [calls EXCEPT ![c] =
                  IF SignIn!Reloaded.mem \notin {0, calls[c].token}
                      THEN [@ EXCEPT !.token = SignIn!Reloaded.mem, !.after = "retried"]
                      ELSE [@ EXCEPT !.pc = "renew", !.after = "retry"]]
           /\ UNCHANGED posted
  <2>1. /\ tokens' \in TokenStores /\ web' \in Webs
        /\ tokens'.mem \in {tokens.mem, tokens.disk} /\ tokens'.disk = tokens.disk
        /\ tokens'.epoch = tokens.epoch /\ tokens'.legacy = tokens.legacy
        /\ web'.state = web.state /\ web'.of = web.of /\ web'.logins = web.logins /\ web'.outAt = web.outAt
        /\ web'.revoking = web.revoking /\ web.dropped \subseteq web'.dropped
        /\ tokens.mem # 0 /\ tokens'.mem # tokens.mem => tokens.mem \in web'.dropped
    BY <1>4, ReloadedIs, Zenon
  <2>2. TypesNext
    BY <1>1, <2>1, TypesKept DEF TypesNext
  <2>3. Onward
    <3>1. tokens.epoch <= tokens'.epoch /\ auth.attempt <= auth'.attempt
      BY <1>1, <2>1 DEF AccountInvariant, AccountTypes, TokenStores, SignIns
    <3> QED
      BY <2>1, <2>2, <3>1, QuietOnward, Zenon DEF AccountInvariant
  <2>4. StoreOK'
    BY <1>1, <1>2, <2>1, Zenon DEF AccountInvariant, StoreOK, Issue
  <2>5. PICK k : k = IF tokens'.mem \notin {0, calls[c].token}
                     THEN [calls[c] EXCEPT !.token = tokens'.mem, !.after = "retried"]
                     ELSE [calls[c] EXCEPT !.pc = "renew", !.after = "retry"]
    OBVIOUS
  <2>6. calls' = [calls EXCEPT ![c] = k]
    BY <1>4, <2>5, Zenon
  <2>7. tokens'.mem \in 0..MaxTokens + MaxLogins /\ (tokens'.mem # 0 => Issue(web', tokens'.mem))
    <3>1. tokens'.mem \in 0..MaxTokens
      BY <2>1 DEF TokenStores
    <3>2. tokens'.mem # 0 => Issue(web', tokens'.mem)
      BY <2>4, Zenon DEF StoreOK
    <3> QED
      BY <3>1, <3>2, AccountAssumption
  <2>8. /\ k \in CallRecords /\ k.pc \in {"ask", "renew"} /\ k.kind = calls[c].kind
        /\ k.token # 0 /\ k.token \in {tokens'.mem, calls[c].token} /\ k.epoch = calls[c].epoch
    BY <1>1, <1>2, <2>5, <2>7 DEF CallRecords
  <2>9. Issue(web', calls[c].token)
    BY <1>2, <2>1 DEF Issue
  <2>10. CallOK(k, tokens', auth', web')
    BY <1>1, <1>2, <2>1, <2>7, <2>8, <2>9, WorkerOK
  <2>11. Replaced(c, k)
    BY <2>6, <2>8, ReplacedIs
  <2>12. Accounted'
    <3>1. ASSUME NEW t \in SignIn!Tokens, web'.state[t] = "valid", t \notin web'.dropped
          PROVE  \/ t \in {tokens'.mem, tokens'.legacy}
                 \/ web.state[t] = "valid" /\ t \notin web.dropped /\ t \notin {tokens.mem, tokens.legacy}
      BY <2>1, <3>1, TokensArePositive
    <3>2. web.revoking \subseteq web'.revoking
      BY <2>1
    <3> QED
      BY <1>1, <2>11, <3>1, <3>2, AccountedByCall, Zenon DEF AccountInvariant, InHandOf
  <2> QED
    BY <1>4, <2>2, <2>3, <2>4, <2>8, <2>10, <2>11, <2>12, OneCallStep DEF Tells
<1> QED
  BY <1>3, <1>4, Zenon DEF SignIn!AnswerRotated, SignIn!None

LEMMA ClearedIs ==
    ASSUME AccountInvariant, NEW old, NEW l \in {tokens.lock, 0}, NEW store,
           store = [SignIn!ClearIfToken(old) EXCEPT !.lock = l]
    PROVE  /\ store \in TokenStores /\ store.legacy = tokens.legacy /\ tokens.epoch <= store.epoch
           /\ tokens.mem # old => store.mem = tokens.mem /\ store.disk = tokens.disk
           /\ tokens.mem = old => store.mem = 0 /\ store.disk = 0
<1>1. tokens \in TokenStores
  BY DEF AccountInvariant, AccountTypes
<1>0. /\ l \in {0} \cup CallPlaces /\ 0 \in 0..MaxTokens /\ 0 \in {0, 1}
      /\ tokens.epoch \in Nat /\ tokens.epoch <= tokens.epoch
  BY <1>1, AccountAssumption DEF TokenStores
<1>2. CASE tokens.mem # old
  <2>1. store = [tokens EXCEPT !.lock = l]
    BY <1>2 DEF SignIn!ClearIfToken
  <2>2. store \in TokenStores
    BY <1>0, <1>1, <2>1 DEF TokenStores
  <2>3. /\ store.legacy = tokens.legacy /\ store.epoch = tokens.epoch /\ store.mem = tokens.mem
        /\ store.disk = tokens.disk
    BY <1>1, <2>1 DEF TokenStores
  <2> QED
    BY <1>0, <1>2, <2>2, <2>3
<1>3. CASE tokens.mem = old
  <2>1. PICK n \in Nat : n = tokens.epoch + 1
    BY <1>1 DEF TokenStores
  <2>2. store = [tokens EXCEPT !.mem = 0, !.disk = 0, !.epoch = n, !.lock = l]
    BY <1>3, <2>1 DEF SignIn!ClearIfToken, SignIn!Cleared, SignIn!None
  <2>3. store \in TokenStores
    BY <1>0, <1>1, <2>2 DEF TokenStores
  <2>4. store.legacy = tokens.legacy /\ store.mem = 0 /\ store.disk = 0 /\ store.epoch = n
    BY <1>1, <2>2 DEF TokenStores
  <2>5. tokens.epoch <= n
    BY <1>1, <2>1 DEF TokenStores
  <2> QED
    BY <1>3, <2>3, <2>4, <2>5
<1> QED
  BY <1>2, <1>3

LEMMA ClearStore ==
    ASSUME AccountInvariant, NEW old, WebSame, AuthSame, tokens'.legacy = tokens.legacy,
           tokens.mem # old => tokens'.mem = tokens.mem /\ tokens'.disk = tokens.disk,
           tokens.mem = old => tokens'.mem = 0 /\ tokens'.disk = 0
    PROVE  StoreOK'
<1>1. StoreOK
  BY DEF AccountInvariant
<1>2. CASE tokens.mem # old
  BY <1>1, <1>2, Zenon DEF StoreOK, WebSame, AuthSame, Issue
<1>3. CASE tokens.mem = old
  BY <1>1, <1>3, Zenon DEF StoreOK, WebSame, AuthSame, Issue
<1> QED
  BY <1>2, <1>3

LEMMA RefusedStep == ASSUME AccountInvariant, NEW c \in CallPlaces, SignIn!AnswerRefused(c) PROVE AccountInvariant'
<1>1. /\ calls[c].pc = "ask" /\ calls[c].kind \in {"check", "support"} /\ auth' = auth /\ web' = web
      /\ calls[c] \in CallRecords /\ web.state[calls[c].token] = "ended"
      /\ tokens' = SignIn!ClearIfToken(calls[c].token)
      /\ SignIn!Finished(c, IF calls[c].kind = "check" \/ tokens.mem = calls[c].token THEN "ended" ELSE "ok")
  BY CallFacts DEF SignIn!AnswerRefused
<1>2. tokens.legacy = 0
  BY <1>1, WorkerFacts
<1>3. PICK s \in Statuses : s = IF calls[c].kind = "check" \/ tokens.mem = calls[c].token THEN "ended" ELSE "ok"
  BY DEF Statuses
<1>4. tokens' = [SignIn!ClearIfToken(calls[c].token) EXCEPT !.lock = tokens.lock]
  BY <1>1 DEF SignIn!ClearIfToken, SignIn!Cleared, AccountInvariant, AccountTypes, TokenStores
<1>5. /\ tokens' \in TokenStores /\ tokens'.legacy = tokens.legacy /\ tokens.epoch <= tokens'.epoch
      /\ tokens.mem # calls[c].token => tokens'.mem = tokens.mem /\ tokens'.disk = tokens.disk
      /\ tokens.mem = calls[c].token => tokens'.mem = 0 /\ tokens'.disk = 0
  BY <1>4, ClearedIs
<1>6. TypesNext /\ WebSame /\ AuthSame
  BY <1>1, <1>5, TypesKept DEF TypesNext
<1>7. Onward
  <2>1. auth.attempt <= auth'.attempt
    BY <1>1 DEF AccountInvariant, AccountTypes, SignIns
  <2> QED
    BY <1>5, <1>6, <2>1, QuietOnward, Zenon DEF AccountInvariant, WebSame
<1>8. StoreOK'
  BY <1>5, <1>6, ClearStore, Zenon
<1>9. \A t \in SignIn!Tokens : web'.state[t] = "valid" /\ t \notin web'.dropped =>
              \/ t \in {tokens'.mem, tokens'.legacy}
              \/ web.state[t] = "valid" /\ t \notin web.dropped /\ t \notin {tokens.mem, tokens.legacy}
  BY <1>1, <1>5
<1> QED
  BY <1>1, <1>2, <1>3, <1>6, <1>7, <1>8, <1>9, FinishOnward

LEMMA Renewing ==
    ASSUME AccountInvariant, NEW c \in CallPlaces, calls[c].pc \in {"renew", "renewing", "read"}
    PROVE  calls[c] \in CallRecords /\ calls[c].kind \in {"check", "support"}
BY CallFacts DEF CallOK, ShapeOK, CallRecords, CallKinds

LEMMA LockSet ==
    ASSUME AccountInvariant, NEW l \in {0} \cup CallPlaces, tokens' = [tokens EXCEPT !.lock = l]
    PROVE  tokens' \in TokenStores /\ TokensSame
BY DEF AccountInvariant, AccountTypes, TokenStores, TokensSame

\* A renewal that ends and leaves the store and the web as they are.
LEMMA RenewalStep ==
    ASSUME AccountInvariant, NEW c \in CallPlaces, calls[c].pc \in {"renew", "renewing"}, NEW status \in Statuses,
           NEW ended \in BOOLEAN, SignIn!Renewal(c, status, ended), TypesNext, WebSame, TokensSame, AuthSame
    PROVE  AccountInvariant'
<1>1. calls[c].kind \in {"check", "support"}
  BY Renewing
<1>2. Says
  BY <1>1, RenewalIs
<1>3. PICK k \in CallRecords : /\ Replaced(c, k) /\ CallOK(k, tokens, auth, web) /\ k.pc \notin {"got", "revoke"}
  BY <1>1, RenewalIs
<1> QED
  BY <1>2, <1>3, SameStep

LEMMA StatusNames == {"ended", "renewed", "failed"} \subseteq Statuses
BY DEF Statuses

LEMMA StartsStep == ASSUME AccountInvariant, NEW c \in CallPlaces, SignIn!RenewStarts(c) PROVE AccountInvariant'
<1>1. calls[c].pc = "renew" /\ auth' = auth /\ web' = web
  BY DEF SignIn!RenewStarts
<1>2. calls[c] \in CallRecords /\ calls[c].kind \in {"check", "support"}
  BY <1>1, Renewing
<1>3. CASE tokens' = tokens /\ SignIn!Renewal(c, "ended", FALSE)
  <2>1. TypesNext /\ WebSame /\ TokensSame /\ AuthSame
    BY <1>1, <1>3, TypesKept DEF TypesNext
  <2> QED
    BY <1>1, <1>3, <2>1, RenewalStep, StatusNames
<1>4. CASE tokens' = tokens /\ SignIn!Renewal(c, "renewed", FALSE)
  <2>1. TypesNext /\ WebSame /\ TokensSame /\ AuthSame
    BY <1>1, <1>4, TypesKept DEF TypesNext
  <2> QED
    BY <1>1, <1>4, <2>1, RenewalStep, StatusNames
<1>5. CASE /\ tokens.mem # 0 /\ tokens.mem = calls[c].token
           /\ tokens' = [tokens EXCEPT !.lock = c]
           /\ calls' = [calls EXCEPT ![c].pc = "renewing", ![c].epoch = tokens.epoch]
           /\ posted' = posted
  <2>1. PICK k : k = [calls[c] EXCEPT !.pc = "renewing", !.epoch = tokens.epoch]
    OBVIOUS
  <2>2. tokens.epoch \in Nat /\ tokens.epoch <= tokens.epoch
    BY DEF AccountInvariant, AccountTypes, TokenStores
  <2>3. k \in CallRecords /\ k.pc = "renewing" /\ k.kind = calls[c].kind /\ k.token = calls[c].token
        /\ k.epoch = tokens.epoch
    BY <1>2, <2>1, <2>2 DEF CallRecords
  <2>4. calls' = [calls EXCEPT ![c] = k]
    BY <1>5, <2>1 DEF AccountInvariant, AccountTypes, CallRecords
  <2>5. Replaced(c, k)
    BY <2>3, <2>4, ReplacedIs
  <2>6. tokens.legacy = 0 /\ Issue(web, calls[c].token)
    BY <1>1, <1>2, WorkerFacts
  <2>7. web.of[tokens.mem] > web.outAt
    BY <1>5 DEF AccountInvariant, StoreOK
  <2>8. CallOK(k, tokens, auth, web)
    <3>1. ShapeOK(k)
      BY <1>2, <2>3 DEF ShapeOK
    <3>2. TokenOK(k, web)
      BY <1>2, <1>5, <2>3, <2>6 DEF TokenOK
    <3>3. EpochOK(k, tokens, web)
      BY <1>5, <2>2, <2>3, <2>7 DEF EpochOK
    <3>4. StartOK(k, auth, web) /\ LegacyOK(k, tokens, web)
      BY <1>2, <2>3, <2>6 DEF StartOK, LegacyOK
    <3> QED
      BY <3>1, <3>2, <3>3, <3>4 DEF CallOK
  <2>9. TypesNext /\ WebSame /\ TokensSame /\ AuthSame
    BY <1>1, <1>5, TypesKept, LockSet DEF TypesNext
  <2> QED
    BY <1>1, <1>5, <2>3, <2>5, <2>8, <2>9, SameStep DEF Says
<1> QED
  BY <1>3, <1>4, <1>5, Zenon DEF SignIn!RenewStarts, SignIn!None

LEMMA FailsStep == ASSUME AccountInvariant, NEW c \in CallPlaces, SignIn!RenewFails(c) PROVE AccountInvariant'
<1>1. /\ calls[c].pc = "renewing" /\ auth' = auth /\ web' = SignIn!Lose(web)
      /\ SignIn!Renewal(c, "failed", FALSE) /\ tokens' = [tokens EXCEPT !.lock = 0]
  BY DEF SignIn!RenewFails
<1>2. TypesNext /\ WebSame /\ TokensSame /\ AuthSame
  <2>1. 0 \in {0} \cup CallPlaces
    OBVIOUS
  <2> QED
    BY <1>1, <2>1, TypesKept, LockSet, LoseIs DEF TypesNext
<1> QED
  BY <1>1, <1>2, RenewalStep, StatusNames

\* The server issues the next token, for one that is rotated or for a sign-in.
Issues(old, login, f) ==
    /\ f \in SignIn!Tokens /\ web.state[f] = "unissued"
    /\ web'.state[f] = "valid" /\ web'.of[f] = login
    /\ \A t \in SignIn!Tokens \ {f} :
          /\ web'.of[t] = web.of[t]
          /\ web'.state[t] = IF t = old THEN "rotated" ELSE web.state[t]
    /\ web'.logins = web.logins /\ web'.outAt = web.outAt
    /\ web.dropped \subseteq web'.dropped /\ web.revoking \subseteq web'.revoking

LEMMA FreshIs ==
    ASSUME SignIn!Unissued # {}
    PROVE  SignIn!Fresh \in SignIn!Tokens /\ web.state[SignIn!Fresh] = "unissued"
<1>1. SignIn!Unissued \subseteq Nat
  BY TokensArePositive DEF SignIn!Unissued
<1>2. \E t \in SignIn!Unissued : \A u \in SignIn!Unissued : t <= u
  BY <1>1, LeastName, Zenon
<1>3. SignIn!Fresh \in SignIn!Unissued
  BY <1>2, Zenon DEF SignIn!Fresh
<1> QED
  BY <1>3 DEF SignIn!Unissued

LEMMA IssuedIs ==
    ASSUME AccountInvariant, SignIn!Unissued # {}, NEW old, NEW login \in 0..MaxLogins,
           old # 0 => Issue(web, old)
    PROVE  /\ SignIn!Issued(old, login) \in Webs
           /\ web' = SignIn!Issued(old, login) => Issues(old, login, SignIn!Fresh)
<1>1. web \in Webs
  BY DEF AccountInvariant, AccountTypes
<1>2. PICK f \in SignIn!Tokens : f = SignIn!Fresh /\ web.state[f] = "unissued"
  BY FreshIs
<1>3. PICK st : st = [t \in SignIn!Tokens |-> IF t = f THEN "valid" ELSE IF t = old THEN "rotated" ELSE web.state[t]]
  OBVIOUS
<1>4. PICK of : of = [web.of EXCEPT ![f] = login]
  OBVIOUS
<1>5. web.state \in [SignIn!Tokens -> {"unissued", "valid", "rotated", "ended"}]
      /\ web.of \in [SignIn!Tokens -> 0..MaxLogins]
  BY <1>1 DEF Webs
<1>6. st \in [SignIn!Tokens -> {"unissued", "valid", "rotated", "ended"}] /\ of \in [SignIn!Tokens -> 0..MaxLogins]
  BY <1>3, <1>4, <1>5
<1>7. SignIn!Issued(old, login) = [web EXCEPT !.state = st, !.of = of]
  BY <1>1, <1>2, <1>3, <1>4 DEF SignIn!Issued, Webs
<1>8. SignIn!Issued(old, login) \in Webs
  BY <1>1, <1>6, <1>7 DEF Webs
<1>9. ASSUME web' = SignIn!Issued(old, login) PROVE Issues(old, login, f)
  <2>1. /\ web'.state = st /\ web'.of = of /\ web'.logins = web.logins /\ web'.outAt = web.outAt
        /\ web'.dropped = web.dropped /\ web'.revoking = web.revoking
    BY <1>1, <1>7, <1>9 DEF Webs
  <2>2. st[f] = "valid" /\ of[f] = login
    BY <1>2, <1>3, <1>4, <1>5
  <2>3. \A t \in SignIn!Tokens \ {f} :
          /\ of[t] = web.of[t]
          /\ st[t] = IF t = old THEN "rotated" ELSE web.state[t]
    BY <1>3, <1>4, <1>5
  <2> QED
    BY <1>2, <2>1, <2>2, <2>3 DEF Issues
<1> QED
  BY <1>2, <1>8, <1>9

LEMMA IssuesOnward ==
    ASSUME AccountInvariant, TypesNext, NEW old, NEW login, NEW f, Issues(old, login, f), TokensSame, AuthSame
    PROVE  Onward /\ StoreOK' /\ Issue(web', f) /\ web'.of[f] = login
<1>1. ASSUME NEW t, Issue(web, t) PROVE Issue(web', t) /\ web'.of[t] = web.of[t]
  BY <1>1 DEF Issue, Issues
<1>2. web.state[1] \in {"rotated", "ended"} => web'.state[1] \in {"rotated", "ended"}
  BY TokensArePositive DEF Issues
<1>3. tokens.epoch <= tokens'.epoch /\ auth.attempt <= auth'.attempt /\ web.logins <= web'.logins
      /\ web'.outAt = web.outAt /\ web'.logins = web.logins
  BY AccountAssumption DEF AccountInvariant, AccountTypes, TokenStores, SignIns, Webs, TokensSame, AuthSame, Issues
<1>4. Onward
  BY <1>1, <1>2, <1>3, Zenon DEF Onward, TokensSame
<1>5. StoreOK'
  BY <1>1, <1>3, Zenon DEF AccountInvariant, StoreOK, TokensSame, AuthSame
<1>6. Issue(web', f) /\ web'.of[f] = login
  BY DEF Issue, Issues
<1> QED
  BY <1>4, <1>5, <1>6

\* A call with a new token in hand.
LEMMA GotOK ==
    ASSUME NEW k \in CallRecords, NEW tok, NEW au, NEW w, k.kind \in {"check", "support", "poll", "exchange"},
           k.pc = "got", k.token # 0, Issue(w, k.token), k.epoch <= tok.epoch,
           k.epoch = tok.epoch => w.of[k.token] > w.outAt,
           k.kind = "exchange" => k.token = 1 \/ w.state[1] \in {"rotated", "ended"},
           tok.legacy # 0 => k.kind = "exchange"
    PROVE  CallOK(k, tok, au, w)
<1>1. ShapeOK(k)
  BY DEF ShapeOK
<1>2. TokenOK(k, w)
  BY DEF TokenOK
<1>3. EpochOK(k, tok, w)
  BY DEF EpochOK
<1>4. StartOK(k, au, w) /\ LegacyOK(k, tok, w)
  BY DEF StartOK, LegacyOK
<1> QED
  BY <1>1, <1>2, <1>3, <1>4 DEF CallOK

\* The answer brings the token to the call that asked.
LEMMA IssueStep ==
    ASSUME AccountInvariant, NEW c \in CallPlaces, NEW old, NEW login, NEW f, Issues(old, login, f),
           TypesNext, TokensSame, AuthSame, posted' = posted,
           calls' = [calls EXCEPT ![c].pc = "got", ![c].token = f],
           calls[c].pc \in {"ask", "renewing"}, calls[c].kind \in {"check", "support", "poll", "exchange"},
           calls[c].epoch = tokens.epoch => login > web.outAt,
           calls[c].kind = "exchange" => old = 1 /\ Issue(web, 1),
           tokens.legacy # 0 => calls[c].kind = "exchange"
    PROVE  AccountInvariant'
<1>1. calls[c] \in CallRecords /\ CallOK(calls[c], tokens, auth, web)
  BY CallFacts
<1>2. Onward /\ StoreOK' /\ Issue(web', f) /\ web'.of[f] = login
  BY IssuesOnward
<1>3. PICK k : k = [calls[c] EXCEPT !.pc = "got", !.token = f]
  OBVIOUS
<1>4. f \in 0..MaxTokens + MaxLogins /\ f # 0
  BY AccountAssumption DEF Issues, SignIn!Tokens
<1>5. k \in CallRecords /\ k.pc = "got" /\ k.kind = calls[c].kind /\ k.token = f /\ k.epoch = calls[c].epoch
  BY <1>1, <1>3, <1>4 DEF CallRecords
<1>6. calls' = [calls EXCEPT ![c] = k]
  BY <1>3 DEF AccountInvariant, AccountTypes, CallRecords
<1>7. Replaced(c, k)
  BY <1>5, <1>6, ReplacedIs
<1>8. tokens'.epoch = tokens.epoch /\ tokens'.legacy = tokens.legacy /\ web'.outAt = web.outAt
  BY DEF TokensSame, Issues
<1>9. k.epoch <= tokens'.epoch
  BY <1>1, <1>5, <1>8 DEF CallOK, EpochOK
<1>10. k.kind = "exchange" => k.token = 1 \/ web'.state[1] \in {"rotated", "ended"}
  BY <1>5 DEF Issues, Issue
<1>11. CallOK(k, tokens', auth', web')
  BY <1>2, <1>4, <1>5, <1>8, <1>9, <1>10, GotOK
<1>12. Accounted'
  <2>1. ASSUME NEW t \in SignIn!Tokens, web'.state[t] = "valid", t \notin web'.dropped
        PROVE  \/ t \in {tokens'.mem, tokens'.legacy} \/ InHandOf(k, t)
               \/ web.state[t] = "valid" /\ t \notin web.dropped /\ t \notin {tokens.mem, tokens.legacy}
    BY <1>5, <2>1 DEF Issues, InHandOf, TokensSame
  <2>2. ASSUME NEW t PROVE ~InHandOf(calls[c], t)
    BY DEF InHandOf
  <2>3. web.revoking \subseteq web'.revoking
    BY DEF Issues
  <2>4. \A t \in SignIn!Tokens : web'.state[t] = "valid" /\ t \notin web'.dropped =>
           \/ t \in {tokens'.mem, tokens'.legacy}
           \/ InHandOf(k, t)
           \/ /\ web.state[t] = "valid" /\ t \notin web.dropped /\ t \notin {tokens.mem, tokens.legacy}
              /\ ~InHandOf(calls[c], t)
    BY <2>1, <2>2
  <2>5. Accounted
    BY DEF AccountInvariant
  <2> QED
    BY <1>7, <2>3, <2>4, <2>5, AccountedByCall
<1> QED
  BY <1>2, <1>5, <1>7, <1>11, <1>12, OneCallStep DEF Tells

LEMMA RenewedStep == ASSUME AccountInvariant, NEW c \in CallPlaces, SignIn!RenewAnswered(c) PROVE AccountInvariant'
<1>1. /\ calls[c].pc = "renewing" /\ SignIn!Unissued # {} /\ UNCHANGED <<tokens, auth, posted>>
      /\ web' = SignIn!Issued(calls[c].token, web.of[calls[c].token])
      /\ calls' = [calls EXCEPT ![c].pc = "got", ![c].token = SignIn!Fresh]
  BY DEF SignIn!RenewAnswered
<1>2. calls[c] \in CallRecords /\ calls[c].kind \in {"check", "support"}
  BY <1>1, Renewing
<1>3. tokens.legacy = 0 /\ Issue(web, calls[c].token)
  BY <1>1, <1>2, WorkerFacts
<1>4. web.of[calls[c].token] \in 0..MaxLogins
  BY <1>3 DEF AccountInvariant, AccountTypes, Webs, Issue
<1>5. web' \in Webs /\ Issues(calls[c].token, web.of[calls[c].token], SignIn!Fresh)
  BY <1>1, <1>3, <1>4, IssuedIs
<1>6. calls[c].epoch = tokens.epoch => web.of[calls[c].token] > web.outAt
  BY <1>1, CallFacts DEF CallOK, EpochOK
<1>7. TypesNext /\ TokensSame /\ AuthSame
  BY <1>1, <1>5, TypesKept DEF TypesNext
<1> QED
  BY <1>1, <1>2, <1>3, <1>5, <1>6, <1>7, IssueStep

LEMMA IssuedFields ==
    ASSUME AccountInvariant, SignIn!Unissued # {}, NEW old, NEW login \in 0..MaxLogins, NEW v, v = SignIn!Issued(old, login)
    PROVE  /\ v.dropped = web.dropped /\ v.revoking = web.revoking /\ v.logins = web.logins
           /\ v.outAt = web.outAt /\ v.link = web.link /\ v.losses = web.losses
           /\ v.state[SignIn!Fresh] = "valid" /\ v.of[SignIn!Fresh] = login
           /\ \A t \in SignIn!Tokens \ {SignIn!Fresh} :
                  /\ v.of[t] = web.of[t]
                  /\ v.state[t] = IF t = old THEN "rotated" ELSE web.state[t]
<1>1. web \in Webs
  BY DEF AccountInvariant, AccountTypes
<1>2. PICK f \in SignIn!Tokens : f = SignIn!Fresh
  BY FreshIs
<1>3. PICK st : st = [t \in SignIn!Tokens |-> IF t = f THEN "valid" ELSE IF t = old THEN "rotated" ELSE web.state[t]]
  OBVIOUS
<1>4. PICK of : of = [web.of EXCEPT ![f] = login]
  OBVIOUS
<1>5. web.of \in [SignIn!Tokens -> 0..MaxLogins]
  BY <1>1 DEF Webs
<1>6. v = [web EXCEPT !.state = st, !.of = of]
  BY <1>1, <1>2, <1>3, <1>4 DEF SignIn!Issued, Webs
<1>7. /\ v.state = st /\ v.of = of /\ v.logins = web.logins /\ v.outAt = web.outAt
      /\ v.dropped = web.dropped /\ v.revoking = web.revoking /\ v.link = web.link /\ v.losses = web.losses
  BY <1>1, <1>6 DEF Webs
<1>8. st[f] = "valid" /\ of[f] = login
  BY <1>2, <1>3, <1>4, <1>5
<1>9. \A t \in SignIn!Tokens \ {f} :
          /\ of[t] = web.of[t]
          /\ st[t] = IF t = old THEN "rotated" ELSE web.state[t]
  BY <1>3, <1>4, <1>5
<1> QED
  BY <1>2, <1>7, <1>8, <1>9

LEMMA LinkedIs ==
    ASSUME AccountInvariant, SignIn!Unissued # {}, NEW old, NEW login \in 0..MaxLogins,
           old # 0 => Issue(web, old), NEW w, w = SignIn!Issued(old, login),
           NEW link \in [SignIn!Logins -> {"none", "open", "approved", "denied", "used"}],
           web' = [w EXCEPT !.link = link]
    PROVE  web' \in Webs /\ Issues(old, login, SignIn!Fresh)
<1>1. w \in Webs
  BY IssuedIs
<1>2. SignIn!Fresh \in SignIn!Tokens /\ web.state[SignIn!Fresh] = "unissued"
  BY FreshIs
<1>3. /\ web'.state = w.state /\ web'.of = w.of /\ web'.logins = w.logins /\ web'.outAt = w.outAt
      /\ web'.dropped = w.dropped /\ web'.revoking = w.revoking
  BY <1>1 DEF Webs
<1>4. web' \in Webs
  BY <1>1 DEF Webs
<1> QED
  BY <1>2, <1>3, <1>4, IssuedFields DEF Issues

LEMMA LostIs ==
    ASSUME AccountInvariant, SignIn!Unissued # {}, NEW old, NEW login \in 0..MaxLogins,
           old # 0 => Issue(web, old), NEW w, w = SignIn!Issued(old, login),
           NEW link \in [SignIn!Logins -> {"none", "open", "approved", "denied", "used"}],
           web' = [w EXCEPT !.losses = w.losses + 1, !.link = link, !.dropped = w.dropped \cup {SignIn!Fresh}]
    PROVE  web' \in Webs /\ Issues(old, login, SignIn!Fresh) /\ SignIn!Fresh \in web'.dropped
<1>1. w \in Webs
  BY IssuedIs
<1>2. SignIn!Fresh \in SignIn!Tokens /\ web.state[SignIn!Fresh] = "unissued"
  BY FreshIs
<1>3. PICK n \in Nat, S \in SUBSET SignIn!Tokens : n = w.losses + 1 /\ S = w.dropped \cup {SignIn!Fresh}
  <2>1. w.losses + 1 \in Nat /\ w.dropped \cup {SignIn!Fresh} \in SUBSET SignIn!Tokens
    BY <1>1, <1>2 DEF Webs
  <2> QED
    BY <2>1
<1>4. /\ web'.state = w.state /\ web'.of = w.of /\ web'.logins = w.logins /\ web'.outAt = w.outAt
      /\ web'.dropped = w.dropped \cup {SignIn!Fresh} /\ web'.revoking = w.revoking
  BY <1>1 DEF Webs
<1>5. web' \in Webs
  BY <1>1, <1>3 DEF Webs
<1> QED
  BY <1>2, <1>4, <1>5, IssuedFields DEF Issues

\* The valid tokens after a step of the call at place c.
StillHeld(c) ==
    \A t \in SignIn!Tokens : web'.state[t] = "valid" /\ t \notin web'.dropped =>
        \/ t \in {tokens'.mem, tokens'.legacy}
        \/ /\ web.state[t] = "valid" /\ t \notin web.dropped /\ t \notin {tokens.mem, tokens.legacy}
           /\ ~InHandOf(calls[c], t)

LEMMA FinishedNews ==
    ASSUME AccountInvariant, NEW c \in CallPlaces, NEW s \in Statuses, SignIn!Finished(c, s)
    PROVE  /\ Replaced(c, SignIn!NoCall)
           /\ \E n \in NewsRecords : /\ posted' = Append(posted, n) /\ n.kind = calls[c].kind
                                     /\ n.attempt = calls[c].attempt /\ n.status = s
<1>1. calls' = [calls EXCEPT ![c] = SignIn!NoCall]
      /\ posted' = Append(posted, SignIn!News(calls[c].kind, calls[c].attempt, s))
  BY DEF SignIn!Finished
<1>2. calls[c] \in CallRecords
  BY CallFacts
<1>3. PICK n : n = SignIn!News(calls[c].kind, calls[c].attempt, s)
  OBVIOUS
<1>4. n \in NewsRecords /\ n.kind = calls[c].kind /\ n.attempt = calls[c].attempt /\ n.status = s
  BY <1>2, <1>3 DEF SignIn!News, NewsRecords, CallRecords
<1> QED
  BY <1>1, <1>3, <1>4, NoCallOK, ReplacedIs, Zenon

\* A call that ends in a step that may change the store and the web.
LEMMA EndStep ==
    ASSUME AccountInvariant, NEW c \in CallPlaces, NEW s \in Statuses, SignIn!Finished(c, s),
           tokens'.legacy # 0 => calls[c].kind = "exchange" /\ s = "unreachable",
           TypesNext, Onward, StoreOK', web.revoking \subseteq web'.revoking, StillHeld(c)
    PROVE  AccountInvariant'
<1>1. Replaced(c, SignIn!NoCall)
  BY FinishedNews
<1>2. PICK n \in NewsRecords : /\ posted' = Append(posted, n) /\ n.kind = calls[c].kind
                               /\ n.attempt = calls[c].attempt /\ n.status = s
  BY FinishedNews
<1>3. SignIn!NoCall \in CallRecords /\ CallOK(SignIn!NoCall, tokens', auth', web')
  BY NoCallOK, CallOnward DEF AccountInvariant
<1>4. StartOK(n, auth', web')
  <2>1. StartOK(calls[c], auth, web)
    BY CallFacts DEF CallOK
  <2>2. StartOK(n, auth, web)
    BY <1>2, <2>1, Zenon DEF StartOK
  <2>3. n.attempt \in Nat
    BY <1>2 DEF NewsRecords
  <2> QED
    BY <2>2, <2>3, StartOnward DEF AccountInvariant
<1>5. Tells
  BY <1>2, <1>4, Zenon DEF Tells, NewsOK
<1>6. Accounted'
  BY <1>1, AccountedByCall, Zenon DEF AccountInvariant, StillHeld
<1> QED
  BY <1>1, <1>3, <1>5, <1>6, OneCallStep, Zenon

\* The same for a renewal that ends.
LEMMA RenewalEndStep ==
    ASSUME AccountInvariant, NEW c \in CallPlaces, calls[c].kind \in {"check", "support"}, NEW status \in Statuses,
           NEW ended \in BOOLEAN, SignIn!Renewal(c, status, ended),
           TypesNext, Onward, StoreOK', web.revoking \subseteq web'.revoking, StillHeld(c)
    PROVE  AccountInvariant'
<1>1. Says
  BY RenewalIs
<1>2. PICK k \in CallRecords : Replaced(c, k) /\ CallOK(k, tokens, auth, web)
  BY RenewalIs
<1>3. CallOK(k, tokens', auth', web')
  BY <1>2, CallOnward DEF AccountInvariant
<1>4. Accounted'
  BY <1>2, AccountedByCall, Zenon DEF AccountInvariant, StillHeld
<1> QED
  BY <1>1, <1>2, <1>3, <1>4, SaysTells, OneCallStep

LEMMA LostStep == ASSUME AccountInvariant, NEW c \in CallPlaces, SignIn!RenewAnswerLost(c) PROVE AccountInvariant'
<1>1. /\ calls[c].pc = "renewing" /\ SignIn!Unissued # {} /\ auth' = auth
      /\ SignIn!Renewal(c, "failed", FALSE) /\ tokens' = [tokens EXCEPT !.lock = 0]
      /\ web' = [SignIn!Lose(SignIn!Issued(calls[c].token, web.of[calls[c].token]))
                     EXCEPT !.dropped = @ \cup {SignIn!Fresh}]
  BY DEF SignIn!RenewAnswerLost
<1>2. calls[c] \in CallRecords /\ calls[c].kind \in {"check", "support"}
  BY <1>1, Renewing
<1>3. Issue(web, calls[c].token)
  BY <1>1, <1>2, WorkerFacts
<1>4. web.of[calls[c].token] \in 0..MaxLogins
  BY <1>3 DEF AccountInvariant, AccountTypes, Webs, Issue
<1>50. PICK old : old = calls[c].token
  OBVIOUS
<1>51. PICK login \in 0..MaxLogins : login = web.of[calls[c].token]
  BY <1>4
<1>5. PICK w : w = SignIn!Issued(old, login)
  OBVIOUS
<1>6. w \in Webs
  BY <1>1, <1>3, <1>5, <1>50, <1>51, IssuedIs
<1>8. PICK link \in [SignIn!Logins -> {"none", "open", "approved", "denied", "used"}] : link = w.link
  BY <1>6 DEF Webs
<1>7. web' = [w EXCEPT !.losses = w.losses + 1, !.link = link, !.dropped = w.dropped \cup {SignIn!Fresh}]
  BY <1>1, <1>5, <1>50, <1>51, <1>6, <1>8 DEF SignIn!Lose, Webs
<1>81. old # 0 => Issue(web, old)
  BY <1>3, <1>50
<1>9. /\ web' \in Webs /\ Issues(old, login, SignIn!Fresh) /\ SignIn!Fresh \in web'.dropped
  <2> HIDE DEF SignIn!Fresh, SignIn!Issued, SignIn!Unissued
  <2>1. SignIn!Unissued # {}
    BY <1>1
  <2> QED
    BY <1>5, <1>7, <1>81, <2>1, LostIs
<1>10. TypesNext /\ TokensSame /\ AuthSame
  <2>1. 0 \in {0} \cup CallPlaces
    OBVIOUS
  <2> QED
    BY <1>1, <1>9, <2>1, TypesKept, LockSet DEF TypesNext
<1>11. Onward /\ StoreOK'
  BY <1>9, <1>10, IssuesOnward
<1>12. web.revoking \subseteq web'.revoking
  BY <1>9 DEF Issues
<1>13. StillHeld(c)
  <2>1. ASSUME NEW t \in SignIn!Tokens, web'.state[t] = "valid", t \notin web'.dropped
        PROVE  web.state[t] = "valid" /\ t \notin web.dropped
    BY <1>9, <2>1 DEF Issues
  <2> QED
    BY <1>1, <1>10, <2>1 DEF StillHeld, InHandOf, TokensSame
<1> QED
  BY <1>1, <1>2, <1>10, <1>11, <1>12, <1>13, RenewalEndStep, StatusNames

LEMMA RenewRefusedStep ==
    ASSUME AccountInvariant, NEW c \in CallPlaces, SignIn!RenewRefused(c) PROVE AccountInvariant'
<1>1. /\ calls[c].pc = "renewing" /\ auth' = auth /\ web' = web
      /\ web.state[calls[c].token] \in {"ended", "rotated"}
      /\ tokens' = [SignIn!ClearIfToken(calls[c].token) EXCEPT !.lock = 0]
      /\ SignIn!Renewal(c, "ended", tokens.mem = calls[c].token)
  BY DEF SignIn!RenewRefused
<1>2. calls[c].kind \in {"check", "support"}
  BY <1>1, Renewing
<1>3. PICK e \in BOOLEAN : e = (tokens.mem = calls[c].token)
  OBVIOUS
<1>5. /\ tokens' \in TokenStores /\ tokens'.legacy = tokens.legacy /\ tokens.epoch <= tokens'.epoch
      /\ tokens.mem # calls[c].token => tokens'.mem = tokens.mem /\ tokens'.disk = tokens.disk
      /\ tokens.mem = calls[c].token => tokens'.mem = 0 /\ tokens'.disk = 0
  <2>1. 0 \in {tokens.lock, 0}
    OBVIOUS
  <2> QED
    BY <1>1, <2>1, ClearedIs
<1>6. TypesNext /\ WebSame /\ AuthSame
  BY <1>1, <1>5, TypesKept DEF TypesNext
<1>7. Onward
  <2>1. auth.attempt <= auth'.attempt
    BY <1>1 DEF AccountInvariant, AccountTypes, SignIns
  <2> QED
    BY <1>5, <1>6, <2>1, QuietOnward, Zenon DEF AccountInvariant, WebSame
<1>8. StoreOK'
  BY <1>5, <1>6, ClearStore, Zenon
<1>9. StillHeld(c)
  BY <1>1, <1>5 DEF StillHeld, InHandOf
<1>10. web.revoking \subseteq web'.revoking
  BY <1>1
<1> QED
  BY <1>1, <1>2, <1>3, <1>6, <1>7, <1>8, <1>9, <1>10, RenewalEndStep, StatusNames

\* The token a call hands back.
Gone(t) ==
    /\ web' \in Webs /\ web'.of = web.of /\ web'.logins = web.logins /\ web'.outAt = web.outAt
    /\ web.dropped \subseteq web'.dropped
    /\ \A u \in SignIn!Tokens \ {t} : web'.state[u] = web.state[u]
    /\ \/ web'.state[t] = "ended"
       \/ web'.state[t] = web.state[t] /\ t \in web'.dropped

LEMMA EndedIs ==
    ASSUME AccountInvariant, NEW t \in SignIn!Tokens, NEW R \in SUBSET SignIn!Tokens,
           \/ web' = [SignIn!Ended(t) EXCEPT !.revoking = R]
           \/ web' = [SignIn!Lose(web) EXCEPT !.revoking = R, !.dropped = @ \cup {t}]
    PROVE  Gone(t) /\ web'.revoking = R
<1>1. web \in Webs
  BY DEF AccountInvariant, AccountTypes
<1>2. CASE web' = [SignIn!Ended(t) EXCEPT !.revoking = R]
  <2>1. PICK st : st = [web.state EXCEPT ![t] = "ended"]
    OBVIOUS
  <2>2. web.state \in [SignIn!Tokens -> {"unissued", "valid", "rotated", "ended"}]
    BY <1>1 DEF Webs
  <2>3. /\ st \in [SignIn!Tokens -> {"unissued", "valid", "rotated", "ended"}]
        /\ st[t] = "ended" /\ \A u \in SignIn!Tokens \ {t} : st[u] = web.state[u]
    BY <2>1, <2>2
  <2>4. web' = [web EXCEPT !.state = st, !.revoking = R]
    BY <1>1, <1>2, <2>1 DEF SignIn!Ended, Webs
  <2>5. web' \in Webs
    BY <1>1, <2>3, <2>4 DEF Webs
  <2>6. /\ web'.state = st /\ web'.of = web.of /\ web'.logins = web.logins /\ web'.outAt = web.outAt
        /\ web'.dropped = web.dropped /\ web'.revoking = R
    BY <1>1, <2>4 DEF Webs
  <2>7. web.dropped \subseteq web'.dropped
    BY <2>6
  <2>8. web'.state[t] = "ended" /\ \A u \in SignIn!Tokens \ {t} : web'.state[u] = web.state[u]
    BY <2>3, <2>6, Zenon
  <2> QED
    BY <2>5, <2>6, <2>7, <2>8, Zenon DEF Gone
<1>3. CASE web' = [SignIn!Lose(web) EXCEPT !.revoking = R, !.dropped = @ \cup {t}]
  <2>1. PICK n \in Nat, S \in SUBSET SignIn!Tokens : n = web.losses + 1 /\ S = web.dropped \cup {t}
    <3>1. web.losses + 1 \in Nat /\ web.dropped \cup {t} \in SUBSET SignIn!Tokens
      BY <1>1 DEF Webs
    <3> QED
      BY <3>1
  <2>2. web' = [web EXCEPT !.losses = n, !.revoking = R, !.dropped = S]
    BY <1>1, <1>3, <2>1 DEF SignIn!Lose, Webs
  <2>3. web' \in Webs
    BY <1>1, <2>1, <2>2 DEF Webs
  <2>4. /\ web'.state = web.state /\ web'.of = web.of /\ web'.logins = web.logins /\ web'.outAt = web.outAt
        /\ web'.dropped = web.dropped \cup {t} /\ web'.revoking = R
    BY <1>1, <2>1, <2>2 DEF Webs
  <2> QED
    BY <2>3, <2>4 DEF Gone
<1> QED
  BY <1>2, <1>3

LEMMA GoneOnward ==
    ASSUME AccountInvariant, NEW t \in SignIn!Tokens, Gone(t), TypesNext, TokensSame, AuthSame
    PROVE  Onward /\ StoreOK'
<1>1. ASSUME NEW u, Issue(web, u) PROVE Issue(web', u) /\ web'.of[u] = web.of[u]
  BY <1>1 DEF Issue, Gone
<1>2. web.state[1] \in {"rotated", "ended"} => web'.state[1] \in {"rotated", "ended"}
  BY TokensArePositive DEF Gone
<1>3. tokens.epoch <= tokens'.epoch /\ auth.attempt <= auth'.attempt /\ web.logins <= web'.logins
      /\ web'.outAt = web.outAt /\ web'.logins = web.logins
  BY AccountAssumption DEF AccountInvariant, AccountTypes, TokenStores, SignIns, Webs, TokensSame, AuthSame, Gone
<1>4. Onward
  BY <1>1, <1>2, <1>3, Zenon DEF Onward, TokensSame
<1>5. StoreOK'
  BY <1>1, <1>3, Zenon DEF AccountInvariant, StoreOK, TokensSame, AuthSame
<1> QED
  BY <1>4, <1>5

LEMMA RevokeStep == ASSUME AccountInvariant, NEW c \in CallPlaces, SignIn!Revoke(c) PROVE AccountInvariant'
<1>1. /\ calls[c].pc = "revoke" /\ auth' = auth
      /\ \/ web' = SignIn!Ended(calls[c].token)
         \/ web' = [SignIn!Lose(web) EXCEPT !.dropped = @ \cup {calls[c].token}]
  BY DEF SignIn!Revoke
<1>2. /\ calls[c] \in CallRecords /\ calls[c].kind \in {"check", "support", "poll", "exchange"}
      /\ Issue(web, calls[c].token) /\ tokens.legacy = 0
  BY <1>1, CallFacts DEF CallOK, ShapeOK, TokenOK, LegacyOK, CallRecords, CallKinds
<1>3. PICK t \in SignIn!Tokens : t = calls[c].token
  BY <1>2 DEF Issue
<1>4. Gone(t) /\ web'.revoking = web.revoking
  <2>1. web \in Webs /\ web.revoking \in SUBSET SignIn!Tokens
    BY DEF AccountInvariant, AccountTypes, Webs
  <2>2. SignIn!Ended(t) = [SignIn!Ended(t) EXCEPT !.revoking = web.revoking]
    BY <2>1 DEF SignIn!Ended, Webs
  <2>3. [SignIn!Lose(web) EXCEPT !.dropped = @ \cup {t}]
            = [SignIn!Lose(web) EXCEPT !.revoking = web.revoking, !.dropped = @ \cup {t}]
    BY <2>1 DEF SignIn!Lose, Webs
  <2>4. PICK R \in SUBSET SignIn!Tokens : R = web.revoking
    BY <2>1
  <2>5. \/ web' = [SignIn!Ended(t) EXCEPT !.revoking = R]
        \/ web' = [SignIn!Lose(web) EXCEPT !.revoking = R, !.dropped = @ \cup {t}]
    BY <1>1, <1>3, <2>2, <2>3, <2>4, Zenon
  <2> QED
    BY <2>4, <2>5, EndedIs
<1>5. StillHeld(c)
      <=> \A u \in SignIn!Tokens : web'.state[u] = "valid" /\ u \notin web'.dropped =>
        \/ u \in {tokens'.mem, tokens'.legacy}
        \/ web.state[u] = "valid" /\ u \notin web.dropped /\ u \notin {tokens.mem, tokens.legacy} /\ u # t
  BY <1>1, <1>3 DEF StillHeld, InHandOf
<1>6. ASSUME NEW u \in SignIn!Tokens, web'.state[u] = "valid", u \notin web'.dropped
      PROVE  web.state[u] = "valid" /\ u \notin web.dropped /\ u # t
  BY <1>4, <1>6 DEF Gone
<1>7. CASE calls[c].kind \in {"poll", "exchange"} /\ SignIn!Finished(c, "signedout") /\ tokens' = tokens
  <2>1. TypesNext /\ TokensSame /\ AuthSame
    BY <1>1, <1>4, <1>7, TypesKept DEF TypesNext, Gone
  <2>2. Onward /\ StoreOK'
    BY <1>2, <1>3, <1>4, <2>1, GoneOnward
  <2>3. StillHeld(c)
    BY <1>5, <1>6, <1>7
  <2>4. "signedout" \in Statuses
    BY DEF Statuses
  <2> QED
    BY <1>2, <1>4, <1>7, <2>1, <2>2, <2>3, <2>4, EndStep
<1>8. CASE calls[c].kind \in {"check", "support"} /\ tokens' = [tokens EXCEPT !.lock = 0]
           /\ SignIn!Renewal(c, "ended", FALSE)
  <2>1. TypesNext /\ TokensSame /\ AuthSame
    <3>1. 0 \in {0} \cup CallPlaces
      OBVIOUS
    <3> QED
      BY <1>1, <1>4, <1>8, <3>1, TypesKept, LockSet DEF TypesNext, Gone
  <2>2. Onward /\ StoreOK'
    BY <1>2, <1>3, <1>4, <2>1, GoneOnward
  <2>3. StillHeld(c)
    BY <1>5, <1>6, <2>1 DEF TokensSame
  <2> QED
    BY <1>4, <1>8, <2>1, <2>2, <2>3, RenewalEndStep, StatusNames
<1> QED
  BY <1>2, <1>7, <1>8 DEF SignIn!Revoke

\* What a save leaves: the token in memory, on disk or not, and the token it replaces by name.
LEMMA StoredIs ==
    ASSUME AccountInvariant, NEW tk \in 1..MaxTokens, NEW epoch, NEW store \in SignIn!SaveIfEpoch(tk, epoch),
           NEW b \in BOOLEAN, NEW w, w = SignIn!Dropping(SignIn!Losing(web, b), store)
    PROVE  /\ epoch = tokens.epoch /\ store \in TokenStores /\ w \in Webs
           /\ store.mem = tk /\ store.disk \in {tk, tokens.disk} /\ store.epoch = tokens.epoch
           /\ store.legacy = tokens.legacy
           /\ w.state = web.state /\ w.of = web.of /\ w.logins = web.logins /\ w.outAt = web.outAt
           /\ w.revoking = web.revoking /\ web.dropped \subseteq w.dropped
           /\ tokens.mem # 0 /\ tk # tokens.mem => tokens.mem \in w.dropped
<1>1. tokens \in TokenStores /\ web \in Webs
  BY DEF AccountInvariant, AccountTypes
<1>2. PICK d \in {tk, tokens.disk} : store = [tokens EXCEPT !.mem = tk, !.disk = d]
  BY DEF SignIn!SaveIfEpoch, SignIn!SaveIfEpoch_Always, SignIn!Wrote
<1>3. epoch = tokens.epoch
  BY DEF SignIn!SaveIfEpoch
<1>4. d \in 0..MaxTokens /\ tk \in 0..MaxTokens
  BY <1>1 DEF TokenStores
<1>5. store \in TokenStores
  BY <1>1, <1>2, <1>4 DEF TokenStores
<1>6. store.mem = tk /\ store.disk = d /\ store.epoch = tokens.epoch /\ store.legacy = tokens.legacy
  BY <1>1, <1>2 DEF TokenStores
<1>7. PICK v : v = SignIn!Losing(web, b)
  OBVIOUS
<1>8. /\ v \in Webs /\ v.state = web.state /\ v.of = web.of /\ v.logins = web.logins /\ v.outAt = web.outAt
      /\ v.revoking = web.revoking /\ v.dropped = web.dropped
  <2>1. CASE b
    BY <1>1, <1>7, <2>1 DEF SignIn!Losing
  <2>2. CASE ~b
    <3>1. PICK n \in Nat : n = web.losses + 1
      BY <1>1 DEF Webs
    <3>2. v = [web EXCEPT !.losses = n]
      BY <1>7, <2>2, <3>1 DEF SignIn!Losing
    <3>3. v \in Webs
      BY <1>1, <3>2 DEF Webs
    <3> QED
      BY <1>1, <3>2, <3>3 DEF Webs
  <2> QED
    BY <2>1, <2>2
<1>9. tokens.mem # 0 => tokens.mem \in SignIn!Tokens
  BY DEF AccountInvariant, StoreOK, Issue
<1>10. CASE tokens.mem # 0 /\ tk # tokens.mem
  <2>1. PICK S \in SUBSET SignIn!Tokens : S = web.dropped \cup {tokens.mem}
    <3>1. web.dropped \cup {tokens.mem} \in SUBSET SignIn!Tokens
      BY <1>1, <1>9, <1>10 DEF Webs
    <3> QED
      BY <3>1
  <2>2. w = [v EXCEPT !.dropped = S]
    BY <1>6, <1>7, <1>8, <1>10, <2>1 DEF SignIn!Dropping, SignIn!None
  <2>3. w \in Webs
    BY <1>8, <2>2 DEF Webs
  <2>4. /\ w.state = v.state /\ w.of = v.of /\ w.logins = v.logins /\ w.outAt = v.outAt
        /\ w.revoking = v.revoking /\ w.dropped = S
    BY <1>8, <2>2 DEF Webs
  <2> QED
    BY <1>2, <1>3, <1>5, <1>6, <1>8, <2>1, <2>3, <2>4
<1>11. CASE ~(tokens.mem # 0 /\ tk # tokens.mem)
  <2>1. w = v
    BY <1>6, <1>7, <1>11 DEF SignIn!Dropping, SignIn!None
  <2> QED
    BY <1>2, <1>3, <1>5, <1>6, <1>8, <1>11, <2>1
<1> QED
  BY <1>10, <1>11

LEMMA LegacyForgotten ==
    ASSUME NEW store \in TokenStores, NEW t, t = [store EXCEPT !.legacy = 0]
    PROVE  t \in TokenStores /\ t.mem = store.mem /\ t.disk = store.disk /\ t.epoch = store.epoch /\ t.legacy = 0
BY DEF TokenStores

LEMMA LockFreed ==
    ASSUME NEW store \in TokenStores, NEW t, t = [store EXCEPT !.lock = 0]
    PROVE  /\ t \in TokenStores /\ t.mem = store.mem /\ t.disk = store.disk /\ t.epoch = store.epoch
           /\ t.legacy = store.legacy
BY DEF TokenStores

\* A call that starts again with nothing in hand.
LEMMA FreshCallOK ==
    ASSUME AccountInvariant, NEW kind \in {"check", "support"}, tokens'.legacy = 0, tokens' \in TokenStores,
           NEW k, k = SignIn!Call(kind, "read", 0, 0)
    PROVE  k \in CallRecords /\ CallOK(k, tokens', auth', web') /\ k.pc = "read"
<1>1. 0 \in 0..MaxTokens + MaxLogins
  BY AccountAssumption
<1>2. /\ k \in CallRecords /\ k.kind = kind /\ k.pc = "read" /\ k.token = 0 /\ k.epoch = 0
  BY <1>1 DEF SignIn!Call, SignIn!NoCall, SignIn!None, CallRecords, CallKinds
<1>3. 0 <= tokens'.epoch
  BY DEF TokenStores
<1> QED
  BY <1>2, <1>3, WorkerOK

LEMMA KeepStep == ASSUME AccountInvariant, NEW c \in CallPlaces, SignIn!Keep(c) PROVE AccountInvariant'
<1>1. /\ calls[c].pc = "got" /\ auth' = auth /\ calls[c] \in CallRecords
      /\ calls[c].kind \in {"check", "support", "poll", "exchange"}
      /\ Issue(web, calls[c].token) /\ calls[c].epoch <= tokens.epoch
      /\ calls[c].epoch = tokens.epoch => web.of[calls[c].token] > web.outAt
      /\ calls[c].kind = "exchange" => calls[c].token = 1 \/ web.state[1] \in {"rotated", "ended"}
      /\ tokens.legacy # 0 => calls[c].kind = "exchange"
  BY CallFacts DEF SignIn!Keep, CallOK, ShapeOK, TokenOK, EpochOK, LegacyOK, CallRecords, CallKinds
<1>2. PICK tk \in 1..MaxTokens : tk = calls[c].token
  BY <1>1 DEF Issue, SignIn!Tokens
<1>3. tokens \in TokenStores /\ auth \in SignIns /\ web \in Webs /\ tokens.legacy \in {0, 1} /\ tokens.epoch \in Nat
      /\ auth.attempt \in Nat
  BY DEF AccountInvariant, AccountTypes, TokenStores, SignIns
<1>4. CASE /\ calls' = [calls EXCEPT ![c].pc = "revoke"]
           /\ tokens' = IF calls[c].kind = "exchange" THEN [tokens EXCEPT !.legacy = 0] ELSE tokens
           /\ UNCHANGED <<posted, web>>
  <2>1. /\ tokens' \in TokenStores /\ tokens'.mem = tokens.mem /\ tokens'.disk = tokens.disk
        /\ tokens'.epoch = tokens.epoch /\ tokens'.legacy = 0
    BY <1>1, <1>3, <1>4, LegacyForgotten
  <2>2. TypesNext
    BY <1>1, <1>3, <1>4, <2>1 DEF TypesNext
  <2>3. Onward
    <3>1. tokens.epoch <= tokens'.epoch /\ auth.attempt <= auth'.attempt
      BY <1>1, <1>3, <2>1
    <3> QED
      BY <1>4, <2>1, <2>2, <3>1, QuietOnward DEF AccountInvariant
  <2>4. StoreOK'
    BY <1>1, <1>4, <2>1, Zenon DEF AccountInvariant, StoreOK, Issue
  <2>5. PICK k : k = [calls[c] EXCEPT !.pc = "revoke"]
    OBVIOUS
  <2>6. k \in CallRecords /\ k.pc = "revoke" /\ k.kind = calls[c].kind /\ k.token = tk /\ k.epoch = calls[c].epoch
    BY <1>1, <1>2, <2>5 DEF CallRecords
  <2>7. CallOK(k, tokens', auth', web')
    <3>1. ShapeOK(k)
      BY <1>1, <2>6 DEF ShapeOK
    <3>2. TokenOK(k, web')
      BY <1>1, <1>2, <1>4, <2>6 DEF TokenOK
    <3>3. EpochOK(k, tokens', web')
      BY <1>1, <2>1, <2>6 DEF EpochOK
    <3>4. StartOK(k, auth', web') /\ LegacyOK(k, tokens', web')
      BY <1>1, <2>1, <2>6 DEF StartOK, LegacyOK
    <3> QED
      BY <3>1, <3>2, <3>3, <3>4 DEF CallOK
  <2>8. calls' = [calls EXCEPT ![c] = k]
    BY <1>4, <2>5 DEF AccountInvariant, AccountTypes, CallRecords
  <2>9. Replaced(c, k)
    BY <2>6, <2>8, ReplacedIs
  <2>10. Accounted'
    <3>1. ASSUME NEW t \in SignIn!Tokens, web'.state[t] = "valid", t \notin web'.dropped
          PROVE  \/ t \in {tokens'.mem, tokens'.legacy} \/ InHandOf(k, t)
                 \/ /\ web.state[t] = "valid" /\ t \notin web.dropped /\ t \notin {tokens.mem, tokens.legacy}
                    /\ ~InHandOf(calls[c], t)
      <4>1. CASE t = tokens.legacy
        <5>1. t = 1 /\ calls[c].kind = "exchange" /\ web.state[1] = "valid"
          BY <1>1, <1>3, <1>4, <3>1, <4>1, TokensArePositive
        <5> QED
          BY <1>1, <1>2, <2>6, <5>1 DEF InHandOf
      <4>2. CASE t # tokens.legacy
        BY <1>1, <1>2, <1>4, <2>1, <2>6, <3>1, <4>2 DEF InHandOf
      <4> QED
        BY <4>1, <4>2
    <3>2. web.revoking \subseteq web'.revoking
      BY <1>4
    <3> QED
      BY <2>9, <3>1, <3>2, AccountedByCall, Zenon DEF AccountInvariant
  <2> QED
    BY <1>4, <2>2, <2>3, <2>4, <2>6, <2>7, <2>9, <2>10, OneCallStep DEF Tells
<1>5. ASSUME NEW store \in SignIn!SaveIfEpoch(calls[c].token, calls[c].epoch),
             web' = SignIn!Dropping(SignIn!Losing(web, store.disk = calls[c].token), store),
             CASE calls[c].kind = "poll" -> tokens' = store /\ SignIn!Finished(c, "approved")
               [] calls[c].kind = "exchange" ->
                     /\ tokens' = [store EXCEPT !.legacy = 0]
                     /\ calls' = [calls EXCEPT ![c] = SignIn!Call("check", "read", 0, 0)]
                     /\ posted' = Append(posted, SignIn!News("exchange", 0, "migrated"))
               [] OTHER -> tokens' = [store EXCEPT !.lock = 0] /\ SignIn!Renewal(c, "renewed", FALSE)
      PROVE  AccountInvariant'
  <2>1. PICK b \in BOOLEAN : b = (store.disk = calls[c].token)
    OBVIOUS
  <2>2. /\ calls[c].epoch = tokens.epoch /\ store \in TokenStores /\ web' \in Webs
        /\ store.mem = tk /\ store.disk \in {tk, tokens.disk} /\ store.epoch = tokens.epoch
        /\ store.legacy = tokens.legacy
        /\ web'.state = web.state /\ web'.of = web.of /\ web'.logins = web.logins /\ web'.outAt = web.outAt
        /\ web'.revoking = web.revoking /\ web.dropped \subseteq web'.dropped
        /\ tokens.mem # 0 /\ tk # tokens.mem => tokens.mem \in web'.dropped
    <3>1. PICK epoch : epoch = calls[c].epoch
      OBVIOUS
    <3>2. store \in SignIn!SaveIfEpoch(tk, epoch)
      BY <1>2, <1>5, <3>1
    <3>3. PICK w : w = SignIn!Dropping(SignIn!Losing(web, b), store)
      OBVIOUS
    <3>31. web' = w
      BY <1>5, <2>1, <3>3
    <3> HIDE DEF SignIn!SaveIfEpoch, SignIn!Dropping, SignIn!Losing
    <3>4. /\ epoch = tokens.epoch /\ store \in TokenStores /\ w \in Webs
          /\ store.mem = tk /\ store.disk \in {tk, tokens.disk} /\ store.epoch = tokens.epoch
          /\ store.legacy = tokens.legacy
          /\ w.state = web.state /\ w.of = web.of /\ w.logins = web.logins /\ w.outAt = web.outAt
          /\ w.revoking = web.revoking /\ web.dropped \subseteq w.dropped
          /\ tokens.mem # 0 /\ tk # tokens.mem => tokens.mem \in w.dropped
      BY <3>2, <3>3, StoredIs
    <3> QED
      BY <3>1, <3>31, <3>4
  <2>3. /\ tokens' \in TokenStores /\ tokens'.mem = tk /\ tokens'.disk \in {tk, tokens.disk}
        /\ tokens'.epoch = tokens.epoch /\ tokens'.legacy = 0
    <3>1. CASE calls[c].kind = "poll"
      BY <1>1, <1>5, <2>2, <3>1
    <3>2. CASE calls[c].kind = "exchange"
      BY <1>5, <2>2, <3>2, LegacyForgotten
    <3>3. CASE calls[c].kind \in {"check", "support"}
      <4>1. tokens' = [store EXCEPT !.lock = 0]
        BY <1>5, <3>3
      <4> QED
        BY <1>1, <2>2, <3>3, <4>1, LockFreed
    <3> QED
      BY <1>1, <3>1, <3>2, <3>3
  <2>4. TypesNext
    BY <1>1, <1>3, <2>2, <2>3 DEF TypesNext
  <2>5. Onward
    <3>1. tokens.epoch <= tokens'.epoch /\ auth.attempt <= auth'.attempt
      BY <1>1, <1>3, <2>3
    <3> QED
      BY <2>2, <2>3, <2>4, <3>1, QuietOnward DEF AccountInvariant
  <2>6. StoreOK'
    <3>1. web.of[tk] > web.outAt /\ Issue(web, tk)
      BY <1>1, <1>2, <2>2
    <3> QED
      BY <1>1, <2>2, <2>3, <3>1, Zenon DEF AccountInvariant, StoreOK, Issue
  <2>7. ASSUME NEW t \in SignIn!Tokens, web'.state[t] = "valid", t \notin web'.dropped
        PROVE  \/ t \in {tokens'.mem, tokens'.legacy}
               \/ /\ web.state[t] = "valid" /\ t \notin web.dropped /\ t \notin {tokens.mem, tokens.legacy}
                  /\ ~InHandOf(calls[c], t)
    <3>1. CASE t = tk
      BY <2>3, <3>1
    <3>2. CASE t # tk
      <4>1. web.state[t] = "valid" /\ t \notin web.dropped
        BY <2>2, <2>7
      <4>2. t # tokens.mem
        BY <2>2, <2>7, <3>2, TokensArePositive
      <4>3. t # tokens.legacy
        BY <1>1, <1>2, <1>3, <3>2, <4>1, TokensArePositive
      <4> QED
        BY <1>2, <3>2, <4>1, <4>2, <4>3 DEF InHandOf
    <3> QED
      BY <3>1, <3>2
  <2>8. StillHeld(c) /\ web.revoking \subseteq web'.revoking
    BY <2>2, <2>7, Zenon DEF StillHeld
  <2>9. CASE calls[c].kind = "poll"
    <3>1. SignIn!Finished(c, "approved") /\ "approved" \in Statuses
      BY <1>5, <2>9 DEF Statuses
    <3> QED
      BY <2>3, <2>4, <2>5, <2>6, <2>8, <3>1, EndStep
  <2>10. CASE calls[c].kind = "exchange"
    <3>1. PICK k : k = SignIn!Call("check", "read", 0, 0)
      OBVIOUS
    <3>2. k \in CallRecords /\ CallOK(k, tokens', auth', web') /\ k.pc = "read"
      BY <2>3, <3>1, FreshCallOK
    <3>3. Replaced(c, k)
      BY <1>5, <2>10, <3>1, <3>2, ReplacedIs
    <3>4. PICK n : n = SignIn!News("exchange", 0, "migrated")
      OBVIOUS
    <3>5. n \in NewsRecords /\ n.kind = "exchange"
      BY <3>4 DEF SignIn!News, NewsRecords, CallKinds, Statuses
    <3>6. NewsOK(n, tokens', auth', web')
      BY <2>3, <3>5 DEF NewsOK, StartOK
    <3>7. posted' = Append(posted, n)
      BY <1>5, <2>10, <3>4
    <3>8. Accounted'
      BY <2>8, <3>3, AccountedByCall, Zenon DEF AccountInvariant, StillHeld
    <3>9. Tells
      BY <3>5, <3>6, <3>7 DEF Tells
    <3> QED
      BY <2>4, <2>5, <2>6, <3>2, <3>3, <3>8, <3>9, OneCallStep
  <2>11. CASE calls[c].kind \in {"check", "support"}
    <3>1. SignIn!Renewal(c, "renewed", FALSE)
      BY <1>5, <2>11
    <3> QED
      BY <2>4, <2>5, <2>6, <2>8, <2>11, <3>1, RenewalEndStep, StatusNames
  <2> QED
    BY <1>1, <2>9, <2>10, <2>11
<1> QED
  BY <1>4, <1>5 DEF SignIn!Keep, SignIn!None

LEMMA ExchangeStep == ASSUME AccountInvariant, NEW c \in CallPlaces, SignIn!ExchangeAnswered(c) PROVE AccountInvariant'
<1>1. /\ calls[c].kind = "exchange" /\ calls[c].pc = "ask" /\ auth' = auth /\ calls[c] \in CallRecords
      /\ calls[c].epoch <= tokens.epoch
  BY CallFacts DEF SignIn!ExchangeAnswered, CallOK, EpochOK
<1>2. tokens \in TokenStores /\ auth \in SignIns /\ web \in Webs /\ tokens.legacy \in {0, 1} /\ tokens.epoch \in Nat
      /\ auth.attempt \in Nat
  BY DEF AccountInvariant, AccountTypes, TokenStores, SignIns
<1>3. CASE tokens.legacy = 0 /\ SignIn!Finished(c, "ended") /\ UNCHANGED <<tokens, web>>
  <2>1. TypesNext /\ WebSame /\ TokensSame /\ AuthSame
    BY <1>1, <1>3, TypesKept DEF TypesNext
  <2>2. "ended" \in Statuses
    BY DEF Statuses
  <2> QED
    BY <1>1, <1>3, <2>1, <2>2, FinishStep
<1>4. CASE tokens.legacy # 0
  <2>1. Issue(web, 1) /\ web.of[1] > web.outAt
    BY <1>4 DEF AccountInvariant, StoreOK
  <2>2. CASE /\ SignIn!Unissued # {} /\ web' = SignIn!Issued(1, web.of[1])
             /\ calls' = [calls EXCEPT ![c].pc = "got", ![c].token = SignIn!Fresh]
             /\ UNCHANGED <<tokens, posted>>
    <3>1. PICK old : old = 1
      OBVIOUS
    <3>2. PICK login \in 0..MaxLogins : login = web.of[1]
      BY <2>1 DEF AccountInvariant, AccountTypes, Webs, Issue
    <3>3. web' \in Webs /\ Issues(old, login, SignIn!Fresh)
      BY <2>1, <2>2, <3>1, <3>2, IssuedIs
    <3>4. TypesNext /\ TokensSame /\ AuthSame
      BY <1>1, <2>2, <3>3, TypesKept DEF TypesNext
    <3>5. /\ calls[c].epoch = tokens.epoch => login > web.outAt
          /\ calls[c].kind = "exchange" => old = 1 /\ Issue(web, 1)
      BY <2>1, <3>1, <3>2
    <3>6. PICK f : f = SignIn!Fresh
      OBVIOUS
    <3> QED
      BY <1>1, <2>2, <3>3, <3>4, <3>5, <3>6, IssueStep
  <2>3. CASE /\ calls' = [calls EXCEPT ![c].pc = "got", ![c].token = 1]
             /\ UNCHANGED <<tokens, posted, web>>
    <3>1. PICK k : k = [calls[c] EXCEPT !.pc = "got", !.token = 1]
      OBVIOUS
    <3>2. 1 \in 0..MaxTokens + MaxLogins
      BY AccountAssumption
    <3>3. k \in CallRecords /\ k.pc = "got" /\ k.kind = "exchange" /\ k.token = 1 /\ k.epoch = calls[c].epoch
      BY <1>1, <3>1, <3>2 DEF CallRecords
    <3>4. calls' = [calls EXCEPT ![c] = k]
      BY <2>3, <3>1 DEF AccountInvariant, AccountTypes, CallRecords
    <3>5. CallOK(k, tokens, auth, web)
      BY <1>1, <2>1, <3>3, GotOK
    <3>6. TypesNext /\ WebSame /\ TokensSame /\ AuthSame
      BY <1>1, <2>3, TypesKept DEF TypesNext
    <3>7. Says /\ Replaced(c, k)
      BY <2>3, <3>3, <3>4, ReplacedIs DEF Says
    <3> QED
      BY <1>1, <3>3, <3>5, <3>6, <3>7, SameStep
  <2>4. CASE /\ web.state[1] # "valid" /\ tokens' = [tokens EXCEPT !.legacy = 0]
             /\ SignIn!Finished(c, "ended") /\ UNCHANGED web
    <3>1. /\ tokens' \in TokenStores /\ tokens'.mem = tokens.mem /\ tokens'.disk = tokens.disk
          /\ tokens'.epoch = tokens.epoch /\ tokens'.legacy = 0
      BY <1>2, <2>4, LegacyForgotten
    <3>2. TypesNext
      BY <1>1, <1>2, <2>4, <3>1 DEF TypesNext
    <3>3. Onward
      <4>1. tokens.epoch <= tokens'.epoch /\ auth.attempt <= auth'.attempt
        BY <1>1, <1>2, <3>1
      <4> QED
        BY <2>4, <3>1, <3>2, <4>1, QuietOnward DEF AccountInvariant
    <3>4. StoreOK'
      BY <1>1, <2>4, <3>1, Zenon DEF AccountInvariant, StoreOK, Issue
    <3>5. StillHeld(c) /\ web.revoking \subseteq web'.revoking
      <4>1. ASSUME NEW t \in SignIn!Tokens, web'.state[t] = "valid", t \notin web'.dropped
            PROVE  \/ t \in {tokens'.mem, tokens'.legacy}
                   \/ /\ web.state[t] = "valid" /\ t \notin web.dropped /\ t \notin {tokens.mem, tokens.legacy}
                      /\ ~InHandOf(calls[c], t)
        BY <1>1, <1>2, <2>4, <3>1, <4>1, TokensArePositive DEF InHandOf
      <4> QED
        BY <2>4, <4>1, Zenon DEF StillHeld
    <3>6. "ended" \in Statuses
      BY DEF Statuses
    <3> QED
      BY <2>4, <3>1, <3>2, <3>3, <3>4, <3>5, <3>6, EndStep
  <2> QED
    BY <1>4, <2>2, <2>3, <2>4 DEF SignIn!ExchangeAnswered, SignIn!None
<1> QED
  BY <1>3, <1>4 DEF SignIn!ExchangeAnswered, SignIn!None

LEMMA LinkSet ==
    ASSUME AccountInvariant, NEW l, NEW s \in {"none", "open", "approved", "denied", "used"},
           web' = [web EXCEPT !.link[l] = s]
    PROVE  web' \in Webs /\ WebSame
<1>1. web \in Webs
  BY DEF AccountInvariant, AccountTypes
<1>2. PICK link : link = [web.link EXCEPT ![l] = s]
  OBVIOUS
<1>3. web.link \in [SignIn!Logins -> {"none", "open", "approved", "denied", "used"}]
  BY <1>1 DEF Webs
<1>4. link \in [SignIn!Logins -> {"none", "open", "approved", "denied", "used"}]
  BY <1>2, <1>3
<1>5. web' = [web EXCEPT !.link = link]
  BY <1>1, <1>2 DEF Webs
<1>6. web' \in Webs
  BY <1>1, <1>4, <1>5 DEF Webs
<1> QED
  BY <1>1, <1>5, <1>6 DEF Webs, WebSame

LEMMA StartAnsweredStep ==
    ASSUME AccountInvariant, NEW c \in CallPlaces, SignIn!StartAnswered(c) PROVE AccountInvariant'
<1>1. /\ calls[c].kind = "start" /\ calls[c].pc = "ask" /\ tokens.legacy = 0
      /\ UNCHANGED <<tokens, auth>>
  BY CallFacts DEF SignIn!StartAnswered, CallOK, ShapeOK, LegacyOK
<1>2. CASE web' = [web EXCEPT !.link[web.logins] = "open"] /\ SignIn!Finished(c, "ok")
  <2>1. web' \in Webs /\ WebSame
    BY <1>2, LinkSet
  <2>2. TypesNext /\ TokensSame /\ AuthSame
    BY <1>1, <2>1, TypesKept DEF TypesNext
  <2>3. "ok" \in Statuses
    BY DEF Statuses
  <2> QED
    BY <1>1, <1>2, <2>1, <2>2, <2>3, FinishStep
<1>3. CASE web' = SignIn!Lose(web) /\ SignIn!Finished(c, "failed")
  <2>1. TypesNext /\ WebSame /\ TokensSame /\ AuthSame
    BY <1>1, <1>3, TypesKept, LoseIs DEF TypesNext
  <2> QED
    BY <1>1, <1>3, <2>1, FinishStep, StatusNames
<1> QED
  BY <1>2, <1>3 DEF SignIn!StartAnswered

LEMMA PollFacts ==
    ASSUME AccountInvariant, NEW c \in CallPlaces, calls[c].kind = "poll", calls[c].pc = "ask"
    PROVE  /\ calls[c].token \in SignIn!Logins /\ tokens.legacy = 0
           /\ calls[c].epoch = tokens.epoch => calls[c].token > web.outAt
BY CallFacts DEF CallOK, TokenOK, EpochOK, LegacyOK

LEMMA PollAnsweredStep ==
    ASSUME AccountInvariant, NEW c \in CallPlaces, SignIn!PollAnswered(c) PROVE AccountInvariant'
<1>1. calls[c].kind = "poll" /\ calls[c].pc = "ask" /\ UNCHANGED <<tokens, auth>>
  BY DEF SignIn!PollAnswered
<1>2. PICK l \in SignIn!Logins : l = calls[c].token
  BY <1>1, PollFacts
<1>3. tokens.legacy = 0 /\ (calls[c].epoch = tokens.epoch => l > web.outAt)
  BY <1>1, <1>2, PollFacts
<1>4. CASE web' = web /\ \E s \in {"pending", "denied", "expired"} : SignIn!Finished(c, s)
  <2>1. TypesNext /\ WebSame /\ TokensSame /\ AuthSame
    BY <1>1, <1>4, TypesKept DEF TypesNext
  <2>2. PICK s \in Statuses : SignIn!Finished(c, s)
    BY <1>4 DEF Statuses
  <2> QED
    BY <1>1, <1>3, <2>1, <2>2, FinishStep
<1>5. CASE /\ SignIn!Unissued # {} /\ web' = [SignIn!Issued(0, l) EXCEPT !.link[l] = "used"]
           /\ calls' = [calls EXCEPT ![c].pc = "got", ![c].token = SignIn!Fresh]
           /\ posted' = posted
  <2>1. PICK old : old = 0
    OBVIOUS
  <2>2. PICK login \in 0..MaxLogins : login = l
    BY DEF SignIn!Logins
  <2>3. PICK w : w = SignIn!Issued(old, login)
    OBVIOUS
  <2>4. w \in Webs
    BY <1>5, <2>1, <2>3, IssuedIs
  <2>5. PICK link \in [SignIn!Logins -> {"none", "open", "approved", "denied", "used"}] : link = [w.link EXCEPT ![l] = "used"]
    <3>1. w.link \in [SignIn!Logins -> {"none", "open", "approved", "denied", "used"}]
      BY <2>4 DEF Webs
    <3> QED
      BY <3>1
  <2>6. web' = [w EXCEPT !.link = link]
    BY <1>5, <2>1, <2>2, <2>3, <2>4, <2>5 DEF Webs
  <2>7. old # 0 => Issue(web, old)
    BY <2>1
  <2>8. web' \in Webs /\ Issues(old, login, SignIn!Fresh)
    <3> HIDE DEF SignIn!Fresh, SignIn!Issued, SignIn!Unissued
    <3> QED
      BY <1>5, <2>3, <2>6, <2>7, LinkedIs
  <2>9. TypesNext /\ TokensSame /\ AuthSame
    BY <1>1, <2>8, TypesKept DEF TypesNext
  <2>10. PICK f : f = SignIn!Fresh
    OBVIOUS
  <2> QED
    BY <1>1, <1>3, <1>5, <2>2, <2>8, <2>9, <2>10, IssueStep
<1> QED
  BY <1>2, <1>4, <1>5 DEF SignIn!PollAnswered, SignIn!None

LEMMA PollLostStep ==
    ASSUME AccountInvariant, NEW c \in CallPlaces, SignIn!PollAnswerLost(c) PROVE AccountInvariant'
<1>1. /\ calls[c].kind = "poll" /\ calls[c].pc = "ask" /\ UNCHANGED <<tokens, auth>>
      /\ SignIn!Finished(c, "pending") /\ "pending" \in Statuses
  BY DEF SignIn!PollAnswerLost, Statuses
<1>2. PICK l \in SignIn!Logins : l = calls[c].token
  BY <1>1, PollFacts
<1>3. tokens.legacy = 0
  BY <1>1, PollFacts
<1>4. CASE web' = SignIn!Lose(web)
  <2>1. TypesNext /\ WebSame /\ TokensSame /\ AuthSame
    BY <1>1, <1>4, TypesKept, LoseIs DEF TypesNext
  <2> QED
    BY <1>1, <1>3, <2>1, FinishStep
<1>5. CASE /\ SignIn!Unissued # {}
           /\ web' = [SignIn!Lose(SignIn!Issued(0, l)) EXCEPT !.link[l] = "used", !.dropped = @ \cup {SignIn!Fresh}]
  <2>1. PICK old : old = 0
    OBVIOUS
  <2>2. PICK login \in 0..MaxLogins : login = l
    BY DEF SignIn!Logins
  <2>3. PICK w : w = SignIn!Issued(old, login)
    OBVIOUS
  <2>4. w \in Webs
    BY <1>5, <2>1, <2>3, IssuedIs
  <2>5. PICK link \in [SignIn!Logins -> {"none", "open", "approved", "denied", "used"}] : link = [w.link EXCEPT ![l] = "used"]
    <3>1. w.link \in [SignIn!Logins -> {"none", "open", "approved", "denied", "used"}]
      BY <2>4 DEF Webs
    <3> QED
      BY <3>1
  <2>6. web' = [w EXCEPT !.losses = w.losses + 1, !.link = link, !.dropped = w.dropped \cup {SignIn!Fresh}]
    BY <1>5, <2>1, <2>2, <2>3, <2>4, <2>5 DEF SignIn!Lose, Webs
  <2>7. old # 0 => Issue(web, old)
    BY <2>1
  <2>8. web' \in Webs /\ Issues(old, login, SignIn!Fresh) /\ SignIn!Fresh \in web'.dropped
    <3> HIDE DEF SignIn!Fresh, SignIn!Issued, SignIn!Unissued
    <3> QED
      BY <1>5, <2>3, <2>6, <2>7, LostIs
  <2>9. TypesNext /\ TokensSame /\ AuthSame
    BY <1>1, <2>8, TypesKept DEF TypesNext
  <2>10. Onward /\ StoreOK'
    BY <2>8, <2>9, IssuesOnward
  <2>11. StillHeld(c) /\ web.revoking \subseteq web'.revoking
    <3>1. ASSUME NEW t \in SignIn!Tokens, web'.state[t] = "valid", t \notin web'.dropped
          PROVE  web.state[t] = "valid" /\ t \notin web.dropped
      BY <2>1, <2>8, <3>1, TokensArePositive DEF Issues
    <3>2. ASSUME NEW t PROVE ~InHandOf(calls[c], t)
      BY <1>1 DEF InHandOf
    <3>3. tokens'.mem = tokens.mem /\ tokens'.legacy = tokens.legacy
      BY <1>1
    <3>4. web.revoking \subseteq web'.revoking
      BY <2>8 DEF Issues
    <3> QED
      BY <3>1, <3>2, <3>3, <3>4, Zenon DEF StillHeld
  <2>12. tokens'.legacy = 0
    BY <1>1, <1>3
  <2> QED
    BY <1>1, <2>9, <2>10, <2>11, <2>12, EndStep
<1> QED
  BY <1>2, <1>4, <1>5 DEF SignIn!PollAnswerLost, SignIn!None

LEMMA RevokedStep == ASSUME AccountInvariant, NEW t \in SignIn!Tokens, SignIn!Revoked(t) PROVE AccountInvariant'
<1>1. /\ UNCHANGED <<tokens, auth, calls, posted>>
      /\ \/ web' = [SignIn!Ended(t) EXCEPT !.revoking = @ \ {t}]
         \/ web' = [SignIn!Lose(web) EXCEPT !.revoking = @ \ {t}, !.dropped = @ \cup {t}]
  BY DEF SignIn!Revoked
<1>2. web \in Webs
  BY DEF AccountInvariant, AccountTypes
<1>3. PICK R \in SUBSET SignIn!Tokens : R = web.revoking \ {t}
  <2>1. web.revoking \ {t} \in SUBSET SignIn!Tokens
    BY <1>2 DEF Webs
  <2> QED
    BY <2>1
<1>4. \/ web' = [SignIn!Ended(t) EXCEPT !.revoking = R]
      \/ web' = [SignIn!Lose(web) EXCEPT !.revoking = R, !.dropped = @ \cup {t}]
  BY <1>1, <1>2, <1>3 DEF SignIn!Ended, SignIn!Lose, Webs
<1>5. Gone(t) /\ web'.revoking = R
  BY <1>4, EndedIs
<1>6. TypesNext /\ TokensSame /\ AuthSame
  BY <1>1, <1>5, TypesKept DEF TypesNext, Gone
<1>7. Onward /\ StoreOK'
  BY <1>5, <1>6, GoneOnward
<1>8. ASSUME NEW u \in SignIn!Tokens, web'.state[u] = "valid", u \notin web'.dropped
      PROVE  web.state[u] = "valid" /\ u \notin web.dropped /\ (u \in web.revoking => u \in web'.revoking)
  BY <1>3, <1>5, <1>8 DEF Gone
<1>9. Accounted'
  <2>1. tokens'.mem = tokens.mem /\ tokens'.legacy = tokens.legacy
    BY <1>1
  <2> QED
    BY <1>1, <1>8, <2>1, AccountedAlone, Zenon DEF AccountInvariant
<1> QED
  BY <1>1, <1>6, <1>7, <1>9, NoCallStep DEF Tells

LEMMA ServerEndsStep ==
    ASSUME AccountInvariant, NEW login, SignIn!ServerEnds(login) PROVE AccountInvariant'
<1>1. UNCHANGED <<tokens, auth, calls, posted>>
  BY DEF SignIn!ServerEnds
<1>2. web \in Webs
  BY DEF AccountInvariant, AccountTypes
<1>3. PICK ofIt : ofIt = {t \in SignIn!Tokens : web.of[t] = login /\ web.state[t] \in {"valid", "rotated"}}
  OBVIOUS
<1>4. PICK st : st = [t \in SignIn!Tokens |-> IF t \in ofIt THEN "ended" ELSE web.state[t]]
  OBVIOUS
<1>5. st \in [SignIn!Tokens -> {"unissued", "valid", "rotated", "ended"}]
  BY <1>2, <1>4 DEF Webs
<1>6. PICK n \in Nat : n = web.losses + 1
  BY <1>2 DEF Webs
<1>7. web' = [web EXCEPT !.losses = n, !.state = st]
  BY <1>2, <1>3, <1>4, <1>6 DEF SignIn!ServerEnds, SignIn!Lose, Webs
<1>8. web' \in Webs
  BY <1>2, <1>5, <1>6, <1>7 DEF Webs
<1>9. /\ web'.state = st /\ web'.of = web.of /\ web'.logins = web.logins /\ web'.outAt = web.outAt
      /\ web'.dropped = web.dropped /\ web'.revoking = web.revoking
  BY <1>2, <1>7 DEF Webs
<1>10. TypesNext /\ TokensSame /\ AuthSame
  BY <1>1, <1>8, TypesKept DEF TypesNext
<1>11. ASSUME NEW u, Issue(web, u) PROVE Issue(web', u) /\ web'.of[u] = web.of[u]
  BY <1>4, <1>9, <1>11 DEF Issue
<1>12. web.state[1] \in {"rotated", "ended"} => web'.state[1] \in {"rotated", "ended"}
  BY <1>4, <1>9, TokensArePositive
<1>13. tokens.epoch <= tokens'.epoch /\ auth.attempt <= auth'.attempt /\ web.logins <= web'.logins
  BY <1>9, <1>10, AccountAssumption DEF AccountInvariant, AccountTypes, TokenStores, SignIns, Webs, TokensSame, AuthSame
<1>14. Onward
  BY <1>9, <1>10, <1>11, <1>12, <1>13, Zenon DEF Onward, TokensSame
<1>15. StoreOK'
  BY <1>9, <1>10, <1>11, Zenon DEF AccountInvariant, StoreOK, TokensSame, AuthSame
<1>16. ASSUME NEW u \in SignIn!Tokens, web'.state[u] = "valid", u \notin web'.dropped
       PROVE  web.state[u] = "valid" /\ u \notin web.dropped
  BY <1>4, <1>9, <1>16
<1>17. Accounted'
  <2>1. tokens'.mem = tokens.mem /\ tokens'.legacy = tokens.legacy /\ web'.revoking = web.revoking
    BY <1>1, <1>9
  <2> QED
    BY <1>1, <1>16, <2>1, AccountedAlone, Zenon DEF AccountInvariant
<1> QED
  BY <1>1, <1>10, <1>14, <1>15, <1>17, NoCallStep DEF Tells

\* A step that touches neither a call nor what the invariants say of the store.
LEMMA StillStep ==
    ASSUME AccountInvariant, UNCHANGED calls, TypesNext, WebSame, TokensSame, auth'.session = auth.session,
           auth'.link \in {0, auth.link}, auth.attempt <= auth'.attempt, Tells
    PROVE  AccountInvariant'
<1>1. Onward
  <2>1. tokens.epoch <= tokens'.epoch
    BY DEF AccountInvariant, AccountTypes, TokenStores, TokensSame
  <2> QED
    BY <2>1, QuietOnward, Zenon DEF AccountInvariant, WebSame, TokensSame
<1>2. StoreOK'
  BY Zenon DEF AccountInvariant, StoreOK, WebSame, TokensSame, Issue
<1>3. Accounted'
  BY AccountedAlone, Zenon DEF AccountInvariant, WebSame, TokensSame
<1> QED
  BY <1>1, <1>2, <1>3, NoCallStep

LEMMA UserAnswersStep ==
    ASSUME AccountInvariant, NEW l, NEW answer \in {"approved", "denied"}, SignIn!UserAnswersLink(l, answer)
    PROVE  AccountInvariant'
<1>1. UNCHANGED <<tokens, auth, calls, posted>> /\ web' = [web EXCEPT !.link[l] = answer]
  BY DEF SignIn!UserAnswersLink
<1>2. web' \in Webs /\ WebSame
  BY <1>1, LinkSet
<1>3. TypesNext /\ TokensSame /\ AuthSame
  BY <1>1, <1>2, TypesKept DEF TypesNext
<1>4. auth.attempt <= auth'.attempt
  BY <1>1 DEF AccountInvariant, AccountTypes, SignIns
<1> QED
  BY <1>1, <1>2, <1>3, <1>4, StillStep DEF Tells, AuthSame

LEMMA CancelStep == ASSUME AccountInvariant, SignIn!CancelLogin PROVE AccountInvariant'
<1>1. /\ UNCHANGED <<tokens, calls, posted, web>>
      /\ auth' = [auth EXCEPT !.link = 0, !.timer = FALSE, !.attempt = auth.attempt + 1, !.starting = FALSE]
  BY DEF SignIn!CancelLogin, SignIn!NoLink, SignIn!None, AccountInvariant, AccountTypes, SignIns
<1>2. auth \in SignIns /\ auth.attempt \in Nat
  BY DEF AccountInvariant, AccountTypes, SignIns
<1>3. auth' \in SignIns
  <2>1. PICK n \in Nat : n = auth.attempt + 1
    BY <1>2
  <2> QED
    BY <1>1, <1>2, <2>1 DEF SignIns
<1>4. auth'.session = auth.session /\ auth'.link = 0 /\ auth'.attempt = auth.attempt + 1
  BY <1>1, <1>2 DEF SignIns
<1>5. TypesNext /\ WebSame /\ TokensSame
  BY <1>1, <1>3, TypesKept DEF TypesNext
<1>6. auth.attempt <= auth'.attempt
  BY <1>2, <1>4
<1> QED
  BY <1>1, <1>4, <1>5, <1>6, StillStep DEF Tells

\* A call takes a free place.
LEMMA StartedIs ==
    ASSUME AccountInvariant, NEW k \in CallRecords, SignIn!Started(k)
    PROVE  \E c \in CallPlaces : Replaced(c, k) /\ calls[c].pc = "none"
<1>1. SignIn!FreePlaces # {} /\ SignIn!FreePlaces \subseteq Nat
  BY AccountAssumption DEF SignIn!Started, SignIn!FreePlaces
<1>2. \E c \in SignIn!FreePlaces : \A d \in SignIn!FreePlaces : c <= d
  BY <1>1, LeastName, Zenon
<1>3. SignIn!Place \in SignIn!FreePlaces
  BY <1>2, Zenon DEF SignIn!Place
<1>4. PICK c \in CallPlaces : c = SignIn!Place /\ calls[c].kind = "none"
  BY <1>3 DEF SignIn!FreePlaces
<1>5. calls[c].pc = "none"
  BY <1>4, CallFacts DEF CallOK, ShapeOK
<1>6. Replaced(c, k)
  BY <1>4, ReplacedIs DEF SignIn!Started
<1> QED
  BY <1>5, <1>6

LEMMA StartStep ==
    ASSUME AccountInvariant, NEW k \in CallRecords, SignIn!Started(k), k.pc \notin {"got", "revoke"},
           TypesNext, Onward, CallOK(k, tokens', auth', web'), Tells, StoreOK',
           web'.state = web.state, web.revoking \subseteq web'.revoking, web.dropped \subseteq web'.dropped, tokens'.mem = tokens.mem,
           tokens'.legacy = tokens.legacy
    PROVE  AccountInvariant'
<1>1. PICK c \in CallPlaces : Replaced(c, k) /\ calls[c].pc = "none"
  BY StartedIs
<1>2. Accounted'
  BY <1>1, AccountedByCall, Zenon DEF AccountInvariant, InHandOf
<1> QED
  BY <1>1, <1>2, OneCallStep

LEMMA LoginStep == ASSUME AccountInvariant, SignIn!StartLogin PROVE AccountInvariant'
<1>1. /\ auth.session = "none" /\ web.logins < MaxLogins /\ UNCHANGED <<tokens, posted>>
      /\ auth' = [auth EXCEPT !.attempt = @ + 1, !.starting = TRUE] /\ web' = [web EXCEPT !.logins = @ + 1]
      /\ SignIn!Started(SignIn!Call("start", "ask", 0, auth.attempt + 1))
  BY DEF SignIn!StartLogin
<1>2. /\ auth \in SignIns /\ web \in Webs /\ tokens \in TokenStores /\ web.outAt <= web.logins /\ web.logins \in Nat
      /\ web.outAt \in Int
  BY DEF AccountInvariant, AccountTypes, StoreOK, Webs
<1>3. PICK n \in Nat : n = auth.attempt + 1
  BY <1>2 DEF SignIns
<1>4. PICK m \in 0..MaxLogins : m = web.logins + 1
  BY <1>1, <1>2, AccountAssumption
<1>5. auth' = [auth EXCEPT !.attempt = n, !.starting = TRUE] /\ web' = [web EXCEPT !.logins = m]
  BY <1>1, <1>2, <1>3, <1>4 DEF SignIns, Webs
<1>6. auth' \in SignIns /\ auth'.session = auth.session /\ auth'.link = auth.link /\ auth'.attempt = n
  BY <1>2, <1>5 DEF SignIns
<1>7. web' \in Webs
  BY <1>2, <1>5 DEF Webs
<1>8. /\ web'.state = web.state /\ web'.of = web.of /\ web'.logins = m /\ web'.outAt = web.outAt
      /\ web'.dropped = web.dropped /\ web'.revoking = web.revoking
  BY <1>2, <1>5 DEF Webs
<1>9. TypesNext
  BY <1>1, <1>2, <1>6, <1>7 DEF TypesNext
<1>10. tokens.legacy = 0
  BY <1>1 DEF AccountInvariant, StoreOK
<1>11. web.logins <= m /\ auth.attempt <= n /\ auth.attempt # n /\ web.outAt < m /\ m >= 1
  BY <1>2, <1>3, <1>4 DEF SignIns
<1>12. tokens.epoch <= tokens.epoch /\ 0 <= tokens.epoch
  BY <1>2 DEF TokenStores
<1>13. Onward
  BY <1>1, <1>6, <1>8, <1>11, <1>12, Zenon DEF Onward, Issue
<1>14. StoreOK'
  <2>1. web.outAt <= m
    BY <1>2, <1>4
  <2> QED
    BY <1>1, <1>6, <1>8, <2>1, Zenon DEF AccountInvariant, StoreOK, Issue
<1>15. PICK k : k = SignIn!Call("start", "ask", 0, n)
  OBVIOUS
<1>16. k \in CallRecords /\ k.kind = "start" /\ k.pc = "ask" /\ k.token = 0 /\ k.epoch = 0 /\ k.attempt = n
  <2>1. 0 \in 0..MaxTokens + MaxLogins
    BY AccountAssumption
  <2> QED
    BY <1>15, <2>1 DEF SignIn!Call, SignIn!NoCall, SignIn!None, CallRecords, CallKinds
<1>17. CallOK(k, tokens', auth', web')
  <2>1. ShapeOK(k) /\ TokenOK(k, web')
    BY <1>16 DEF ShapeOK, TokenOK
  <2>2. EpochOK(k, tokens', web')
    BY <1>1, <1>12, <1>16 DEF EpochOK
  <2>3. StartOK(k, auth', web')
    BY <1>6, <1>8, <1>11, <1>16, <1>2, <1>4 DEF StartOK
  <2>4. LegacyOK(k, tokens', web')
    BY <1>1, <1>10, <1>16 DEF LegacyOK
  <2> QED
    BY <2>1, <2>2, <2>3, <2>4 DEF CallOK
<1>18. SignIn!Started(k)
  BY <1>1, <1>3, <1>15
<1>19. Tells /\ tokens'.mem = tokens.mem /\ tokens'.legacy = tokens.legacy
  BY <1>1 DEF Tells
<1> QED
  BY <1>8, <1>9, <1>13, <1>14, <1>16, <1>17, <1>18, <1>19, StartStep

LEMMA NoLinkIs ==
    ASSUME NEW a \in SignIns
    PROVE  /\ SignIn!NoLink(a) \in SignIns /\ SignIn!NoLink(a).session = a.session /\ SignIn!NoLink(a).link = 0
           /\ SignIn!NoLink(a).attempt = a.attempt
BY DEF SignIns, SignIn!NoLink, SignIn!None

LEMMA PollStep == ASSUME AccountInvariant, SignIn!PollOnce PROVE AccountInvariant'
<1>1. auth.link # 0 /\ UNCHANGED <<tokens, posted, web>>
  BY DEF SignIn!PollOnce, SignIn!None
<1>2. auth \in SignIns /\ auth.attempt \in Nat /\ auth.attempt <= auth.attempt /\ tokens.epoch \in Nat
      /\ tokens.epoch <= tokens.epoch
  BY DEF AccountInvariant, AccountTypes, SignIns, TokenStores
<1>3. CASE auth' = SignIn!NoLink(auth) /\ UNCHANGED calls
  <2>1. auth' \in SignIns /\ auth'.session = auth.session /\ auth'.link = 0 /\ auth.attempt <= auth'.attempt
    BY <1>2, <1>3, NoLinkIs
  <2>2. TypesNext /\ WebSame /\ TokensSame
    BY <1>1, <2>1, TypesKept DEF TypesNext
  <2> QED
    BY <1>1, <1>3, <2>1, <2>2, StillStep DEF Tells
<1>4. CASE /\ auth' = [auth EXCEPT !.timer = FALSE, !.inFlight = TRUE]
           /\ SignIn!Started([SignIn!Call("poll", "ask", tokens.epoch, auth.attempt) EXCEPT !.token = auth.link])
  <2>1. auth' \in SignIns /\ auth'.session = auth.session /\ auth'.link = auth.link /\ auth'.attempt = auth.attempt
    BY <1>2, <1>4 DEF SignIns
  <2>2. TypesNext /\ WebSame /\ TokensSame /\ AuthSame
    BY <1>1, <2>1, TypesKept DEF TypesNext, AuthSame
  <2>3. tokens.legacy = 0 /\ auth.link > web.outAt
    BY <1>1 DEF AccountInvariant, StoreOK
  <2>4. PICK k : k = [SignIn!Call("poll", "ask", tokens.epoch, auth.attempt) EXCEPT !.token = auth.link]
    OBVIOUS
  <2>5. auth.link \in SignIn!Logins /\ auth.link \in 0..MaxTokens + MaxLogins
    BY <1>1, <1>2, AccountAssumption DEF SignIns, SignIn!Logins
  <2>6. k \in CallRecords /\ k.kind = "poll" /\ k.pc = "ask" /\ k.token = auth.link /\ k.epoch = tokens.epoch
    BY <1>2, <2>4, <2>5 DEF SignIn!Call, SignIn!NoCall, SignIn!None, CallRecords, CallKinds
  <2>7. CallOK(k, tokens, auth, web)
    <3>1. ShapeOK(k) /\ TokenOK(k, web)
      BY <2>5, <2>6 DEF ShapeOK, TokenOK
    <3>2. EpochOK(k, tokens, web)
      BY <1>2, <2>3, <2>6 DEF EpochOK
    <3>3. StartOK(k, auth, web) /\ LegacyOK(k, tokens, web)
      BY <2>3, <2>6 DEF StartOK, LegacyOK
    <3> QED
      BY <3>1, <3>2, <3>3 DEF CallOK
  <2>8. Onward /\ StoreOK'
    BY <2>2, SameIsOnward, StoreSame DEF AccountInvariant
  <2>9. CallOK(k, tokens', auth', web')
    BY <2>2, <2>6, <2>7, <2>8, CallOnward DEF AccountInvariant
  <2>10. Tells /\ tokens'.mem = tokens.mem /\ tokens'.legacy = tokens.legacy /\ web' = web
    BY <1>1 DEF Tells
  <2> QED
    BY <1>4, <2>2, <2>4, <2>6, <2>8, <2>9, <2>10, StartStep
<1> QED
  BY <1>3, <1>4 DEF SignIn!PollOnce

LEMMA ClearedStore ==
    ASSUME AccountInvariant, NEW l \in {0, tokens.legacy}
    PROVE  \A t : t = [SignIn!Cleared EXCEPT !.legacy = l] =>
                /\ t \in TokenStores /\ t.mem = 0 /\ t.disk = 0 /\ t.legacy = l /\ t.epoch = tokens.epoch + 1
<1>1. tokens \in TokenStores /\ 0 \in 0..MaxTokens /\ l \in {0, 1}
  BY AccountAssumption DEF AccountInvariant, AccountTypes, TokenStores
<1>2. PICK n \in Nat : n = tokens.epoch + 1
  BY <1>1 DEF TokenStores
<1>3. ASSUME NEW t, t = [SignIn!Cleared EXCEPT !.legacy = l]
      PROVE  /\ t \in TokenStores /\ t.mem = 0 /\ t.disk = 0 /\ t.legacy = l /\ t.epoch = tokens.epoch + 1
  <2>1. t = [tokens EXCEPT !.mem = 0, !.disk = 0, !.epoch = n, !.legacy = l]
    BY <1>2, <1>3 DEF SignIn!Cleared, SignIn!None
  <2>2. t \in TokenStores
    BY <1>1, <2>1 DEF TokenStores
  <2>3. t.mem = 0 /\ t.disk = 0 /\ t.legacy = l /\ t.epoch = n
    BY <1>1, <2>1 DEF TokenStores
  <2> QED
    BY <1>2, <2>2, <2>3
<1> QED
  BY <1>3

LEMMA LogoutStep == ASSUME AccountInvariant, SignIn!Logout PROVE AccountInvariant'
<1>1. /\ tokens' = [SignIn!Cleared EXCEPT !.legacy = 0]
      /\ auth' = [SignIn!SignedOut EXCEPT !.attempt = auth.attempt + 1, !.inFlight = auth.inFlight]
      /\ web' = [web EXCEPT !.outAt = web.logins, !.revoking = @ \cup SignIn!RevokedAtLogout]
      /\ UNCHANGED <<calls, posted>>
  BY DEF SignIn!Logout, SignIn!None
<1>2. auth \in SignIns /\ web \in Webs /\ tokens \in TokenStores
  BY DEF AccountInvariant, AccountTypes
<1>3. /\ tokens' \in TokenStores /\ tokens'.mem = 0 /\ tokens'.disk = 0 /\ tokens'.legacy = 0
      /\ tokens'.epoch = tokens.epoch + 1
  <2>1. 0 \in {0, tokens.legacy}
    OBVIOUS
  <2> QED
    BY <1>1, <2>1, ClearedStore
<1>4. PICK n \in Nat : n = auth.attempt + 1
  BY <1>2 DEF SignIns
<1>5. PICK f \in BOOLEAN : f = auth.inFlight
  BY <1>2 DEF SignIns
<1>6. auth' \in SignIns /\ auth'.session = "none" /\ auth'.link = 0 /\ auth'.attempt = n
  BY <1>1, <1>4, <1>5 DEF SignIn!SignedOut, SignIn!None, SignIns
<1>7. SignIn!RevokedAtLogout \in SUBSET SignIn!Tokens
  <2>0. tokens.legacy \in {0, 1}
    BY <1>2 DEF TokenStores
  <2>1. ASSUME NEW t \in SignIn!RevokedAtLogout PROVE t \in SignIn!Tokens
    BY <2>0, <2>1, TokensArePositive DEF SignIn!RevokedAtLogout, SignIn!None, AccountInvariant, StoreOK, Issue
  <2> QED
    BY <2>1
<1>8. PICK R \in SUBSET SignIn!Tokens : R = web.revoking \cup SignIn!RevokedAtLogout
  <2>1. web.revoking \cup SignIn!RevokedAtLogout \in SUBSET SignIn!Tokens
    BY <1>2, <1>7 DEF Webs
  <2> QED
    BY <2>1
<1>9. PICK m \in 0..MaxLogins : m = web.logins
  BY <1>2 DEF Webs
<1>10. m \in Int /\ m <= m
  BY <1>9, AccountAssumption
<1>11. web' = [web EXCEPT !.outAt = m, !.revoking = R]
  BY <1>1, <1>2, <1>8, <1>9 DEF Webs
<1>12. web' \in Webs
  BY <1>2, <1>10, <1>11 DEF Webs
<1>13. /\ web'.state = web.state /\ web'.of = web.of /\ web'.logins = web.logins /\ web'.outAt = m
       /\ web'.dropped = web.dropped /\ web'.revoking = R
  BY <1>2, <1>11 DEF Webs
<1>14. TypesNext
  BY <1>3, <1>6, <1>12 DEF TypesNext
<1>15. Onward
  <2>1. tokens.epoch <= tokens'.epoch /\ tokens'.epoch # tokens.epoch /\ auth.attempt <= auth'.attempt
        /\ auth'.attempt # auth.attempt /\ web.logins <= web'.logins
    BY <1>2, <1>3, <1>4, <1>6, <1>9, <1>10, <1>13 DEF TokenStores, SignIns
  <2> QED
    BY <1>3, <1>13, <2>1, Zenon DEF Onward, Issue
<1>16. StoreOK'
  BY <1>3, <1>6, <1>9, <1>10, <1>13 DEF StoreOK
<1>17. Accounted'
  <2>1. ASSUME NEW t \in SignIn!Tokens, web'.state[t] = "valid", t \notin web'.dropped
        PROVE  \/ t \in {tokens'.mem, tokens'.legacy} \/ t \in web'.revoking
               \/ /\ web.state[t] = "valid" /\ t \notin web.dropped /\ t \notin {tokens.mem, tokens.legacy}
                  /\ t \in web.revoking => t \in web'.revoking
    <3>1. CASE t = tokens.mem
      BY <1>8, <1>13, <3>1, TokensArePositive DEF SignIn!RevokedAtLogout, SignIn!None
    <3>2. CASE t = tokens.legacy
      <4>1. tokens.legacy # 0 /\ auth.session = "legacy" /\ tokens.mem = 0
        BY <3>2, TokensArePositive DEF AccountInvariant, StoreOK
      <4> QED
        BY <1>8, <1>13, <3>2, <4>1 DEF SignIn!RevokedAtLogout, SignIn!None
    <3>3. CASE t \notin {tokens.mem, tokens.legacy}
      BY <1>8, <1>13, <2>1, <3>3
    <3> QED
      BY <3>1, <3>2, <3>3
  <2> QED
    BY <1>1, <2>1, AccountedAlone, Zenon DEF AccountInvariant
<1> QED
  BY <1>1, <1>14, <1>15, <1>16, <1>17, NoCallStep DEF Tells

\* The session ends, whatever is stored by then: all but the plain-text token is forgotten.
LEMMA SessionOverStep ==
    ASSUME AccountInvariant, NEW a \in SignIns, a.attempt = auth.attempt, a.link = auth.link, tokens.legacy = 0,
           SignIn!SessionOver(a), UNCHANGED calls, Tells
    PROVE  AccountInvariant'
<1>1. /\ tokens' = SignIn!Cleared /\ auth' = [a EXCEPT !.session = "none", !.inactive = FALSE]
      /\ web' = IF tokens.mem # 0 /\ SignIn!Accepts(tokens.mem)
                THEN [web EXCEPT !.dropped = @ \cup {tokens.mem}] ELSE web
  BY DEF SignIn!SessionOver, SignIn!None
<1>2. auth \in SignIns /\ web \in Webs /\ tokens \in TokenStores /\ (tokens.mem # 0 => tokens.mem \in SignIn!Tokens)
  BY DEF AccountInvariant, AccountTypes, StoreOK, Issue
<1>3. tokens' = [SignIn!Cleared EXCEPT !.legacy = tokens.legacy]
  BY <1>1, <1>2 DEF SignIn!Cleared, TokenStores
<1>4. /\ tokens' \in TokenStores /\ tokens'.mem = 0 /\ tokens'.disk = 0 /\ tokens'.legacy = 0
      /\ tokens'.epoch = tokens.epoch + 1
  BY <1>3, ClearedStore
<1>5. auth' \in SignIns /\ auth'.link = auth.link /\ auth'.attempt = auth.attempt
  BY <1>1 DEF SignIns
<1>6. /\ web' \in Webs /\ web'.state = web.state /\ web'.of = web.of /\ web'.logins = web.logins
      /\ web'.outAt = web.outAt /\ web.dropped \subseteq web'.dropped /\ web'.revoking = web.revoking
      /\ tokens.mem # 0 /\ web.state[tokens.mem] = "valid" => tokens.mem \in web'.dropped
  <2>1. CASE tokens.mem # 0 /\ SignIn!Accepts(tokens.mem)
    <3>1. PICK S \in SUBSET SignIn!Tokens : S = web.dropped \cup {tokens.mem}
      <4>1. web.dropped \cup {tokens.mem} \in SUBSET SignIn!Tokens
        BY <1>2, <2>1 DEF Webs
      <4> QED
        BY <4>1
    <3>2. web' = [web EXCEPT !.dropped = S]
      BY <1>1, <1>2, <2>1, <3>1 DEF Webs
    <3>3. web' \in Webs
      BY <1>2, <3>2 DEF Webs
    <3>4. /\ web'.state = web.state /\ web'.of = web.of /\ web'.logins = web.logins
          /\ web'.outAt = web.outAt /\ web'.dropped = S /\ web'.revoking = web.revoking
      BY <1>2, <3>2 DEF Webs
    <3> QED
      BY <3>1, <3>3, <3>4
  <2>2. CASE ~(tokens.mem # 0 /\ SignIn!Accepts(tokens.mem))
    BY <1>1, <1>2, <2>2 DEF SignIn!Accepts
  <2> QED
    BY <2>1, <2>2
<1>7. TypesNext
  BY <1>4, <1>5, <1>6 DEF TypesNext
<1>8. Onward
  <2>1. tokens.epoch <= tokens'.epoch /\ auth.attempt <= auth'.attempt
    BY <1>2, <1>4, <1>5 DEF TokenStores, SignIns
  <2> QED
    BY <1>4, <1>6, <1>7, <2>1, QuietOnward DEF AccountInvariant
<1>9. StoreOK'
  BY <1>4, <1>5, <1>6 DEF AccountInvariant, StoreOK
<1>10. Accounted'
  <2>1. ASSUME NEW t \in SignIn!Tokens, web'.state[t] = "valid", t \notin web'.dropped
        PROVE  web.state[t] = "valid" /\ t \notin web.dropped /\ t \notin {tokens.mem, tokens.legacy}
    BY <1>6, <2>1, TokensArePositive
  <2> QED
    BY <1>6, <2>1, AccountedAlone, Zenon DEF AccountInvariant
<1> QED
  BY <1>7, <1>8, <1>9, <1>10, NoCallStep

\* A result applied that changes only what the dock shows.
LEMMA AppliedStep ==
    ASSUME AccountInvariant, UNCHANGED <<calls, tokens, web>>, auth' \in SignIns, auth'.attempt = auth.attempt,
           tokens.legacy # 0 => auth'.session = auth.session,
           (auth'.link = 0 \/ auth'.link = auth.link) \/ (tokens.legacy = 0 /\ auth'.link > web.outAt), Tells
    PROVE  AccountInvariant'
<1>1. tokens \in TokenStores /\ auth \in SignIns /\ web \in Webs
  BY DEF AccountInvariant, AccountTypes
<1>2. TypesNext /\ WebSame /\ TokensSame
  BY <1>1, TypesKept DEF TypesNext
<1>3. Onward
  <2>1. tokens.epoch <= tokens'.epoch /\ auth.attempt <= auth'.attempt
    BY <1>1 DEF TokenStores, SignIns
  <2> QED
    BY <1>2, <2>1, QuietOnward DEF AccountInvariant
<1>4. StoreOK'
  <2>1. StoreOK
    BY DEF AccountInvariant
  <2>2. auth'.link # 0 => auth'.link > web.outAt
    BY <2>1 DEF StoreOK
  <2>3. tokens.legacy # 0 => auth'.link = 0
    BY <2>1 DEF StoreOK
  <2> QED
    BY <2>1, <2>2, <2>3, Zenon DEF StoreOK, Issue
<1>5. Accounted'
  BY AccountedAlone, Zenon DEF AccountInvariant
<1> QED
  BY <1>2, <1>3, <1>4, <1>5, NoCallStep

LEMMA FlagSet ==
    ASSUME NEW a \in SignIns, NEW f \in BOOLEAN
    PROVE  /\ [a EXCEPT !.inactive = f] \in SignIns /\ [a EXCEPT !.inactive = f].session = a.session
           /\ [a EXCEPT !.inactive = f].link = a.link /\ [a EXCEPT !.inactive = f].attempt = a.attempt
           /\ [a EXCEPT !.timer = f] \in SignIns /\ [a EXCEPT !.timer = f].session = a.session
           /\ [a EXCEPT !.timer = f].link = a.link /\ [a EXCEPT !.timer = f].attempt = a.attempt
           /\ [a EXCEPT !.inFlight = f] \in SignIns /\ [a EXCEPT !.inFlight = f].session = a.session
           /\ [a EXCEPT !.inFlight = f].link = a.link /\ [a EXCEPT !.inFlight = f].attempt = a.attempt
           /\ [a EXCEPT !.starting = f] \in SignIns /\ [a EXCEPT !.starting = f].session = a.session
           /\ [a EXCEPT !.starting = f].link = a.link /\ [a EXCEPT !.starting = f].attempt = a.attempt
<1>1. /\ [a EXCEPT !.inactive = f] \in SignIns /\ [a EXCEPT !.inactive = f].session = a.session
      /\ [a EXCEPT !.inactive = f].link = a.link /\ [a EXCEPT !.inactive = f].attempt = a.attempt
  BY DEF SignIns
<1>2. /\ [a EXCEPT !.timer = f] \in SignIns /\ [a EXCEPT !.timer = f].session = a.session
      /\ [a EXCEPT !.timer = f].link = a.link /\ [a EXCEPT !.timer = f].attempt = a.attempt
  BY DEF SignIns
<1>3. /\ [a EXCEPT !.inFlight = f] \in SignIns /\ [a EXCEPT !.inFlight = f].session = a.session
      /\ [a EXCEPT !.inFlight = f].link = a.link /\ [a EXCEPT !.inFlight = f].attempt = a.attempt
  BY DEF SignIns
<1>4. /\ [a EXCEPT !.starting = f] \in SignIns /\ [a EXCEPT !.starting = f].session = a.session
      /\ [a EXCEPT !.starting = f].link = a.link /\ [a EXCEPT !.starting = f].attempt = a.attempt
  BY DEF SignIns
<1> QED
  BY <1>1, <1>2, <1>3, <1>4

LEMMA NewestNews ==
    ASSUME AccountInvariant, posted # <<>>, NEW n, n = posted[1]
    PROVE  n \in NewsRecords /\ NewsOK(n, tokens, auth, web)
<1>1. posted \in Seq(NewsRecords) /\ 1 \in 1..Len(posted)
  BY DEF AccountInvariant, AccountTypes
<1> QED
  BY <1>1 DEF AccountInvariant, PostedOK

LEMMA CheckedStep ==
    ASSUME AccountInvariant, Tells, UNCHANGED calls, NEW status, SignIn!Checked(auth, status)
    PROVE  AccountInvariant'
<1>1. auth \in SignIns
  BY DEF AccountInvariant, AccountTypes
<1>2. CASE auth' = auth /\ UNCHANGED <<tokens, web>>
  BY <1>1, <1>2, AppliedStep
<1>3. CASE auth.session = "plugin" /\ SignIn!SessionOver(auth)
  <2>1. tokens.legacy = 0
    BY <1>3 DEF AccountInvariant, StoreOK
  <2> QED
    BY <1>1, <1>3, <2>1, SessionOverStep
<1>4. CASE auth' = [auth EXCEPT !.inactive = (status = "inactive")] /\ UNCHANGED <<tokens, web>>
  <2>1. PICK f \in BOOLEAN : f = (status = "inactive")
    OBVIOUS
  <2>2. auth' \in SignIns /\ auth'.session = auth.session /\ auth'.link = auth.link /\ auth'.attempt = auth.attempt
    BY <1>1, <1>4, <2>1, FlagSet
  <2> QED
    BY <1>4, <2>2, AppliedStep
<1> QED
  BY <1>2, <1>3, <1>4, Zenon DEF SignIn!Checked

LEMMA DeliverStartStep ==
    ASSUME AccountInvariant, Tells, NEW n \in NewsRecords, NewsOK(n, tokens, auth, web), n.kind = "start",
           SignIn!DeliverStart(n)
    PROVE  AccountInvariant'
<1>1. UNCHANGED <<tokens, web, calls>>
  BY DEF SignIn!DeliverStart
<1>2. auth \in SignIns /\ web \in Webs
  BY DEF AccountInvariant, AccountTypes
<1>3. tokens.legacy = 0 /\ web.logins >= 1 /\ (n.attempt = auth.attempt => web.logins > web.outAt)
  BY DEF NewsOK, StartOK
<1>4. CASE auth' = auth
  BY <1>1, <1>2, <1>4, AppliedStep
<1>5. CASE auth' = [auth EXCEPT !.starting = FALSE]
  <2>1. auth' \in SignIns /\ auth'.session = auth.session /\ auth'.link = auth.link /\ auth'.attempt = auth.attempt
    BY <1>2, <1>5, FlagSet
  <2> QED
    BY <1>1, <2>1, AppliedStep
<1>6. CASE n.attempt = auth.attempt /\ auth' = [auth EXCEPT !.starting = FALSE, !.link = web.logins, !.timer = TRUE]
  <2>1. PICK l \in SignIn!Logins : l = web.logins
    BY <1>2, <1>3, AccountAssumption DEF SignIn!Logins, Webs
  <2>2. auth' = [auth EXCEPT !.starting = FALSE, !.link = l, !.timer = TRUE]
    BY <1>6, <2>1
  <2>3. auth' \in SignIns
    BY <1>2, <2>2 DEF SignIns
  <2>4. auth'.session = auth.session /\ auth'.link = l /\ auth'.attempt = auth.attempt
    BY <1>2, <2>2 DEF SignIns
  <2>5. tokens.legacy = 0 /\ auth'.link > web.outAt
    BY <1>3, <1>6, <2>1, <2>4
  <2> QED
    BY <1>1, <2>3, <2>4, <2>5, AppliedStep
<1> QED
  BY <1>4, <1>5, <1>6 DEF SignIn!DeliverStart

LEMMA DeliverPollStep ==
    ASSUME AccountInvariant, Tells, NEW n \in NewsRecords, NewsOK(n, tokens, auth, web), n.kind = "poll",
           SignIn!DeliverPoll(n)
    PROVE  AccountInvariant'
<1>1. UNCHANGED <<tokens, web>>
  BY DEF SignIn!DeliverPoll
<1>2. auth \in SignIns /\ tokens \in TokenStores
  BY DEF AccountInvariant, AccountTypes
<1>3. tokens.legacy = 0
  BY DEF NewsOK
<1>4. PICK a : a = [auth EXCEPT !.inFlight = FALSE]
  OBVIOUS
<1>5. a \in SignIns /\ a.session = auth.session /\ a.link = auth.link /\ a.attempt = auth.attempt
  BY <1>2, <1>4, FlagSet
<1>6. CASE UNCHANGED calls /\ auth' = a
  BY <1>1, <1>3, <1>5, <1>6, AppliedStep
<1>7. CASE UNCHANGED calls /\ auth' = [a EXCEPT !.timer = TRUE]
  <2>1. auth' \in SignIns /\ auth'.link = auth.link /\ auth'.attempt = auth.attempt
    BY <1>5, <1>7, FlagSet
  <2> QED
    BY <1>1, <1>3, <1>7, <2>1, AppliedStep
<1>8. CASE UNCHANGED calls /\ auth' = SignIn!NoLink(a)
  <2>1. auth' \in SignIns /\ auth'.link = 0 /\ auth'.attempt = auth.attempt
    BY <1>5, <1>8, NoLinkIs
  <2> QED
    BY <1>1, <1>3, <1>8, <2>1, AppliedStep
<1>9. CASE /\ auth' = [SignIn!NoLink(a) EXCEPT !.starting = FALSE, !.session = "plugin", !.inactive = FALSE]
           /\ SignIn!Started(SignIn!Call("check", "read", 0, 0))
  <2>1. PICK b \in SignIns : b = SignIn!NoLink(a) /\ b.link = 0 /\ b.attempt = auth.attempt
    BY <1>5, NoLinkIs
  <2>2. auth' \in SignIns /\ auth'.link = 0 /\ auth'.attempt = auth.attempt
    BY <1>9, <2>1 DEF SignIns
  <2>3. TypesNext /\ WebSame /\ TokensSame
    BY <1>1, <2>2, TypesKept DEF TypesNext
  <2>4. Onward
    <3>1. tokens.epoch <= tokens'.epoch /\ auth.attempt <= auth'.attempt
      BY <1>1, <1>2, <2>2 DEF TokenStores, SignIns
    <3> QED
      BY <1>1, <2>3, <3>1, QuietOnward DEF AccountInvariant
  <2>5. StoreOK'
    BY <1>1, <1>3, <2>2, Zenon DEF AccountInvariant, StoreOK, Issue
  <2>6. PICK k : k = SignIn!Call("check", "read", 0, 0)
    OBVIOUS
  <2>7. tokens'.legacy = 0 /\ tokens' \in TokenStores
    BY <1>1, <1>2, <1>3
  <2>8. k \in CallRecords /\ CallOK(k, tokens', auth', web') /\ k.pc = "read"
    BY <2>6, <2>7, FreshCallOK
  <2> QED
    BY <1>1, <1>9, <2>3, <2>4, <2>5, <2>6, <2>8, StartStep
<1> QED
  BY <1>4, <1>6, <1>7, <1>8, <1>9 DEF SignIn!DeliverPoll

LEMMA DeliverStep == ASSUME AccountInvariant, SignIn!Deliver PROVE AccountInvariant'
<1>1. posted # <<>> /\ posted' = Tail(posted)
  BY DEF SignIn!Deliver
<1>2. Tells /\ auth \in SignIns
  BY <1>1 DEF Tells, AccountInvariant, AccountTypes
<1>3. PICK n \in NewsRecords : n = posted[1] /\ NewsOK(n, tokens, auth, web)
  BY <1>1, NewestNews
<1>4. CASE SignIn!Checked(auth, n.status) /\ UNCHANGED calls
  BY <1>2, <1>4, CheckedStep
<1>5. CASE n.kind = "start" /\ SignIn!DeliverStart(n)
  BY <1>2, <1>3, <1>5, DeliverStartStep
<1>6. CASE n.kind = "poll" /\ SignIn!DeliverPoll(n)
  BY <1>2, <1>3, <1>6, DeliverPollStep
<1>7. CASE n.kind = "exchange" /\ SignIn!DeliverExchange(n)
  <2>1. calls' = calls
    BY <1>7 DEF SignIn!DeliverExchange
  <2>2. n.status # "unreachable" => tokens.legacy = 0
    BY <1>3 DEF NewsOK
  <2>3. CASE UNCHANGED <<tokens, auth, web>>
    BY <1>2, <2>1, <2>3, AppliedStep
  <2>4. CASE n.status = "migrated" /\ auth' = [auth EXCEPT !.session = "plugin"] /\ UNCHANGED <<tokens, web>>
    <3>1. auth' \in SignIns /\ auth'.link = auth.link /\ auth'.attempt = auth.attempt
      BY <1>2, <2>4 DEF SignIns
    <3>2. tokens.legacy = 0
      BY <2>2, <2>4
    <3> QED
      BY <1>2, <2>1, <2>4, <3>1, <3>2, AppliedStep
  <2>5. CASE n.status # "unreachable" /\ SignIn!SessionOver(auth)
    BY <1>2, <2>1, <2>2, <2>5, SessionOverStep
  <2> QED
    BY <1>7, <2>3, <2>4, <2>5 DEF SignIn!DeliverExchange
<1>8. CASE n.kind = "support" /\ SignIn!DeliverSupport(n)
  <2>1. calls' = calls
    BY <1>8 DEF SignIn!DeliverSupport
  <2>2. tokens.legacy = 0
    BY <1>3, <1>8 DEF NewsOK
  <2>3. CASE UNCHANGED <<tokens, auth, web>>
    BY <1>2, <2>1, <2>3, AppliedStep
  <2>4. CASE auth' = [auth EXCEPT !.inactive = TRUE] /\ UNCHANGED <<tokens, web>>
    <3>1. auth' \in SignIns /\ auth'.link = auth.link /\ auth'.attempt = auth.attempt
      BY <1>2, <2>4, FlagSet
    <3> QED
      BY <1>2, <2>1, <2>2, <2>4, <3>1, AppliedStep
  <2>5. CASE SignIn!SessionOver(auth)
    BY <1>2, <2>1, <2>2, <2>5, SessionOverStep
  <2> QED
    BY <1>8, <2>3, <2>4, <2>5 DEF SignIn!DeliverSupport
<1> QED
  BY <1>3, <1>4, <1>5, <1>6, <1>7, <1>8, Zenon DEF SignIn!Deliver

LEMMA SupportStep == ASSUME AccountInvariant, SignIn!SupportCall PROVE AccountInvariant'
<1>1. auth.session = "plugin" /\ UNCHANGED <<tokens, auth, posted, web>>
      /\ SignIn!Started(SignIn!Call("support", "read", 0, 0))
  BY DEF SignIn!SupportCall
<1>2. TypesNext /\ WebSame /\ TokensSame /\ AuthSame
  BY <1>1, TypesKept DEF TypesNext
<1>3. tokens'.legacy = 0 /\ tokens' \in TokenStores
  BY <1>1, <1>2 DEF AccountInvariant, StoreOK, TypesNext
<1>4. PICK k : k = SignIn!Call("support", "read", 0, 0)
  OBVIOUS
<1>5. k \in CallRecords /\ CallOK(k, tokens', auth', web') /\ k.pc = "read"
  BY <1>3, <1>4, FreshCallOK
<1>6. Onward /\ StoreOK'
  BY <1>2, SameIsOnward, StoreSame DEF AccountInvariant
<1> QED
  BY <1>1, <1>2, <1>4, <1>5, <1>6, StartStep DEF Tells

LEMMA DialogClosesStep == ASSUME AccountInvariant, SignIn!DialogCloses PROVE AccountInvariant'
<1>1. /\ web' = SignIn!Lose(web) /\ UNCHANGED <<tokens, auth, posted>>
      /\ calls' = [c \in CallPlaces |->
          IF calls[c].kind # "support" THEN calls[c]
          ELSE IF calls[c].pc \in {"renew", "renewing", "got", "revoke"}
               THEN [calls[c] EXCEPT !.gone = TRUE] ELSE SignIn!NoCall]
  BY DEF SignIn!DialogCloses
<1>2. TypesNext /\ WebSame /\ TokensSame /\ AuthSame
  BY <1>1, TypesKept, LoseIs DEF TypesNext
<1>3. Onward /\ StoreOK'
  BY <1>2, SameIsOnward, StoreSame DEF AccountInvariant
<1>4. ASSUME NEW c \in CallPlaces
      PROVE  /\ calls'[c] \in CallRecords /\ CallOK(calls'[c], tokens, auth, web)
             /\ calls[c].pc \in {"got", "revoke"} => calls'[c].pc = calls[c].pc /\ calls'[c].token = calls[c].token
  <2>1. calls[c] \in CallRecords /\ CallOK(calls[c], tokens, auth, web)
    BY CallFacts
  <2>2. CASE calls'[c] = calls[c]
    BY <2>1, <2>2
  <2>3. CASE calls'[c] = [calls[c] EXCEPT !.gone = TRUE]
    <3>1. PICK k : k = [calls[c] EXCEPT !.gone = TRUE]
      OBVIOUS
    <3>2. /\ k \in CallRecords /\ k.kind = calls[c].kind /\ k.pc = calls[c].pc /\ k.token = calls[c].token
          /\ k.epoch = calls[c].epoch /\ k.attempt = calls[c].attempt
      BY <2>1, <3>1 DEF CallRecords
    <3>3. CallOK(k, tokens, auth, web)
      BY <2>1, <3>2, Zenon DEF CallOK, ShapeOK, TokenOK, EpochOK, StartOK, LegacyOK
    <3> QED
      BY <2>3, <3>1, <3>2, <3>3
  <2>4. CASE calls[c].pc \notin {"got", "revoke"} /\ calls'[c] = SignIn!NoCall
    BY <2>4, NoCallOK
  <2> QED
    BY <1>1, <2>2, <2>3, <2>4
<1>5. CallsOK'
  <2>1. ASSUME NEW c \in CallPlaces PROVE CallOK(calls'[c], tokens', auth', web')
    BY <1>2, <1>3, <1>4, CallOnward DEF AccountInvariant
  <2> QED
    BY <2>1 DEF CallsOK
<1>6. calls' \in [CallPlaces -> CallRecords]
  <2>1. ASSUME NEW c \in CallPlaces PROVE calls'[c] \in CallRecords
    BY <1>4
  <2>2. calls' = [c \in CallPlaces |-> calls'[c]]
    BY <1>1
  <2> QED
    BY <2>1, <2>2
<1>7. posted' \in Seq(NewsRecords) /\ PostedOK'
  BY <1>1, <1>2, <1>3, PostedOnward DEF AccountInvariant, Tells
<1>8. Accounted'
  <2>1. ASSUME NEW t \in SignIn!Tokens, web'.state[t] = "valid", t \notin web'.dropped
        PROVE  t \in {tokens'.mem, tokens'.legacy} \/ SignIn!InHand(t)'
    <3>1. t \in {tokens.mem, tokens.legacy} \/ SignIn!InHand(t)
      BY <1>2, <2>1, Zenon DEF AccountInvariant, Accounted, WebSame
    <3>2. SignIn!InHand(t) => SignIn!InHand(t)'
      BY <1>2, <1>4, Zenon DEF SignIn!InHand, WebSame
    <3> QED
      BY <1>1, <3>1, <3>2
  <2> QED
    BY <2>1, Zenon DEF Accounted
<1> QED
  BY <1>2, <1>3, <1>5, <1>6, <1>7, <1>8 DEF AccountInvariant, AccountTypes, TypesNext

\* OBS starts: the sign-in on disk is checked, or the plain-text one exchanged.
LEMMA NoCallIs ==
    /\ SignIn!NoCall \in CallRecords /\ SignIn!NoCall.kind = "none" /\ SignIn!NoCall.pc = "none"
    /\ SignIn!NoCall.token = 0 /\ SignIn!NoCall.epoch = 0
<1>1. SignIn!NoCall \in CallRecords
  BY AccountAssumption DEF SignIn!NoCall, SignIn!None, CallRecords, CallKinds
<1>2. /\ SignIn!NoCall.kind = "none" /\ SignIn!NoCall.pc = "none"
      /\ SignIn!NoCall.token = 0 /\ SignIn!NoCall.epoch = 0
  BY DEF SignIn!NoCall, SignIn!None
<1> QED
  BY <1>1, <1>2

LEMMA CallIs ==
    ASSUME NEW kind \in CallKinds, NEW pc \in {"read", "ask"}, NEW k, k = SignIn!Call(kind, pc, 0, 0)
    PROVE  k \in CallRecords /\ k.kind = kind /\ k.pc = pc /\ k.token = 0 /\ k.epoch = 0
<1>1. 0 \in 0..MaxTokens + MaxLogins
  BY AccountAssumption
<1> QED
  BY <1>1 DEF SignIn!Call, SignIn!NoCall, SignIn!None, CallRecords, CallKinds

LEMMA InitCallsOK ==
    ASSUME NEW stored, NEW plain, NEW tok, NEW au, NEW w, tok.epoch = 0, stored # 0 => tok.legacy = 0,
           NEW c \in CallPlaces, NEW k, k = SignIn!InitCalls(stored, plain)[c]
    PROVE  k \in CallRecords /\ CallOK(k, tok, au, w)
<1>1. \/ k = SignIn!NoCall
      \/ stored # 0 /\ k = SignIn!Call("check", "read", 0, 0)
      \/ k = SignIn!Call("exchange", "ask", 0, 0)
  BY DEF SignIn!InitCalls, SignIn!None
<1>2. /\ k \in CallRecords /\ k.token = 0 /\ k.epoch = 0
      /\ \/ k.kind = "none" /\ k.pc = "none"
         \/ k.kind = "check" /\ k.pc = "read" /\ tok.legacy = 0
         \/ k.kind = "exchange" /\ k.pc = "ask"
  <2>1. {"check", "exchange"} \subseteq CallKinds
    BY DEF CallKinds
  <2> QED
    BY <1>1, <2>1, NoCallIs, CallIs
<1>3. ShapeOK(k)
  BY <1>2 DEF ShapeOK
<1>4. TokenOK(k, w)
  BY <1>2 DEF TokenOK
<1>5. EpochOK(k, tok, w)
  BY <1>2 DEF EpochOK
<1>6. StartOK(k, au, w) /\ LegacyOK(k, tok, w)
  BY <1>2 DEF StartOK, LegacyOK
<1> QED
  BY <1>2, <1>3, <1>4, <1>5, <1>6 DEF CallOK

LEMMA InitCallsType ==
    ASSUME NEW stored, NEW plain
    PROVE  SignIn!InitCalls(stored, plain) \in [CallPlaces -> CallRecords]
<1>1. ASSUME NEW c \in CallPlaces PROVE SignIn!InitCalls(stored, plain)[c] \in CallRecords
  <2>1. PICK tok : tok = [epoch |-> 0, legacy |-> 0]
    OBVIOUS
  <2>2. tok.epoch = 0 /\ tok.legacy = 0
    BY <2>1
  <2> QED
    BY <2>2, InitCallsOK
<1>2. SignIn!InitCalls(stored, plain) = [c \in CallPlaces |-> SignIn!InitCalls(stored, plain)[c]]
  BY DEF SignIn!InitCalls
<1> QED
  BY <1>1, <1>2

LEMMA InitAuthIs ==
    ASSUME NEW stored, NEW plain
    PROVE  /\ SignIn!InitAuth(stored, plain) \in SignIns
           /\ SignIn!InitAuth(stored, plain).link = 0
           /\ stored = 0 /\ plain # 0 => SignIn!InitAuth(stored, plain).session = "legacy"
<1>1. PICK s \in {"none", "legacy", "plugin"} : s = IF stored # 0 THEN "plugin" ELSE IF plain # 0 THEN "legacy" ELSE "none"
  OBVIOUS
<1>2. PICK a : a = [SignIn!SignedOut EXCEPT !.session = s]
  OBVIOUS
<1>3. a = SignIn!InitAuth(stored, plain)
  BY <1>1, <1>2 DEF SignIn!InitAuth, SignIn!None
<1>4. a \in SignIns /\ a.link = 0 /\ a.session = s
  BY <1>2 DEF SignIn!SignedOut, SignIn!None, SignIns
<1> QED
  BY <1>1, <1>3, <1>4

LEMMA EmptyPosted == ASSUME NEW p, p = << >> PROVE p \in Seq(NewsRecords) /\ 1..Len(p) = {}
OBVIOUS

LEMMA RestartStep == ASSUME AccountInvariant, SignIn!Restart PROVE AccountInvariant'
<1>1. /\ tokens' = [mem |-> tokens.disk, disk |-> tokens.disk, epoch |-> 0, lock |-> 0,
                    legacy |-> IF tokens.disk # 0 THEN 0 ELSE tokens.legacy]
      /\ auth' = SignIn!InitAuth(tokens.disk, tokens.legacy)
      /\ calls' = SignIn!InitCalls(tokens.disk, tokens.legacy) /\ posted' = <<>>
      /\ web' = [SignIn!Lose(web) EXCEPT !.revoking = {}, !.dropped = @ \cup SignIn!HeldTokens]
  BY DEF SignIn!Restart, SignIn!None
<1>2. web \in Webs /\ tokens \in TokenStores /\ StoreOK
  BY DEF AccountInvariant, AccountTypes
<1>3. SignIn!HeldTokens \in SUBSET SignIn!Tokens
  <2>1. ASSUME NEW t \in SignIn!HeldTokens PROVE t \in SignIn!Tokens
    <3>1. CASE t \in web.revoking
      BY <1>2, <3>1 DEF Webs
    <3>2. CASE t = tokens.mem
      BY <1>2, <2>1, <3>2 DEF StoreOK, Issue, SignIn!HeldTokens, SignIn!None
    <3>3. CASE \E c \in CallPlaces : calls[c].pc \in {"got", "revoke"} /\ calls[c].token = t
      <4>1. PICK c \in CallPlaces : calls[c].pc \in {"got", "revoke"} /\ calls[c].token = t
        BY <3>3
      <4> QED
        BY <4>1, CallFacts DEF CallOK, TokenOK, Issue
    <3> QED
      BY <2>1, <3>1, <3>2, <3>3 DEF SignIn!HeldTokens
  <2> QED
    BY <2>1
<1>4. PICK n \in Nat, S \in SUBSET SignIn!Tokens : n = web.losses + 1 /\ S = web.dropped \cup SignIn!HeldTokens
  <2>1. web.losses + 1 \in Nat /\ web.dropped \cup SignIn!HeldTokens \in SUBSET SignIn!Tokens
    BY <1>2, <1>3 DEF Webs
  <2> QED
    BY <2>1
<1>5. web' = [web EXCEPT !.losses = n, !.revoking = {}, !.dropped = S]
  BY <1>1, <1>2, <1>4 DEF SignIn!Lose, Webs
<1>6. web' \in Webs
  BY <1>2, <1>4, <1>5 DEF Webs
<1>7. /\ web'.state = web.state /\ web'.of = web.of /\ web'.logins = web.logins /\ web'.outAt = web.outAt
      /\ web'.dropped = S
  BY <1>2, <1>5 DEF Webs
<1>8. /\ tokens'.mem = tokens.disk /\ tokens'.disk = tokens.disk /\ tokens'.epoch = 0
      /\ tokens'.legacy = (IF tokens.disk # 0 THEN 0 ELSE tokens.legacy)
  BY <1>1
<1>9. tokens' \in TokenStores
  <2>1. tokens.disk \in 0..MaxTokens /\ 0 \in Nat /\ 0 \in {0} \cup CallPlaces /\ 0 \in {0, 1} /\ tokens.legacy \in {0, 1}
    BY <1>2 DEF TokenStores
  <2>2. PICK g \in {0, 1} : g = IF tokens.disk # 0 THEN 0 ELSE tokens.legacy
    BY <2>1
  <2>3. tokens' = [mem |-> tokens.disk, disk |-> tokens.disk, epoch |-> 0, lock |-> 0, legacy |-> g]
    BY <1>1, <2>2
  <2> QED
    BY <2>1, <2>3 DEF TokenStores
<1>10. /\ auth' \in SignIns /\ auth'.link = 0
       /\ tokens.disk = 0 /\ tokens.legacy # 0 => auth'.session = "legacy"
  BY <1>1, InitAuthIs
<1>11. calls' \in [CallPlaces -> CallRecords]
  BY <1>1, InitCallsType
<1>12. CallsOK'
  <2>1. ASSUME NEW c \in CallPlaces PROVE CallOK(calls'[c], tokens', auth', web')
    <3>1. PICK k : k = SignIn!InitCalls(tokens.disk, tokens.legacy)[c]
      OBVIOUS
    <3>2. tokens'.epoch = 0 /\ (tokens.disk # 0 => tokens'.legacy = 0)
      BY <1>8
    <3>3. CallOK(k, tokens', auth', web')
      BY <3>1, <3>2, InitCallsOK
    <3> QED
      BY <1>1, <3>1, <3>3
  <2> QED
    BY <2>1 DEF CallsOK
<1>13. posted' \in Seq(NewsRecords) /\ PostedOK'
  BY <1>1, EmptyPosted DEF PostedOK
<1>14. StoreOK'
  BY <1>2, <1>7, <1>8, <1>10 DEF StoreOK, Issue
<1>15. Accounted'
  <2>1. ASSUME NEW t \in SignIn!Tokens, web'.state[t] = "valid", t \notin web'.dropped
        PROVE  t \in {tokens'.mem, tokens'.legacy}
    <3>1. t \in {tokens.mem, tokens.legacy} \/ SignIn!InHand(t)
      BY <1>4, <1>7, <2>1, Zenon DEF AccountInvariant, Accounted
    <3>2. t # 0 /\ t \notin SignIn!HeldTokens
      BY <1>4, <1>7, <2>1, TokensArePositive
    <3>3. CASE t = tokens.legacy
      BY <1>2, <1>8, <3>2, <3>3 DEF StoreOK
    <3>4. CASE t = tokens.mem \/ SignIn!InHand(t)
      BY <1>8, <3>2, <3>4 DEF SignIn!HeldTokens, SignIn!InHand, SignIn!None
    <3> QED
      BY <3>1, <3>3, <3>4
  <2> QED
    BY <2>1, Zenon DEF Accounted
<1> QED
  BY <1>6, <1>9, <1>10, <1>11, <1>12, <1>13, <1>14, <1>15 DEF AccountInvariant, AccountTypes

LEMMA AccountStarts == ASSUME SignIn!AccountInit PROVE AccountInvariant
<1>0. PICK was \in {"nothing", "legacy", "token"} :
        LET stored == IF was = "token" THEN 1 ELSE 0
            plain == IF was = "legacy" THEN 1 ELSE 0 IN
        /\ tokens = [mem |-> stored, disk |-> stored, epoch |-> 0, legacy |-> plain, lock |-> 0]
        /\ auth = SignIn!InitAuth(stored, plain) /\ calls = SignIn!InitCalls(stored, plain)
        /\ posted = <<>>
        /\ web = [state |-> [t \in SignIn!Tokens |-> IF t = 1 /\ was # "nothing" THEN "valid" ELSE "unissued"],
                  of |-> [t \in SignIn!Tokens |-> 0],
                  link |-> [l \in SignIn!Logins |-> "none"],
                  logins |-> 0, outAt |-> -1, losses |-> 0, revoking |-> {}, dropped |-> {}]
  BY DEF SignIn!AccountInit, SignIn!None
<1> DEFINE stored == IF was = "token" THEN 1 ELSE 0
           plain == IF was = "legacy" THEN 1 ELSE 0
<1>1. /\ tokens = [mem |-> stored, disk |-> stored, epoch |-> 0, legacy |-> plain, lock |-> 0]
      /\ auth = SignIn!InitAuth(stored, plain) /\ calls = SignIn!InitCalls(stored, plain)
      /\ posted = <<>>
      /\ web = [state |-> [t \in SignIn!Tokens |-> IF t = 1 /\ was # "nothing" THEN "valid" ELSE "unissued"],
                of |-> [t \in SignIn!Tokens |-> 0],
                link |-> [l \in SignIn!Logins |-> "none"],
                logins |-> 0, outAt |-> -1, losses |-> 0, revoking |-> {}, dropped |-> {}]
  BY <1>0
<1>2. stored \in {0, 1} /\ plain \in {0, 1} /\ (stored # 0 => plain = 0) /\ (was = "nothing" <=> stored = 0 /\ plain = 0)
  OBVIOUS
<1> HIDE DEF stored, plain
<1>3. 0 \in 0..MaxTokens /\ 1 \in 0..MaxTokens /\ 0 \in 0..MaxLogins /\ -1 \in Int /\ -1 <= 0 /\ 0 > -1 /\ 0 \in Nat
  BY AccountAssumption
<1>4. tokens \in TokenStores
  BY <1>1, <1>2, <1>3 DEF TokenStores
<1>5. tokens.mem = stored /\ tokens.disk = stored /\ tokens.epoch = 0 /\ tokens.legacy = plain
  BY <1>1
<1>6. PICK st : st = [t \in SignIn!Tokens |-> IF t = 1 /\ was # "nothing" THEN "valid" ELSE "unissued"]
  OBVIOUS
<1>7. PICK of : of = [t \in SignIn!Tokens |-> 0]
  OBVIOUS
<1>8. PICK link : link = [l \in SignIn!Logins |-> "none"]
  OBVIOUS
<1>9. /\ st \in [SignIn!Tokens -> {"unissued", "valid", "rotated", "ended"}]
      /\ of \in [SignIn!Tokens -> 0..MaxLogins]
      /\ link \in [SignIn!Logins -> {"none", "open", "approved", "denied", "used"}]
  BY <1>3, <1>6, <1>7, <1>8
<1>10. web = [state |-> st, of |-> of, link |-> link,
              logins |-> 0, outAt |-> -1, losses |-> 0, revoking |-> {}, dropped |-> {}]
  BY <1>1, <1>6, <1>7, <1>8
<1>11. web \in Webs
  BY <1>3, <1>9, <1>10 DEF Webs
<1>12. web.state = st /\ web.of = of /\ web.logins = 0 /\ web.outAt = -1
  BY <1>10
<1>13. auth \in SignIns /\ auth.link = 0 /\ (stored = 0 /\ plain # 0 => auth.session = "legacy")
  BY <1>1, InitAuthIs
<1>14. calls \in [CallPlaces -> CallRecords]
  BY <1>1, InitCallsType
<1>15. CallsOK
  <2>1. ASSUME NEW c \in CallPlaces PROVE CallOK(calls[c], tokens, auth, web)
    <3>1. stored # 0 => tokens.legacy = 0
      BY <1>2, <1>5
    <3> QED
      BY <1>1, <1>5, <3>1, InitCallsOK
  <2> QED
    BY <2>1 DEF CallsOK
<1>16. posted \in Seq(NewsRecords) /\ PostedOK
  BY <1>1, EmptyPosted DEF PostedOK
<1>17. stored # 0 \/ plain # 0 => Issue(web, 1) /\ web.of[1] > web.outAt
  BY <1>2, <1>3, <1>6, <1>7, <1>12, TokensArePositive DEF Issue
<1>18. StoreOK
  BY <1>2, <1>3, <1>5, <1>12, <1>13, <1>17 DEF StoreOK
<1>19. Accounted
  BY <1>2, <1>5, <1>6, <1>12 DEF Accounted
<1> QED
  BY <1>4, <1>11, <1>13, <1>14, <1>15, <1>16, <1>18, <1>19 DEF AccountInvariant, AccountTypes

LEMMA SignInStep == ASSUME AccountInvariant, [SignIn!AccountNext]_signInVars PROVE AccountInvariant'
<1>1. CASE UNCHANGED signInVars
  <2>1. tokens' = tokens /\ auth' = auth /\ calls' = calls /\ posted' = posted /\ web' = web
    BY <1>1 DEF signInVars, SignIn!accountVars
  <2> QED
    BY <2>1 DEF AccountInvariant, AccountTypes, StoreOK, CallsOK, PostedOK, Accounted, SignIn!InHand
<1>2. CASE \E c \in CallPlaces :
          \/ SignIn!ReadToken(c) \/ SignIn!AnswerOk(c) \/ SignIn!NoAnswer(c) \/ SignIn!AnswerRotated(c)
          \/ SignIn!AnswerRefused(c) \/ SignIn!RenewStarts(c) \/ SignIn!RenewAnswered(c) \/ SignIn!RenewFails(c)
          \/ SignIn!RenewAnswerLost(c) \/ SignIn!RenewRefused(c) \/ SignIn!Keep(c) \/ SignIn!Revoke(c)
          \/ SignIn!ExchangeAnswered(c) \/ SignIn!StartAnswered(c) \/ SignIn!PollAnswered(c)
          \/ SignIn!PollAnswerLost(c)
  BY <1>2, ReadStep, OkStep, NoAnswerStep, RotatedStep, RefusedStep, StartsStep, RenewedStep, FailsStep, LostStep,
     RenewRefusedStep, KeepStep, RevokeStep, ExchangeStep, StartAnsweredStep, PollAnsweredStep, PollLostStep, Zenon
<1>3. CASE \E t \in SignIn!Tokens : SignIn!Revoked(t)
  BY <1>3, RevokedStep, Zenon
<1>4. CASE \E login \in {0} \cup SignIn!Logins : SignIn!ServerEnds(login)
  BY <1>4, ServerEndsStep, Zenon
<1>5. CASE \E l \in SignIn!Logins, answer \in {"approved", "denied"} : SignIn!UserAnswersLink(l, answer)
  BY <1>5, UserAnswersStep, Zenon
<1>6. CASE \/ SignIn!StartLogin \/ SignIn!PollOnce \/ SignIn!CancelLogin \/ SignIn!Logout
           \/ SignIn!Deliver \/ SignIn!SupportCall \/ SignIn!DialogCloses \/ SignIn!Restart
  BY <1>6, LoginStep, PollStep, CancelStep, LogoutStep, DeliverStep, SupportStep, DialogClosesStep, RestartStep, Zenon
<1> QED
  BY <1>1, <1>2, <1>3, <1>4, <1>5, <1>6, Zenon DEF SignIn!AccountNext

LEMMA AccountSafe == ASSUME AccountInvariant PROVE SignIn!SignOutIsFinal
<1>1. SignIn!AccountTypeOK
  BY DEF AccountInvariant, AccountTypes, TokenStores, SignIns, CallRecords, CallKinds, SignIn!AccountTypeOK
<1>2. \A t \in {tokens.mem, tokens.disk} \ {0} : web.of[t] > web.outAt
  BY Zenon DEF AccountInvariant, StoreOK
<1> QED
  BY <1>1, <1>2, Zenon DEF SignIn!SignOutIsFinal, SignIn!None, AccountInvariant, Accounted

-----------------------------------------------------------------------------
(* The core host: the tokens of the commands in its queue.                 *)

\* The host's settings without a command.
NoCommand == ""
HostTask ==
    [kind: {"apply"}, call: Nat, config: Configs, command: Commands \cup {NoCommand}, token: Nat]
        \cup [kind: {"shutdown", "restarted"}]

Told(f, queue, n) ==
    f = [i \in 0..n |-> IF i = 0 THEN <<>>
                        ELSE IF Core!IsCommand(queue[i]) THEN Append(f[i - 1], queue[i].token) ELSE f[i - 1]]

LEMMA ToldExists == ASSUME NEW n \in Nat, NEW queue PROVE \E f : Told(f, queue, n)
<1> DEFINE bad == {m \in Nat : ~\E f : Told(f, queue, m)}
           next(x, i) == IF Core!IsCommand(queue[i]) THEN Append(x, queue[i].token) ELSE x
<1>1. SUFFICES ASSUME bad # {} PROVE FALSE
  OBVIOUS
<1>2. PICK m \in bad : \A k \in bad : m <= k
  <2>1. bad \subseteq Nat
    OBVIOUS
  <2> HIDE DEF bad
  <2> QED
    BY <1>1, <2>1, LeastName
<1>3. m \in Nat
  OBVIOUS
<1>4. CASE m = 0
  <2>1. PICK f : f = [i \in 0..0 |-> <<>>]
    OBVIOUS
  <2>2. f = [i \in 0..0 |-> IF i = 0 THEN <<>>
                        ELSE IF Core!IsCommand(queue[i]) THEN Append(f[i - 1], queue[i].token) ELSE f[i - 1]]
    BY <2>1
  <2> QED
    BY <1>2, <1>4, <2>2 DEF Told
<1>5. CASE m # 0
  <2>1. m - 1 \in Nat
    BY <1>3, <1>5
  <2>2. ~(m <= m - 1)
    BY <1>3
  <2>3. m - 1 \notin bad
    BY <1>2, <2>2
  <2>4. PICK f : Told(f, queue, m - 1)
    BY <2>1, <2>3
  <2> HIDE DEF next
  <2>5. PICK g : g = [i \in 0..m |-> IF i = m THEN next(f[m - 1], m) ELSE f[i]]
    OBVIOUS
  <2>6. g[m] = next(f[m - 1], m) /\ \A i \in 0..m - 1 : g[i] = f[i]
    <3> HIDE DEF bad
    <3>1. m \in 0..m /\ \A i \in 0..m - 1 : i \in 0..m /\ i # m
      BY <1>3
    <3> QED
      BY <2>5, <3>1
  <2>7. ASSUME NEW i \in 0..m PROVE g[i] = IF i = 0 THEN <<>> ELSE next(g[i - 1], i)
    <3>1. CASE i = m
      <4>1. m - 1 \in 0..m - 1
        BY <2>1
      <4> QED
        BY <1>5, <2>6, <3>1, <4>1
    <3>2. CASE i # m
      <4>1. i \in 0..m - 1 /\ (i # 0 => i - 1 \in 0..m - 1)
        BY <1>3, <3>2
      <4>2. f[i] = IF i = 0 THEN <<>> ELSE next(f[i - 1], i)
        BY <2>4, <4>1 DEF Told, next
      <4> QED
        BY <2>6, <4>1, <4>2
    <3> QED
      BY <3>1, <3>2
  <2>8. g = [i \in 0..m |-> IF i = 0 THEN <<>> ELSE next(g[i - 1], i)]
    BY <2>5, <2>7
  <2>9. Told(g, queue, m)
    BY <2>8, Zenon DEF Told, next
  <2> QED
    BY <1>2, <2>9
<1> QED
  BY <1>4, <1>5

LEMMA CommandToken ==
    ASSUME NEW task \in HostTask, Core!IsCommand(task)
    PROVE  task.token \in Nat
<1>1. task.kind = "apply"
  BY Zenon DEF Core!IsCommand
<1> HIDE DEF NoCommand
<1> QED
  BY <1>1 DEF HostTask

\* What TokensOf unfolds to.
LEMMA ToldIs ==
    ASSUME NEW queue \in Seq(HostTask)
    PROVE  \E f : /\ Told(f, queue, Len(queue)) /\ Core!TokensOf(queue) = f[Len(queue)]
<1> DEFINE told == CHOOSE f : f = [n \in 0..Len(queue) |->
                      IF n = 0 THEN <<>>
                      ELSE IF Core!IsCommand(queue[n]) THEN Append(f[n - 1], queue[n].token) ELSE f[n - 1]]
<1>1. Core!TokensOf(queue) = told[Len(queue)]
  BY Zenon DEF Core!TokensOf
<1>2. Len(queue) \in Nat
  OBVIOUS
<1>3. \E f : Told(f, queue, Len(queue))
  BY <1>2, ToldExists
<1>4. Told(told, queue, Len(queue))
  BY <1>3, Zenon DEF Told
<1> QED
  BY <1>1, <1>4

LEMMA ToldSteps ==
    ASSUME NEW queue \in Seq(HostTask), NEW n \in Nat, n <= Len(queue), NEW f, Told(f, queue, n)
    PROVE  /\ f[0] = <<>>
           /\ \A i \in 1..n : f[i] = IF Core!IsCommand(queue[i]) THEN Append(f[i - 1], queue[i].token) ELSE f[i - 1]
           /\ \A i \in 0..n : f[i] \in Seq(Nat)
<1>1. f[0] = <<>>
  BY DEF Told
<1>2. ASSUME NEW i \in 1..n
      PROVE  f[i] = IF Core!IsCommand(queue[i]) THEN Append(f[i - 1], queue[i].token) ELSE f[i - 1]
  <2>1. i \in 0..n /\ i # 0
    OBVIOUS
  <2> QED
    BY <2>1 DEF Told
<1>3. ASSUME NEW i \in 1..n, Core!IsCommand(queue[i]) PROVE queue[i].token \in Nat
  <2>1. queue[i] \in HostTask
    OBVIOUS
  <2> QED
    BY <1>3, <2>1, CommandToken
<1>4. \A i \in 0..n : f[i] \in Seq(Nat)
  <2> DEFINE bad == {i \in 0..n : f[i] \notin Seq(Nat)}
  <2>1. SUFFICES ASSUME bad # {} PROVE FALSE
    OBVIOUS
  <2>2. PICK m \in bad : \A k \in bad : m <= k
    <3>1. bad \subseteq Nat
      OBVIOUS
    <3> HIDE DEF bad
    <3> QED
      BY <2>1, <3>1, LeastName
  <2>0. <<>> \in Seq(Nat)
    OBVIOUS
  <2>3. m \in 0..n /\ m # 0
    BY <1>1, <2>0
  <2>4. m \in 1..n /\ m - 1 \in 0..n /\ ~(m <= m - 1)
    BY <2>3
  <2>5. m - 1 \notin bad
    BY <2>2, <2>4
  <2>6. f[m - 1] \in Seq(Nat)
    BY <2>4, <2>5
  <2>7. f[m] \in Seq(Nat)
    <3>1. PICK x \in Seq(Nat) : x = f[m - 1]
      BY <2>6
    <3>2. CASE Core!IsCommand(queue[m])
      <4>1. PICK t \in Nat : t = queue[m].token
        BY <1>3, <2>4, <3>2
      <4>2. f[m] = Append(x, t)
        BY <1>2, <2>4, <3>1, <3>2, <4>1
      <4> QED
        BY <4>2
    <3>3. CASE ~Core!IsCommand(queue[m])
      <4>1. f[m] = x
        BY <1>2, <2>4, <3>1, <3>3
      <4> QED
        BY <4>1
    <3> QED
      BY <3>2, <3>3
  <2> QED
    BY <2>7
<1> QED
  BY <1>1, <1>2, <1>4

LEMMA TokensAreNumbers ==
    ASSUME NEW queue \in Seq(HostTask)
    PROVE  Core!TokensOf(queue) \in Seq(Nat)
<1>1. Len(queue) \in Nat /\ Len(queue) <= Len(queue) /\ Len(queue) \in 0..Len(queue)
  OBVIOUS
<1>2. PICK f : Told(f, queue, Len(queue)) /\ Core!TokensOf(queue) = f[Len(queue)]
  BY ToldIs
<1> QED
  BY <1>1, <1>2, ToldSteps

Token(task) == IF Core!IsCommand(task) THEN <<task.token>> ELSE <<>>

\* Two queues that agree, the second one task shorter at the front.
LEMMA TokensOfLonger ==
    ASSUME NEW queue \in Seq(HostTask), NEW task \in HostTask, NEW longer \in Seq(HostTask),
           longer = Append(queue, task)
    PROVE  Core!TokensOf(longer) = Core!TokensOf(queue) \o Token(task)
<1>1. PICK n \in Nat : n = Len(queue) /\ Len(longer) = n + 1
  OBVIOUS
<1>2. longer[n + 1] = task /\ \A i \in 1..n : longer[i] = queue[i]
  BY <1>1
<1>3. PICK f : Told(f, queue, n) /\ Core!TokensOf(queue) = f[n]
  BY <1>1, ToldIs
<1>4. PICK g : Told(g, longer, n + 1) /\ Core!TokensOf(longer) = g[n + 1]
  BY <1>1, ToldIs
<1>12. n <= Len(queue) /\ n + 1 <= Len(longer) /\ n + 1 \in Nat
  BY <1>1
<1>5. /\ f[0] = <<>> /\ \A i \in 0..n : f[i] \in Seq(Nat)
      /\ \A i \in 1..n : f[i] = IF Core!IsCommand(queue[i]) THEN Append(f[i - 1], queue[i].token) ELSE f[i - 1]
  BY <1>3, <1>12, ToldSteps, Zenon
<1>6. /\ g[0] = <<>> /\ \A i \in 0..n + 1 : g[i] \in Seq(Nat)
      /\ \A i \in 1..n + 1 : g[i] = IF Core!IsCommand(longer[i]) THEN Append(g[i - 1], longer[i].token) ELSE g[i - 1]
  BY <1>4, <1>12, ToldSteps, Zenon
<1>7. \A i \in 0..n : g[i] = f[i]
  <2> DEFINE bad == {i \in 0..n : g[i] # f[i]}
  <2>1. SUFFICES ASSUME bad # {} PROVE FALSE
    OBVIOUS
  <2>2. PICK m \in bad : \A k \in bad : m <= k
    <3>1. bad \subseteq Nat
      OBVIOUS
    <3> HIDE DEF bad
    <3> QED
      BY <2>1, <3>1, LeastName
  <2>3. m \in 0..n /\ m # 0
    BY <1>5, <1>6
  <2>4. m \in 1..n /\ m \in 1..n + 1 /\ m - 1 \in 0..n /\ ~(m <= m - 1)
    BY <2>3
  <2>5. g[m - 1] = f[m - 1]
    BY <2>2, <2>4
  <2>6. g[m] = f[m]
    BY <1>2, <1>5, <1>6, <2>4, <2>5
  <2> QED
    BY <2>6
<1>8. g[n] = f[n] /\ f[n] \in Seq(Nat)
  BY <1>5, <1>7
<1>9. g[n + 1] = IF Core!IsCommand(task) THEN Append(f[n], task.token) ELSE f[n]
  <2>1. n + 1 \in 1..n + 1 /\ (n + 1) - 1 = n
    OBVIOUS
  <2> QED
    BY <1>2, <1>6, <1>8, <2>1
<1>10. CASE Core!IsCommand(task)
  <2>1. PICK x \in Seq(Nat), t \in Nat : x = f[n] /\ t = task.token
    BY <1>8, <1>10, CommandToken
  <2>2. Append(x, t) = x \o <<t>>
    OBVIOUS
  <2> QED
    BY <1>3, <1>4, <1>9, <1>10, <2>1, <2>2 DEF Token
<1>11. CASE ~Core!IsCommand(task)
  <2>1. f[n] \o <<>> = f[n]
    BY <1>8
  <2> QED
    BY <1>3, <1>4, <1>9, <1>11, <2>1 DEF Token
<1> QED
  BY <1>10, <1>11

LEMMA TokenInSeq ==
    ASSUME NEW task \in HostTask
    PROVE  Token(task) \in Seq(Nat)
<1>1. CASE Core!IsCommand(task)
  <2>1. PICK t \in Nat : t = task.token
    BY <1>1, CommandToken
  <2>2. <<t>> \in Seq(Nat)
    OBVIOUS
  <2> QED
    BY <1>1, <2>1, <2>2 DEF Token
<1>2. CASE ~Core!IsCommand(task)
  <2>1. <<>> \in Seq(Nat)
    OBVIOUS
  <2> QED
    BY <1>2, <2>1 DEF Token
<1> QED
  BY <1>1, <1>2

Join(s1, s2) == s1 \o s2

LEMMA Joined ==
    ASSUME NEW x \in Seq(Nat), NEW y \in Seq(Nat), NEW z \in Seq(Nat)
    PROVE  Join(x, Join(y, z)) = Join(Join(x, y), z)
<1>1. /\ x \o y \in Seq(Nat) /\ Len(x \o y) = Len(x) + Len(y)
      /\ \A i \in 1..Len(x) + Len(y) : (x \o y)[i] = IF i <= Len(x) THEN x[i] ELSE y[i - Len(x)]
  OBVIOUS
<1>2. /\ y \o z \in Seq(Nat) /\ Len(y \o z) = Len(y) + Len(z)
      /\ \A i \in 1..Len(y) + Len(z) : (y \o z)[i] = IF i <= Len(y) THEN y[i] ELSE z[i - Len(y)]
  OBVIOUS
<1>3. PICK v \in Seq(Nat), w \in Seq(Nat) : v = x \o y /\ w = y \o z
  BY <1>1, <1>2
<1>4. PICK k \in Nat, m \in Nat, n \in Nat : k = Len(x) /\ m = Len(y) /\ n = Len(z)
  OBVIOUS
<1>5. PICK l \in Seq(Nat), r \in Seq(Nat) :
        /\ l = x \o w /\ Len(l) = k + Len(w) /\ r = v \o z /\ Len(r) = Len(v) + n
        /\ \A i \in 1..k + Len(w) : l[i] = IF i <= k THEN x[i] ELSE w[i - k]
        /\ \A i \in 1..Len(v) + n : r[i] = IF i <= Len(v) THEN v[i] ELSE z[i - Len(v)]
  <2>1. /\ x \o w \in Seq(Nat) /\ Len(x \o w) = k + Len(w)
        /\ \A i \in 1..k + Len(w) : (x \o w)[i] = IF i <= k THEN x[i] ELSE w[i - k]
    BY <1>4
  <2>2. /\ v \o z \in Seq(Nat) /\ Len(v \o z) = Len(v) + n
        /\ \A i \in 1..Len(v) + n : (v \o z)[i] = IF i <= Len(v) THEN v[i] ELSE z[i - Len(v)]
    BY <1>4
  <2> QED
    BY <2>1, <2>2
<1>6. Len(v) = k + m /\ Len(w) = m + n /\ Len(l) = k + m + n /\ Len(r) = k + m + n
  BY <1>1, <1>2, <1>3, <1>4, <1>5
<1>7. /\ \A i \in 1..k + m : v[i] = IF i <= k THEN x[i] ELSE y[i - k]
      /\ \A i \in 1..m + n : w[i] = IF i <= m THEN y[i] ELSE z[i - m]
  BY <1>1, <1>2, <1>3, <1>4
<1>8. ASSUME NEW i \in 1..k + m + n PROVE l[i] = r[i]
  <2>1. i \in 1..k + Len(w) /\ i \in 1..Len(v) + n
    BY <1>6
  <2>2. CASE i <= k
    <3>1. i \in 1..k + m /\ i <= Len(v)
      BY <1>6, <2>2
    <3>2. r[i] = v[i] /\ l[i] = x[i]
      BY <1>5, <2>1, <2>2, <3>1
    <3> QED
      BY <1>7, <2>2, <3>1, <3>2
  <2>3. CASE i > k /\ i <= k + m
    <3>1. i \in 1..k + m /\ i - k \in 1..m + n /\ i - k <= m /\ i <= Len(v) /\ ~(i <= k)
      BY <1>6, <2>3
    <3>2. l[i] = w[i - k] /\ r[i] = v[i]
      BY <1>5, <2>1, <3>1
    <3> QED
      BY <1>7, <3>1, <3>2
  <2>4. CASE i > k + m
    <3>1. i - k \in 1..m + n /\ ~(i - k <= m) /\ ~(i <= k) /\ ~(i <= Len(v)) /\ (i - k) - m = i - Len(v)
      BY <1>6, <2>4
    <3>2. l[i] = w[i - k] /\ r[i] = z[i - Len(v)]
      BY <1>5, <2>1, <3>1
    <3>3. w[i - k] = z[(i - k) - m]
      BY <1>7, <3>1
    <3> QED
      BY <3>1, <3>2, <3>3
  <2> QED
    BY <2>2, <2>3, <2>4
<1>9. l = r
  BY <1>6, <1>8
<1> QED
  BY <1>3, <1>5, <1>9, Zenon DEF Join

LEMMA AppendToConcat ==
    ASSUME NEW a \in Seq(Nat), NEW b \in Seq(Nat), NEW t \in Nat
    PROVE  Append(a \o b, t) = a \o Append(b, t)
<1>1. a \o b \in Seq(Nat) /\ <<t>> \in Seq(Nat)
  OBVIOUS
<1>2. PICK y \in Seq(Nat) : y = a \o b
  BY <1>1
<1>3. Append(y, t) = y \o <<t>>
  OBVIOUS
<1>4. Append(b, t) = b \o <<t>>
  OBVIOUS
<1>5. PICK u \in Seq(Nat) : u = <<t>>
  BY <1>1
<1>6. Join(a, Join(b, u)) = Join(Join(a, b), u)
  BY Joined
<1> QED
  BY <1>2, <1>3, <1>4, <1>5, <1>6, Zenon DEF Join

LEMMA TokensOfBefore ==
    ASSUME NEW queue \in Seq(HostTask), NEW task \in HostTask, NEW longer \in Seq(HostTask),
           longer = <<task>> \o queue
    PROVE  Core!TokensOf(longer) = Token(task) \o Core!TokensOf(queue)
<1>1. PICK n \in Nat : n = Len(queue) /\ Len(longer) = n + 1
  OBVIOUS
<1>2. longer[1] = task /\ \A i \in 1..n : longer[i + 1] = queue[i]
  BY <1>1
<1>3. PICK f : Told(f, queue, n) /\ Core!TokensOf(queue) = f[n]
  BY <1>1, ToldIs
<1>4. PICK g : Told(g, longer, n + 1) /\ Core!TokensOf(longer) = g[n + 1]
  BY <1>1, ToldIs
<1>12. n <= Len(queue) /\ n + 1 <= Len(longer) /\ n + 1 \in Nat
  BY <1>1
<1>5. /\ f[0] = <<>> /\ \A i \in 0..n : f[i] \in Seq(Nat)
      /\ \A i \in 1..n : f[i] = IF Core!IsCommand(queue[i]) THEN Append(f[i - 1], queue[i].token) ELSE f[i - 1]
  BY <1>3, <1>12, ToldSteps, Zenon
<1>6. /\ g[0] = <<>> /\ \A i \in 0..n + 1 : g[i] \in Seq(Nat)
      /\ \A i \in 1..n + 1 : g[i] = IF Core!IsCommand(longer[i]) THEN Append(g[i - 1], longer[i].token) ELSE g[i - 1]
  BY <1>4, <1>12, ToldSteps, Zenon
<1>7. PICK first \in Seq(Nat) : first = Token(task)
  BY TokenInSeq
<1>8. g[1] = first
  <2>1. 1 \in 1..n + 1 /\ 1 - 1 = 0
    OBVIOUS
  <2>2. g[1] = IF Core!IsCommand(task) THEN Append(<<>>, task.token) ELSE <<>>
    BY <1>2, <1>6, <2>1
  <2>3. CASE Core!IsCommand(task)
    <3>1. PICK t \in Nat : t = task.token
      BY <2>3, CommandToken
    <3>2. Append(<<>>, t) = <<t>>
      OBVIOUS
    <3> QED
      BY <1>7, <2>2, <2>3, <3>1, <3>2 DEF Token
  <2>4. CASE ~Core!IsCommand(task)
    BY <1>7, <2>2, <2>4 DEF Token
  <2> QED
    BY <2>3, <2>4
<1>9. \A i \in 0..n : g[i + 1] = first \o f[i]
  <2> DEFINE bad == {i \in 0..n : g[i + 1] # first \o f[i]}
  <2>1. SUFFICES ASSUME bad # {} PROVE FALSE
    OBVIOUS
  <2>2. PICK m \in bad : \A k \in bad : m <= k
    <3>1. bad \subseteq Nat
      OBVIOUS
    <3> HIDE DEF bad
    <3> QED
      BY <2>1, <3>1, LeastName
  <2>3. m \in 0..n /\ m # 0
    <3>1. first \o <<>> = first
      OBVIOUS
    <3>2. g[0 + 1] = first \o f[0]
      BY <1>5, <1>8, <3>1
    <3> QED
      BY <3>2
  <2>4. m \in 1..n /\ m + 1 \in 1..n + 1 /\ m - 1 \in 0..n /\ ~(m <= m - 1) /\ (m - 1) + 1 = m /\ (m + 1) - 1 = m
    BY <2>3
  <2>5. m - 1 \notin bad
    BY <2>2, <2>4
  <2>6. PICK x \in Seq(Nat) : x = f[m - 1]
    BY <1>5, <2>4
  <2>7. g[m] = first \o x
    BY <2>4, <2>5, <2>6
  <2>8. CASE Core!IsCommand(queue[m])
    <3>1. queue[m] \in HostTask
      BY <1>1, <2>4
    <3>2. PICK t \in Nat : t = queue[m].token
      BY <2>8, <3>1, CommandToken
    <3>3. Append(first \o x, t) = first \o Append(x, t)
      BY AppendToConcat, Zenon
    <3>4. g[m + 1] = Append(first \o x, t)
      BY <1>2, <1>6, <2>4, <2>7, <2>8, <3>2
    <3>5. f[m] = Append(x, t)
      BY <1>5, <2>4, <2>6, <2>8, <3>2
    <3> QED
      BY <3>3, <3>4, <3>5
  <2>9. CASE ~Core!IsCommand(queue[m])
    <3>1. g[m + 1] = first \o x
      BY <1>2, <1>6, <2>4, <2>7, <2>9
    <3>2. f[m] = x
      BY <1>5, <2>4, <2>6, <2>9
    <3> QED
      BY <3>1, <3>2
  <2> QED
    BY <2>8, <2>9
<1>10. n \in 0..n
  OBVIOUS
<1> QED
  BY <1>3, <1>4, <1>7, <1>9, <1>10

LEMMA NoTokens ==
    ASSUME NEW queue \in Seq(HostTask), \A i \in 1..Len(queue) : ~Core!IsCommand(queue[i])
    PROVE  Core!TokensOf(queue) = <<>>
<1>1. PICK n \in Nat : n = Len(queue)
  OBVIOUS
<1>2. PICK f : Told(f, queue, n) /\ Core!TokensOf(queue) = f[n]
  BY <1>1, ToldIs
<1>3. n <= Len(queue)
  BY <1>1
<1>4. /\ f[0] = <<>>
      /\ \A i \in 1..n : f[i] = IF Core!IsCommand(queue[i]) THEN Append(f[i - 1], queue[i].token) ELSE f[i - 1]
  BY <1>2, <1>3, ToldSteps, Zenon
<1> DEFINE bad == {i \in 0..n : f[i] # <<>>}
<1>5. SUFFICES ASSUME bad # {} PROVE FALSE
  BY <1>2
<1>6. PICK m \in bad : \A k \in bad : m <= k
  <2>1. bad \subseteq Nat
    OBVIOUS
  <2> HIDE DEF bad
  <2> QED
    BY <1>5, <2>1, LeastName
<1>7. m \in 1..n /\ m - 1 \in 0..n /\ ~(m <= m - 1)
  BY <1>4
<1>8. f[m - 1] = <<>>
  BY <1>6, <1>7
<1> QED
  BY <1>1, <1>4, <1>7, <1>8

-----------------------------------------------------------------------------
(* The core host: its invariant.                                           *)

HostScenes == {c.scene : c \in Configs} \cup {"none"}
HostDelays == {c.delay : c \in Configs} \cup {0}
HostModes ==
    [state: {"inactive", "filling", "active", "error"}, generation: Nat, scene: HostScenes, started: HostScenes,
     delay: HostDelays]
HostTimers == [armed: BOOLEAN, generation: Nat]
HostSettings == [config: Configs, command: Commands \cup {NoCommand}, token: Nat]
HostSources ==
    [alive: BOOLEAN, pc: {"idle", "waits"}, token: Nat, calls: Nat, done: Nat, slow: Nat, saved: HostSettings,
     sent: Seq(Nat), seen: Nat, current: BOOLEAN]
HostThreads ==
    [alive: BOOLEAN, stopping: BOOLEAN, shut: BOOLEAN, tasks: Seq(HostTask),
     running: HostTask \cup {Core!NoTask}, timer: HostTimers, ran: Seq(Nat), restarts: Nat]

\* The task being run, then those that wait.
TasksLeft(th) == (IF th.running = Core!NoTask THEN <<>> ELSE <<th.running>>) \o th.tasks
\* Calls left are later than the last one done, in the order they were made.
InOrder(q, done, made) ==
    /\ \A i \in 1..Len(q) : q[i].kind = "apply" => done < q[i].call /\ q[i].call <= made
    /\ \A i, j \in 1..Len(q) :
          i < j /\ q[i].kind = "apply" /\ q[j].kind = "apply" => q[i].call < q[j].call

QueueOK(s, th) ==
    /\ s \in HostSources /\ th \in HostThreads
    /\ th.running # Core!NoTask => th.running.kind = "apply"
    /\ s.done <= s.calls /\ InOrder(TasksLeft(th), s.done, s.calls)
    /\ th.ran \o Core!TokensOf(TasksLeft(th)) = s.sent
ReportOK(s) == s.pc = "idle" /\ s.current => s.seen = Len(s.sent)
FillOK(th, m) ==
    /\ th.timer.armed <=> m.state = "filling"
    /\ th.timer.armed => th.timer.generation = m.generation
OnStarted(m) == Core!DelayOn(m) => m.scene = m.started

CoreInvariant ==
    /\ QueueOK(source, coreThread) /\ ReportOK(source) /\ delayMode \in HostModes
    /\ FillOK(coreThread, delayMode) /\ OnStarted(delayMode) /\ snapshot.ran = Len(coreThread.ran)

LEMMA ThreadFields ==
    ASSUME NEW th \in HostThreads
    PROVE  /\ th.alive \in BOOLEAN /\ th.stopping \in BOOLEAN /\ th.shut \in BOOLEAN
           /\ th.tasks \in Seq(HostTask) /\ th.running \in HostTask \cup {Core!NoTask}
           /\ th.timer \in HostTimers /\ th.ran \in Seq(Nat) /\ th.restarts \in Nat
BY DEF HostThreads

LEMMA TasksAre == Core!NoTask \notin HostTask /\ \A t \in HostTask : t.kind \in {"apply", "shutdown", "restarted"}
<1> HIDE DEF NoCommand
<1> QED
  BY DEF HostTask, Core!NoTask

LEMMA QueueIs ==
    ASSUME NEW th \in HostThreads
    PROVE  /\ TasksLeft(th) \in Seq(HostTask)
           /\ th.running = Core!NoTask => TasksLeft(th) = th.tasks
           /\ th.running # Core!NoTask => TasksLeft(th) = <<th.running>> \o th.tasks /\ th.running \in HostTask
<1>1. th.tasks \in Seq(HostTask) /\ th.running \in HostTask \cup {Core!NoTask}
  BY ThreadFields
<1>2. CASE th.running = Core!NoTask
  <2>1. TasksLeft(th) = <<>> \o th.tasks
    BY <1>2 DEF TasksLeft
  <2> HIDE DEF HostTask
  <2>2. <<>> \o th.tasks = th.tasks
    BY <1>1
  <2> QED
    BY <1>1, <1>2, <2>1, <2>2
<1>3. CASE th.running # Core!NoTask
  <2>1. TasksLeft(th) = <<th.running>> \o th.tasks /\ th.running \in HostTask
    BY <1>1, <1>3 DEF TasksLeft
  <2> HIDE DEF HostTask
  <2> QED
    BY <1>1, <1>3, <2>1
<1> QED
  BY <1>2, <1>3

LEMMA OrderPosted ==
    ASSUME NEW q \in Seq(HostTask), NEW done \in Nat, NEW made \in Nat, InOrder(q, done, made), done <= made,
           NEW t \in HostTask, NEW more \in Nat,
           (t.kind = "apply" /\ more = made + 1 /\ t.call = more) \/ (t.kind # "apply" /\ more = made)
    PROVE  InOrder(Append(q, t), done, more)
<1> HIDE DEF HostTask
<1>0. Append(q, t) \in Seq(HostTask) /\ Len(q) \in Nat /\ Len(Append(q, t)) = Len(q) + 1
  OBVIOUS
<1>1. PICK n \in Nat, r \in Seq(HostTask) : n = Len(q) /\ r = Append(q, t) /\ Len(r) = n + 1
  BY <1>0
<1>2. r[n + 1] = t /\ \A i \in 1..n : r[i] = q[i]
  BY <1>1
<1>3. ASSUME NEW i \in 1..n, q[i].kind = "apply"
      PROVE  q[i].call \in Nat /\ done < q[i].call /\ q[i].call <= made
  <2>1. q[i] \in HostTask
    BY <1>1
  <2>2. q[i].call \in Nat
    <3> HIDE DEF NoCommand
    <3> QED
      BY <1>3, <2>1 DEF HostTask
  <2> QED
    BY <1>1, <1>3, <2>2 DEF InOrder
<1>4. \A i, j \in 1..n : i < j /\ q[i].kind = "apply" /\ q[j].kind = "apply" => q[i].call < q[j].call
  BY <1>1 DEF InOrder
<1>5. ASSUME NEW i \in 1..n + 1, r[i].kind = "apply" PROVE done < r[i].call /\ r[i].call <= more
  <2>1. CASE i = n + 1
    BY <1>2, <1>5, <2>1
  <2>2. CASE i # n + 1
    <3>1. i \in 1..n
      BY <2>2
    <3> QED
      BY <1>2, <1>3, <1>5, <3>1
  <2> QED
    BY <2>1, <2>2
<1>6. ASSUME NEW i \in 1..n + 1, NEW j \in 1..n + 1, i < j, r[i].kind = "apply", r[j].kind = "apply"
      PROVE  r[i].call < r[j].call
  <2>1. i \in 1..n
    BY <1>6
  <2>2. CASE j = n + 1
    <3>1. t.kind = "apply" /\ t.call = made + 1
      BY <1>2, <1>6, <2>2
    <3>2. r[i] = q[i] /\ r[j] = t
      BY <1>2, <2>1, <2>2
    <3>3. q[i].call \in Nat /\ q[i].call <= made
      BY <1>3, <1>6, <2>1, <3>2
    <3> QED
      BY <3>1, <3>2, <3>3
  <2>3. CASE j # n + 1
    <3>1. j \in 1..n
      BY <2>3
    <3> QED
      BY <1>2, <1>4, <1>6, <2>1, <3>1
  <2> QED
    BY <2>2, <2>3
<1>7. InOrder(r, done, more)
  BY <1>1, <1>5, <1>6 DEF InOrder
<1> QED
  BY <1>1, <1>7

LEMMA OrderTaken ==
    ASSUME NEW q \in Seq(HostTask), NEW t \in HostTask, NEW r \in Seq(HostTask), r = <<t>> \o q,
           NEW done, NEW made, InOrder(r, done, made)
    PROVE  /\ InOrder(q, done, made)
           /\ t.kind = "apply" => InOrder(q, t.call, made) /\ t.call <= made
<1> HIDE DEF HostTask
<1>1. PICK n \in Nat : n = Len(q) /\ Len(r) = n + 1
  OBVIOUS
<1>2. r[1] = t /\ 1 \in 1..n + 1 /\ \A i \in 1..n : r[i + 1] = q[i] /\ i + 1 \in 1..n + 1
  BY <1>1
<1>3. /\ \A i \in 1..n + 1 : r[i].kind = "apply" => done < r[i].call /\ r[i].call <= made
      /\ \A i, j \in 1..n + 1 :
          i < j /\ r[i].kind = "apply" /\ r[j].kind = "apply" => r[i].call < r[j].call
  BY <1>1 DEF InOrder
<1>4. \A i \in 1..n : q[i].kind = "apply" => done < q[i].call /\ q[i].call <= made
  BY <1>2, <1>3
<1>5. \A i, j \in 1..n : i < j /\ q[i].kind = "apply" /\ q[j].kind = "apply" => q[i].call < q[j].call
  <2>1. ASSUME NEW i \in 1..n, NEW j \in 1..n, i < j, q[i].kind = "apply", q[j].kind = "apply"
        PROVE  q[i].call < q[j].call
    <3>1. i + 1 < j + 1
      BY <2>1
    <3> QED
      BY <1>2, <1>3, <2>1, <3>1
  <2> QED
    BY <2>1
<1>6. ASSUME t.kind = "apply", NEW i \in 1..n, q[i].kind = "apply" PROVE t.call < q[i].call
  <2>1. 1 < i + 1
    OBVIOUS
  <2> QED
    BY <1>2, <1>3, <1>6, <2>1
<1> QED
  BY <1>1, <1>2, <1>3, <1>4, <1>5, <1>6 DEF InOrder

LEMMA TaskAppended ==
    ASSUME NEW queue \in Seq(HostTask), NEW task \in HostTask
    PROVE  Append(queue, task) \in Seq(HostTask)
<1> HIDE DEF HostTask
<1> QED
  OBVIOUS

\* Concatenation over the tasks still to run.
LEMMA TokenMoves ==
    ASSUME NEW ran \in Seq(Nat), NEW task \in HostTask, NEW rest \in Seq(Nat)
    PROVE  /\ (ran \o Token(task)) \in Seq(Nat)
           /\ ran \o (Token(task) \o rest) = (ran \o Token(task)) \o rest
<1>1. PICK x \in Seq(Nat) : x = Token(task)
  BY TokenInSeq
<1>2. Join(ran, Join(x, rest)) = Join(Join(ran, x), rest)
  BY Joined
<1>3. (ran \o x) \in Seq(Nat)
  OBVIOUS
<1> QED
  BY <1>1, <1>2, <1>3, Zenon DEF Join

LEMMA IsCommandIs ==
    ASSUME NEW task
    PROVE  Core!IsCommand(task) <=> task.kind = "apply" /\ task.command # NoCommand
BY Zenon DEF Core!IsCommand, NoCommand

LEMMA FirstAndRest ==
    ASSUME NEW tasks_ \in Seq(HostTask), tasks_ # <<>>
    PROVE  /\ Head(tasks_) \in HostTask /\ Tail(tasks_) \in Seq(HostTask)
           /\ tasks_ = <<Head(tasks_)>> \o Tail(tasks_)
<1> HIDE DEF HostTask
<1> QED
  OBVIOUS

\* What the queue says depends on the tasks alone.
LEMMA QueueSame ==
    ASSUME NEW s, NEW th, QueueOK(s, th), NEW th2 \in HostThreads,
           th2.running = th.running, th2.tasks = th.tasks, th2.ran = th.ran
    PROVE  QueueOK(s, th2)
<1>1. TasksLeft(th2) = TasksLeft(th)
  BY DEF TasksLeft
<1> QED
  BY <1>1, Zenon DEF QueueOK

\* A task taken off the queue, with what it means for the calls.
LEMMA TakenIs ==
    ASSUME NEW s, NEW th, QueueOK(s, th), th.running = Core!NoTask, th.tasks # <<>>
    PROVE  /\ Head(th.tasks) \in HostTask /\ Tail(th.tasks) \in Seq(HostTask)
           /\ TasksLeft(th) = <<Head(th.tasks)>> \o Tail(th.tasks)
<1>1. th \in HostThreads
  BY DEF QueueOK
<1>2. th.tasks \in Seq(HostTask) /\ TasksLeft(th) = th.tasks
  BY <1>1, ThreadFields, QueueIs, Zenon
<1> QED
  BY <1>2, FirstAndRest, Zenon

\* The front of the queue goes: a task that is no call, or the call done.
LEMMA QueueShrinks ==
    ASSUME NEW s, NEW th, QueueOK(s, th), NEW task \in HostTask, NEW rest \in Seq(HostTask),
           TasksLeft(th) = <<task>> \o rest,
           NEW s2 \in HostSources, NEW th2 \in HostThreads,
           th2.running = Core!NoTask, th2.tasks = rest, th2.ran = th.ran \o Token(task),
           s2.calls = s.calls, s2.sent = s.sent,
           s2.done = IF task.kind = "apply" THEN task.call ELSE s.done
    PROVE  QueueOK(s2, th2)
<1>1. PICK left \in Seq(HostTask) : left = TasksLeft(th) /\ left = <<task>> \o rest
  BY QueueIs, Zenon DEF QueueOK
<1>2. s.done <= s.calls /\ InOrder(left, s.done, s.calls) /\ th.ran \o Core!TokensOf(left) = s.sent
  BY <1>1, Zenon DEF QueueOK
<1>3. TasksLeft(th2) = rest
  BY QueueIs, Zenon
<1>4. InOrder(rest, s2.done, s2.calls) /\ s2.done <= s2.calls
  <2>1. /\ InOrder(rest, s.done, s.calls)
        /\ task.kind = "apply" => InOrder(rest, task.call, s.calls) /\ task.call <= s.calls
    BY <1>1, <1>2, OrderTaken, Zenon
  <2>2. CASE task.kind = "apply"
    <3>1. s2.done = task.call
      BY <2>2
    <3> QED
      BY <2>1, <2>2, <3>1, Zenon
  <2>3. CASE task.kind # "apply"
    <3>1. s2.done = s.done
      BY <2>3
    <3> QED
      BY <1>2, <2>1, <3>1, Zenon
  <2> QED
    BY <2>2, <2>3
<1>5. th2.ran \o Core!TokensOf(rest) = s2.sent
  <2>1. Core!TokensOf(left) = Token(task) \o Core!TokensOf(rest)
    BY <1>1, TokensOfBefore, Zenon
  <2>2. Core!TokensOf(rest) \in Seq(Nat)
    BY TokensAreNumbers, Zenon
  <2>3. th.ran \in Seq(Nat)
    BY ThreadFields, Zenon DEF QueueOK
  <2>4. th.ran \o (Token(task) \o Core!TokensOf(rest)) = (th.ran \o Token(task)) \o Core!TokensOf(rest)
    BY <2>2, <2>3, TokenMoves, Zenon
  <2> QED
    BY <1>2, <2>1, <2>4, Zenon
<1> QED
  BY <1>3, <1>4, <1>5, Zenon DEF QueueOK

\* A task is posted.
LEMMA QueueGrows ==
    ASSUME NEW s, NEW th, QueueOK(s, th), NEW task \in HostTask,
           NEW s2 \in HostSources, NEW th2 \in HostThreads,
           th2.running = th.running, th2.tasks = Append(th.tasks, task), th2.ran = th.ran,
           s2.done = s.done, s2.sent = s.sent \o Token(task),
           \/ task.kind = "apply" /\ s2.calls = s.calls + 1 /\ task.call = s2.calls
           \/ task.kind # "apply" /\ s2.calls = s.calls
    PROVE  QueueOK(s2, th2)
<1>1. th \in HostThreads /\ s \in HostSources
  BY DEF QueueOK
<1>2. PICK left \in Seq(HostTask) : left = TasksLeft(th)
  BY <1>1, QueueIs
<1>3. s.done <= s.calls /\ InOrder(left, s.done, s.calls) /\ th.ran \o Core!TokensOf(left) = s.sent
  BY <1>2, Zenon DEF QueueOK
<1>4. TasksLeft(th2) = Append(left, task)
  <2>1. th.tasks \in Seq(HostTask) /\ th.running \in HostTask \cup {Core!NoTask}
    BY <1>1, ThreadFields
  <2>2. CASE th.running = Core!NoTask
    <3>1. TasksLeft(th) = th.tasks /\ TasksLeft(th2) = th2.tasks
      BY <1>1, <2>2, QueueIs, Zenon
    <3> QED
      BY <1>2, <3>1
  <2>3. CASE th.running # Core!NoTask
    <3>1. TasksLeft(th) = <<th.running>> \o th.tasks /\ TasksLeft(th2) = <<th.running>> \o th2.tasks
      BY <1>1, <2>3, QueueIs, Zenon
    <3>2. PICK now \in HostTask, later \in Seq(HostTask) : now = th.running /\ later = th.tasks
      BY <2>1, <2>3
    <3> HIDE DEF HostTask
    <3>3. <<now>> \o Append(later, task) = Append(<<now>> \o later, task)
      OBVIOUS
    <3> QED
      BY <1>2, <3>1, <3>2, <3>3
  <2> QED
    BY <2>2, <2>3
<1>5. PICK more \in Seq(HostTask) : more = Append(left, task)
  BY TaskAppended, Zenon
<1>6. s.done \in Nat /\ s.calls \in Nat /\ s2.calls \in Nat
  BY <1>1 DEF HostSources
<1>7. InOrder(more, s2.done, s2.calls)
  <2>1. PICK done \in Nat, made \in Nat, later \in Nat : done = s.done /\ made = s.calls /\ later = s2.calls
    BY <1>6
  <2>2. \/ task.kind = "apply" /\ later = made + 1 /\ task.call = later
        \/ task.kind # "apply" /\ later = made
    BY <2>1
  <2>3. InOrder(left, done, made) /\ done <= made
    BY <1>3, <2>1
  <2>4. InOrder(Append(left, task), done, later)
    BY <2>2, <2>3, OrderPosted, Zenon
  <2> QED
    BY <1>5, <2>1, <2>4, Zenon
<1>8. s2.done <= s2.calls
  BY <1>3, <1>6
<1>9. th2.ran \o Core!TokensOf(more) = s2.sent
  <2>1. Core!TokensOf(more) = Core!TokensOf(left) \o Token(task)
    BY <1>5, TokensOfLonger, Zenon
  <2>2. PICK x \in Seq(Nat), y \in Seq(Nat), z \in Seq(Nat) :
          x = th.ran /\ y = Core!TokensOf(left) /\ z = Token(task)
    BY <1>1, ThreadFields, TokensAreNumbers, TokenInSeq
  <2>3. Join(x, Join(y, z)) = Join(Join(x, y), z)
    BY Joined
  <2> QED
    BY <1>3, <2>1, <2>2, <2>3 DEF Join
<1> QED
  BY <1>1, <1>4, <1>5, <1>7, <1>8, <1>9, Zenon DEF QueueOK

-----------------------------------------------------------------------------
(* The core host: what the controller does.                                *)

LEMMA ModesAre ==
    ASSUME NEW m \in HostModes
    PROVE  /\ m.state \in {"inactive", "filling", "active", "error"} /\ m.generation \in Nat
           /\ m.scene \in HostScenes /\ m.started \in HostScenes /\ m.delay \in HostDelays
           /\ Core!Filling(m) \in HostModes /\ Core!Stopped(m) \in HostModes
           /\ [Core!Filling(m) EXCEPT !.started = m.scene] \in HostModes
           /\ [m EXCEPT !.state = "error"] \in HostModes /\ [m EXCEPT !.state = "active"] \in HostModes
<1> HIDE DEF HostScenes, HostDelays
<1>1. /\ m.state \in {"inactive", "filling", "active", "error"} /\ m.generation \in Nat
      /\ m.scene \in HostScenes /\ m.started \in HostScenes /\ m.delay \in HostDelays
  BY DEF HostModes
<1>2. Core!Filling(m) \in HostModes
  <2>1. PICK n \in Nat : n = m.generation + 1
    BY <1>1
  <2>2. Core!Filling(m) = [m EXCEPT !.state = "filling", !.generation = n]
    BY <2>1, Zenon DEF Core!Filling
  <2>3. [m EXCEPT !.state = "filling", !.generation = n] \in HostModes
    BY DEF HostModes
  <2> QED
    BY <2>2, <2>3
<1>3. Core!Stopped(m) \in HostModes
  BY DEF HostModes, Core!Stopped
<1>4. [Core!Filling(m) EXCEPT !.started = m.scene] \in HostModes
  BY <1>1, <1>2 DEF HostModes
<1>5. [m EXCEPT !.state = "error"] \in HostModes /\ [m EXCEPT !.state = "active"] \in HostModes
  BY DEF HostModes
<1> QED
  BY <1>1, <1>2, <1>3, <1>4, <1>5, Zenon

\* Filling again, and stopping, keep to the scene the delay started on.
LEMMA FillingKeeps ==
    ASSUME NEW m \in HostModes, OnStarted(m)
    PROVE  /\ Core!DelayOn(m) => OnStarted(Core!Filling(m))
           /\ OnStarted(Core!Stopped(m)) /\ OnStarted([m EXCEPT !.state = "error"])
           /\ OnStarted([Core!Filling(m) EXCEPT !.started = m.scene])
           /\ m.state = "filling" => OnStarted([m EXCEPT !.state = "active"])
<1> HIDE DEF HostScenes, HostDelays
<1> QED
  BY DEF HostModes, Core!Filling, Core!Stopped, OnStarted, Core!DelayOn

LEMMA EnableKeeps ==
    ASSUME NEW m \in HostModes, OnStarted(m), NEW r \in Core!EnableResults(m)
    PROVE  r \in HostModes /\ OnStarted(r)
<1>1. r \in {m, [Core!Filling(m) EXCEPT !.started = m.scene], [m EXCEPT !.state = "error"]}
  BY DEF Core!EnableResults
<1> QED
  BY <1>1, ModesAre, FillingKeeps, Zenon

LEMMA CommandKeeps ==
    ASSUME NEW m \in HostModes, OnStarted(m), NEW command, NEW r \in Core!CommandResults(m, command)
    PROVE  r \in HostModes /\ OnStarted(r)
<1>1. r \in Core!EnableResults(m) \cup {Core!Stopped(m), m}
  BY DEF Core!CommandResults
<1> QED
  BY <1>1, EnableKeeps, ModesAre, FillingKeeps, Zenon

LEMMA ConfigKeeps ==
    ASSUME NEW m \in HostModes, OnStarted(m), NEW config \in Configs, NEW r \in Core!ConfigResults(m, config)
    PROVE  r \in HostModes /\ OnStarted(r)
<1>1. PICK picked : picked = IF Core!MayPickScene(m) THEN [m EXCEPT !.scene = config.scene] ELSE m
  OBVIOUS
<1>2. PICK sized : sized = [picked EXCEPT !.delay = config.delay]
  OBVIOUS
<1>3. r \in {sized, Core!Filling(sized)} /\ (r # sized => m.state = "active")
  BY <1>1, <1>2 DEF Core!ConfigResults
<1>4. config.scene \in HostScenes /\ config.delay \in HostDelays
  BY DEF HostScenes, HostDelays
<1>5. picked \in HostModes /\ picked.state = m.state /\ OnStarted(picked)
  <2>1. CASE Core!DelayOn(m)
    <3>1. picked = m
      BY <1>1, <2>1 DEF Core!MayPickScene
    <3> QED
      BY <3>1
  <2>2. CASE ~Core!DelayOn(m)
    <3>1. picked = [m EXCEPT !.scene = config.scene]
      BY <1>1, <2>2 DEF Core!MayPickScene
    <3> HIDE DEF HostScenes, HostDelays
    <3> QED
      BY <1>4, <2>2, <3>1 DEF HostModes, OnStarted, Core!DelayOn
  <2> QED
    BY <2>1, <2>2
<1>6. sized \in HostModes /\ sized.state = m.state /\ OnStarted(sized)
  <2> HIDE DEF HostScenes, HostDelays
  <2> QED
    BY <1>2, <1>4, <1>5 DEF HostModes, OnStarted, Core!DelayOn
<1>7. m.state = "active" => Core!DelayOn(sized)
  BY <1>6 DEF Core!DelayOn
<1> QED
  BY <1>3, <1>6, <1>7, ModesAre, FillingKeeps, Zenon

\* OnStatus leaves the timer as the window asks, and the thread as it was.
LEMMA NotifiedIs ==
    ASSUME NEW m \in HostModes, NEW th \in HostThreads, Core!Notified(m, th)
    PROVE  /\ delayMode' = m /\ snapshot'.ran = Len(th.ran) /\ FillOK(coreThread', m)
           /\ coreThread' \in HostThreads
           /\ coreThread'.running = th.running /\ coreThread'.tasks = th.tasks /\ coreThread'.ran = th.ran
<1>1. th.timer \in HostTimers /\ m.generation \in Nat
  BY ThreadFields, ModesAre, Zenon
<1>2. PICK timer : timer = Core!Rearmed(th.timer, m)
  OBVIOUS
<1>3. delayMode' = m /\ coreThread' = [th EXCEPT !.timer = timer] /\ snapshot' = Core!Status(m, timer, Len(th.ran))
  BY <1>2, Zenon DEF Core!Notified
<1>4. timer \in HostTimers /\ (timer.armed <=> m.state = "filling") /\ (timer.armed => timer.generation = m.generation)
  BY <1>1, <1>2 DEF Core!Rearmed, HostTimers
<1>5. snapshot'.ran = Len(th.ran)
  BY <1>3 DEF Core!Status
<1>6. coreThread' \in HostThreads /\ coreThread'.timer = timer
      /\ coreThread'.running = th.running /\ coreThread'.tasks = th.tasks /\ coreThread'.ran = th.ran
  <2> HIDE DEF HostTask, HostTimers
  <2> QED
    BY <1>3, <1>4 DEF HostThreads
<1> QED
  BY <1>3, <1>4, <1>5, <1>6 DEF FillOK

\* A step of the thread that ends in a notice.
LEMMA NotifiedStep ==
    ASSUME NEW m \in HostModes, OnStarted(m), NEW th \in HostThreads, Core!Notified(m, th),
           QueueOK(source', th), ReportOK(source')
    PROVE  CoreInvariant'
<1>1. /\ delayMode' = m /\ snapshot'.ran = Len(th.ran) /\ FillOK(coreThread', m)
      /\ coreThread' \in HostThreads
      /\ coreThread'.running = th.running /\ coreThread'.tasks = th.tasks /\ coreThread'.ran = th.ran
  BY NotifiedIs, Zenon
<1>2. QueueOK(source', coreThread')
  BY <1>1, QueueSame, Zenon
<1>3. snapshot'.ran = Len(coreThread'.ran)
  BY <1>1
<1> QED
  BY <1>1, <1>2, <1>3, Zenon DEF CoreInvariant

-----------------------------------------------------------------------------
(* The core host: its steps.                                               *)

\* A step that is no notice leaves the controller and its timer as they are.
LEMMA OtherStep ==
    ASSUME CoreInvariant, UNCHANGED <<delayMode, snapshot>>, QueueOK(source', coreThread'), ReportOK(source'),
           coreThread'.timer = coreThread.timer, coreThread'.ran = coreThread.ran
    PROVE  CoreInvariant'
<1>1. FillOK(coreThread', delayMode)
  BY DEF CoreInvariant, FillOK
<1>2. delayMode' = delayMode /\ snapshot' = snapshot
  OBVIOUS
<1>3. FillOK(coreThread, delayMode)' /\ OnStarted(delayMode)' /\ delayMode' \in HostModes
  BY <1>1, <1>2 DEF CoreInvariant, FillOK, OnStarted
<1>4. snapshot'.ran = Len(coreThread'.ran)
  BY <1>2 DEF CoreInvariant
<1> QED
  BY <1>3, <1>4, Zenon DEF CoreInvariant

LEMMA SourceFields ==
    ASSUME NEW s \in HostSources
    PROVE  /\ s.alive \in BOOLEAN /\ s.pc \in {"idle", "waits"} /\ s.token \in Nat /\ s.calls \in Nat
           /\ s.done \in Nat /\ s.slow \in Nat /\ s.saved \in HostSettings /\ s.sent \in Seq(Nat)
           /\ s.seen \in Nat /\ s.current \in BOOLEAN
<1> HIDE DEF HostSettings
<1> QED
  BY DEF HostSources

LEMMA StatesAre ==
    ASSUME CoreInvariant
    PROVE  source \in HostSources /\ coreThread \in HostThreads /\ delayMode \in HostModes /\ snapshot.ran \in Nat
<1>1. coreThread \in HostThreads
  BY Zenon DEF CoreInvariant, QueueOK
<1>2. coreThread.ran \in Seq(Nat)
  BY <1>1, ThreadFields
<1>3. snapshot.ran \in Nat
  BY <1>2 DEF CoreInvariant
<1> QED
  BY <1>1, <1>3, Zenon DEF CoreInvariant, QueueOK

\* Update posts the command as one task, or none with a token it knows.
LEMMA PostStep ==
    ASSUME CoreInvariant, NEW settings \in HostSettings, NEW known, Core!PostUpdate(settings, known)
    PROVE  CoreInvariant'
<1> DEFINE command == IF settings.token # known THEN settings.command ELSE NoCommand
<1>1. PICK task : task = [kind |-> "apply", call |-> source.calls + 1, config |-> settings.config,
                          command |-> command, token |-> settings.token]
  OBVIOUS
<1>2. /\ coreThread' = [coreThread EXCEPT !.alive = TRUE, !.tasks = Append(@, task)]
      /\ source' = [source EXCEPT !.alive = TRUE, !.pc = "waits", !.token = settings.token, !.saved = settings,
                                  !.calls = @ + 1,
                                  !.sent = IF command # NoCommand THEN Append(@, settings.token) ELSE @]
      /\ UNCHANGED <<delayMode, snapshot>>
  BY <1>1, Zenon DEF Core!PostUpdate, Core!Posted, NoCommand
<1>3. source \in HostSources /\ coreThread \in HostThreads
  BY StatesAre
<1>4. settings.config \in Configs /\ settings.command \in Commands \cup {NoCommand} /\ settings.token \in Nat
  <2> HIDE DEF NoCommand
  <2> QED
    BY DEF HostSettings
<1>5. PICK made \in Nat : made = source.calls + 1
  BY <1>3, SourceFields
<1>6. command \in Commands \cup {NoCommand}
  BY <1>4, Zenon
<1>7. task \in HostTask /\ task.kind = "apply" /\ task.call = made /\ task.token = settings.token
      /\ task.command = command
  <2> HIDE DEF NoCommand, command
  <2> QED
    BY <1>1, <1>4, <1>5, <1>6 DEF HostTask
<1>8. PICK sent \in Seq(Nat) :
        /\ sent = source.sent \o Token(task)
        /\ sent = IF command # NoCommand THEN Append(source.sent, settings.token) ELSE source.sent
  <2> HIDE DEF NoCommand, command
  <2>1. PICK before \in Seq(Nat), number \in Nat : before = source.sent /\ number = settings.token
    BY <1>3, <1>4, SourceFields
  <2>2. CASE command # NoCommand
    <3>1. Token(task) = <<number>>
      BY <1>7, <2>1, <2>2, IsCommandIs DEF Token
    <3>2. Append(before, number) = before \o <<number>> /\ Append(before, number) \in Seq(Nat)
      OBVIOUS
    <3> QED
      BY <2>1, <2>2, <3>1, <3>2
  <2>3. CASE command = NoCommand
    <3>1. Token(task) = <<>>
      BY <1>7, <2>3, IsCommandIs DEF Token
    <3>2. before \o <<>> = before
      OBVIOUS
    <3> QED
      BY <2>1, <2>3, <3>1, <3>2
  <2> QED
    BY <2>2, <2>3
<1>9. source' = [source EXCEPT !.alive = TRUE, !.pc = "waits", !.token = settings.token, !.saved = settings,
                               !.calls = made, !.sent = sent]
  BY <1>2, <1>5, <1>8, Zenon
<1>10. source' \in HostSources /\ source'.pc = "waits" /\ source'.calls = made /\ source'.sent = sent
       /\ source'.done = source.done
  <2> HIDE DEF HostSettings
  <2> QED
    BY <1>3, <1>4, <1>9 DEF HostSources
<1>11. coreThread' \in HostThreads /\ coreThread'.running = coreThread.running /\ coreThread'.ran = coreThread.ran
       /\ coreThread'.tasks = Append(coreThread.tasks, task) /\ coreThread'.timer = coreThread.timer
  <2>1. PICK tasks_ \in Seq(HostTask) : tasks_ = Append(coreThread.tasks, task)
    BY <1>3, <1>7, ThreadFields, TaskAppended, Zenon
  <2>2. coreThread' = [coreThread EXCEPT !.alive = TRUE, !.tasks = tasks_]
    BY <1>2, <2>1
  <2> HIDE DEF HostTask, HostTimers
  <2> QED
    BY <1>3, <2>1, <2>2 DEF HostThreads
<1>12. QueueOK(source', coreThread')
  <2>1. QueueOK(source, coreThread)
    BY Zenon DEF CoreInvariant
  <2>2. source'.calls = source.calls + 1 /\ task.call = source'.calls
    BY <1>5, <1>7, <1>10
  <2>3. source'.sent = source.sent \o Token(task)
    BY <1>8, <1>10
  <2> QED
    BY <1>7, <1>10, <1>11, <2>1, <2>2, <2>3, QueueGrows, Zenon
<1>13. ReportOK(source')
  BY <1>10 DEF ReportOK
<1> QED
  BY <1>2, <1>11, <1>12, <1>13, OtherStep, Zenon

LEMMA UpdateStep ==
    ASSUME CoreInvariant, NEW config \in Configs, NEW command \in Commands \cup {NoCommand},
           Core!UpdateSettings(config, command)
    PROVE  CoreInvariant'
<1>1. source.saved.token \in Nat
  <2>1. source.saved \in HostSettings
    BY StatesAre, SourceFields, Zenon
  <2> HIDE DEF NoCommand
  <2> QED
    BY <2>1 DEF HostSettings
<1>2. PICK number : number = IF command = NoCommand THEN source.saved.token ELSE source.saved.token + 1
  OBVIOUS
<1>3. number \in Nat
  <2> HIDE DEF NoCommand
  <2> QED
    BY <1>1, <1>2
<1>4. PICK settings : settings = [config |-> config, command |-> command, token |-> number]
  OBVIOUS
<1>5. settings \in HostSettings
  <2> HIDE DEF NoCommand
  <2> QED
    BY <1>3, <1>4 DEF HostSettings
<1>6. Core!PostUpdate(settings, source.token)
  BY <1>2, <1>4, Zenon DEF Core!UpdateSettings, NoCommand
<1> QED
  BY <1>5, <1>6, PostStep

LEMMA CreateStep ==
    ASSUME CoreInvariant, Core!CreateSource
    PROVE  CoreInvariant'
<1>1. source.saved \in HostSettings
  BY StatesAre, SourceFields, Zenon
<1>2. Core!PostUpdate(source.saved, source.saved.token)
  BY Zenon DEF Core!CreateSource
<1> QED
  BY <1>1, <1>2, PostStep

LEMMA DestroyStep ==
    ASSUME CoreInvariant, Core!DestroySource
    PROVE  CoreInvariant'
<1>1. source \in HostSources /\ coreThread \in HostThreads
  BY StatesAre
<1>2. source' = [source EXCEPT !.alive = FALSE, !.token = 0] /\ UNCHANGED <<coreThread, delayMode, snapshot>>
  BY DEF Core!DestroySource
<1>3. /\ source' \in HostSources /\ source'.pc = source.pc /\ source'.current = source.current
      /\ source'.seen = source.seen /\ source'.sent = source.sent /\ source'.calls = source.calls
      /\ source'.done = source.done
  <2> HIDE DEF HostSettings
  <2> QED
    BY <1>1, <1>2 DEF HostSources
<1>4. QueueOK(source', coreThread') /\ ReportOK(source')
  BY <1>2, <1>3 DEF CoreInvariant, QueueOK, ReportOK
<1> QED
  BY <1>2, <1>4, OtherStep

\* When the call is done no command is left: what the thread ran is all that
\* was sent.
LEMMA NothingLeft ==
    ASSUME NEW s, NEW th, QueueOK(s, th), s.done >= s.calls
    PROVE  Len(th.ran) = Len(s.sent)
<1>1. s \in HostSources /\ th \in HostThreads
  BY DEF QueueOK
<1>2. PICK left \in Seq(HostTask) : left = TasksLeft(th)
  BY <1>1, QueueIs
<1>3. InOrder(left, s.done, s.calls) /\ th.ran \o Core!TokensOf(left) = s.sent
  BY <1>2, Zenon DEF QueueOK
<1>4. s.done \in Nat /\ s.calls \in Nat
  BY <1>1, SourceFields, Zenon
<1>5. ASSUME NEW i \in 1..Len(left) PROVE ~Core!IsCommand(left[i])
  <2>1. SUFFICES ASSUME left[i].kind = "apply" PROVE FALSE
    BY IsCommandIs, Zenon
  <2>2. left[i] \in HostTask
    <3> HIDE DEF HostTask
    <3> QED
      BY <1>5
  <2>3. left[i].call \in Nat
    <3> HIDE DEF NoCommand
    <3> QED
      BY <2>1, <2>2 DEF HostTask
  <2>4. s.done < left[i].call /\ left[i].call <= s.calls
    BY <1>3, <1>5, <2>1, Zenon DEF InOrder
  <2> QED
    BY <1>4, <2>3, <2>4
<1>6. Core!TokensOf(left) = <<>>
  BY <1>5, NoTokens
<1>7. PICK x \in Seq(Nat) : x = th.ran
  BY <1>1, ThreadFields
<1>8. x \o <<>> = x
  OBVIOUS
<1> QED
  BY <1>3, <1>6, <1>7, <1>8

LEMMA ReturnStep ==
    ASSUME CoreInvariant, NEW current \in BOOLEAN, Core!Returns(current),
           current => source.done >= source.calls
    PROVE  CoreInvariant'
<1>1. source \in HostSources /\ coreThread \in HostThreads /\ snapshot.ran \in Nat
  BY StatesAre
<1>2. PICK slow \in Nat : slow = IF current THEN source.slow ELSE source.slow + 1
  BY <1>1, SourceFields
<1>3. /\ source' = [source EXCEPT !.pc = "idle", !.seen = snapshot.ran, !.current = current, !.slow = slow]
      /\ UNCHANGED <<coreThread, delayMode, snapshot>>
  BY <1>2, Zenon DEF Core!Returns
<1>4. /\ source' \in HostSources /\ source'.current = current /\ source'.seen = snapshot.ran
      /\ source'.sent = source.sent /\ source'.calls = source.calls /\ source'.done = source.done
  <2> HIDE DEF HostSettings
  <2> QED
    BY <1>1, <1>3 DEF HostSources
<1>5. QueueOK(source, coreThread)
  BY Zenon DEF CoreInvariant
<1>6. QueueOK(source', coreThread')
  BY <1>3, <1>4, <1>5 DEF QueueOK
<1>7. ReportOK(source')
  <2>1. SUFFICES ASSUME current PROVE source'.seen = Len(source'.sent)
    BY <1>4 DEF ReportOK
  <2>2. Len(coreThread.ran) = Len(source.sent)
    BY <1>5, <2>1, NothingLeft
  <2>3. snapshot.ran = Len(coreThread.ran)
    BY DEF CoreInvariant
  <2> QED
    BY <1>4, <2>2, <2>3
<1> QED
  BY <1>3, <1>6, <1>7, OtherStep

\* A task that is no call: the thread's last one, or a restart of the ring.
LEMMA SignalPosted ==
    ASSUME CoreInvariant, NEW kind \in {"shutdown", "restarted"}, UNCHANGED <<source, delayMode, snapshot>>,
           coreThread' \in HostThreads, coreThread'.running = coreThread.running,
           coreThread'.tasks = Append(coreThread.tasks, [kind |-> kind]), coreThread'.ran = coreThread.ran,
           coreThread'.timer = coreThread.timer
    PROVE  CoreInvariant'
<1>1. source \in HostSources /\ source.sent \in Seq(Nat)
  BY StatesAre, SourceFields, Zenon
<1>2. PICK task : task = [kind |-> kind]
  OBVIOUS
<1>3. task \in HostTask /\ task.kind # "apply"
  <2> HIDE DEF NoCommand
  <2> QED
    BY <1>2 DEF HostTask
<1>4. Token(task) = <<>>
  BY <1>3, IsCommandIs, Zenon DEF Token
<1>5. source.sent = source.sent \o Token(task)
  <2>1. PICK x \in Seq(Nat) : x = source.sent
    BY <1>1
  <2>2. x = x \o <<>>
    OBVIOUS
  <2> QED
    BY <1>4, <2>1, <2>2
<1>6. source' = source /\ delayMode' = delayMode /\ snapshot' = snapshot
  OBVIOUS
<1>7. QueueOK(source, coreThread) /\ ReportOK(source)
  BY Zenon DEF CoreInvariant
<1>8. PICK next : next = coreThread'
  OBVIOUS
<1>9. QueueOK(source, next)
  <2>1. next \in HostThreads /\ next.running = coreThread.running /\ next.tasks = Append(coreThread.tasks, task)
        /\ next.ran = coreThread.ran
    BY <1>2, <1>8
  <2> QED
    BY <1>1, <1>3, <1>5, <1>7, <2>1, QueueGrows, Zenon
<1> QED
  BY <1>6, <1>7, <1>8, <1>9, OtherStep, Zenon

LEMMA ShutdownStep ==
    ASSUME CoreInvariant, Core!ShutdownCore
    PROVE  CoreInvariant'
<1>1. coreThread \in HostThreads
  BY StatesAre
<1>2. PICK task : task = [kind |-> "shutdown"]
  OBVIOUS
<1>3. task \in HostTask
  <2> HIDE DEF NoCommand
  <2> QED
    BY <1>2 DEF HostTask
<1>4. PICK tasks_ \in Seq(HostTask) : tasks_ = Append(coreThread.tasks, task)
  BY <1>1, <1>3, ThreadFields, TaskAppended, Zenon
<1>5. coreThread' = [coreThread EXCEPT !.stopping = TRUE, !.tasks = tasks_] /\ UNCHANGED <<source, delayMode, snapshot>>
  BY <1>2, <1>4, Zenon DEF Core!ShutdownCore, Core!Posted
<1>6. /\ coreThread' \in HostThreads /\ coreThread'.running = coreThread.running /\ coreThread'.tasks = tasks_
      /\ coreThread'.ran = coreThread.ran /\ coreThread'.timer = coreThread.timer
  <2> HIDE DEF HostTask, HostTimers
  <2> QED
    BY <1>1, <1>5 DEF HostThreads
<1> QED
  BY <1>2, <1>4, <1>5, <1>6, SignalPosted, Zenon

LEMMA RingStep ==
    ASSUME CoreInvariant, Core!RingRestarts
    PROVE  CoreInvariant'
<1>1. coreThread \in HostThreads /\ coreThread.restarts \in Nat
  BY StatesAre, ThreadFields, Zenon
<1>2. PICK n \in Nat : n = coreThread.restarts + 1
  BY <1>1
<1>3. PICK task : task = [kind |-> "restarted"]
  OBVIOUS
<1>4. task \in HostTask
  <2> HIDE DEF NoCommand
  <2> QED
    BY <1>3 DEF HostTask
<1>5. PICK tasks_ \in Seq(HostTask) : tasks_ = Append(coreThread.tasks, task)
  BY <1>1, <1>4, ThreadFields, TaskAppended, Zenon
<1>6. UNCHANGED <<source, delayMode, snapshot>>
  BY DEF Core!RingRestarts
<1>7. CASE coreThread.stopping
  <2>1. coreThread' = [coreThread EXCEPT !.restarts = n]
    BY <1>1, <1>2, <1>7 DEF Core!RingRestarts, HostThreads
  <2>2. /\ coreThread' \in HostThreads /\ coreThread'.running = coreThread.running
        /\ coreThread'.tasks = coreThread.tasks /\ coreThread'.ran = coreThread.ran
        /\ coreThread'.timer = coreThread.timer
    <3> HIDE DEF HostTask, HostTimers
    <3> QED
      BY <1>1, <2>1 DEF HostThreads
  <2>3. QueueOK(source, coreThread')
    <3>1. QueueOK(source, coreThread)
      BY Zenon DEF CoreInvariant
    <3> QED
      BY <2>2, <3>1, QueueSame, Zenon
  <2>4. QueueOK(source', coreThread') /\ ReportOK(source')
    BY <1>6, <2>3 DEF CoreInvariant, ReportOK
  <2> QED
    BY <1>6, <2>2, <2>4, OtherStep
<1>8. CASE ~coreThread.stopping
  <2>1. coreThread' = [coreThread EXCEPT !.restarts = n, !.tasks = tasks_]
    <3>1. coreThread' = [coreThread EXCEPT !.restarts = @ + 1,
            !.tasks = IF coreThread.stopping THEN @ ELSE Append(@, [kind |-> "restarted"])]
      BY Zenon DEF Core!RingRestarts, Core!Posted
    <3> HIDE DEF HostTask
    <3> QED
      BY <1>2, <1>3, <1>5, <1>8, <3>1
  <2>2. /\ coreThread' \in HostThreads /\ coreThread'.running = coreThread.running /\ coreThread'.tasks = tasks_
        /\ coreThread'.ran = coreThread.ran /\ coreThread'.timer = coreThread.timer
    <3> HIDE DEF HostTask, HostTimers
    <3> QED
      BY <1>1, <2>1 DEF HostThreads
  <2> QED
    BY <1>3, <1>5, <1>6, <2>2, SignalPosted, Zenon
<1> QED
  BY <1>7, <1>8

\* What the thread takes off the queue.
LEMMA MayTakeIs ==
    ASSUME CoreInvariant, NEW kind, Core!MayTake(kind)
    PROVE  /\ QueueOK(source, coreThread) /\ coreThread \in HostThreads /\ source \in HostSources
           /\ coreThread.running = Core!NoTask /\ Head(coreThread.tasks).kind = kind
           /\ Head(coreThread.tasks) \in HostTask /\ Tail(coreThread.tasks) \in Seq(HostTask)
           /\ TasksLeft(coreThread) = <<Head(coreThread.tasks)>> \o Tail(coreThread.tasks)
<1>1. QueueOK(source, coreThread) /\ coreThread \in HostThreads /\ source \in HostSources
  BY StatesAre, Zenon DEF CoreInvariant
<1>2. coreThread.running = Core!NoTask /\ coreThread.tasks # <<>> /\ Head(coreThread.tasks).kind = kind
  BY Zenon DEF Core!MayTake, Core!NextTask
<1> QED
  BY <1>1, <1>2, TakenIs, Zenon

\* A task that is no call goes, and nothing was asked for by it.
LEMMA SignalTaken ==
    ASSUME CoreInvariant, NEW kind \in {"shutdown", "restarted"}, Core!MayTake(kind),
           NEW th \in HostThreads, th.running = Core!NoTask, th.tasks = Tail(coreThread.tasks),
           th.ran = coreThread.ran
    PROVE  QueueOK(source, th)
<1>1. PICK task \in HostTask, rest \in Seq(HostTask) :
        /\ task.kind = kind /\ rest = Tail(coreThread.tasks)
        /\ TasksLeft(coreThread) = <<task>> \o rest
  BY MayTakeIs, Zenon
<1>2. QueueOK(source, coreThread) /\ source \in HostSources /\ coreThread \in HostThreads
  BY StatesAre, Zenon DEF CoreInvariant
<1>3. task.kind # "apply"
  BY <1>1
<1>4. Token(task) = <<>>
  BY <1>3, IsCommandIs, Zenon DEF Token
<1>5. th.ran = coreThread.ran \o Token(task)
  <2>1. PICK x \in Seq(Nat) : x = coreThread.ran
    BY <1>2, ThreadFields
  <2>2. x = x \o <<>>
    OBVIOUS
  <2> QED
    BY <1>4, <2>1, <2>2
<1>6. source.done = IF task.kind = "apply" THEN task.call ELSE source.done
  BY <1>3
<1>7. th.tasks = rest
  BY <1>1
<1> QED
  BY <1>1, <1>2, <1>5, <1>6, <1>7, QueueShrinks, Zenon

LEMMA RestartedStep ==
    ASSUME CoreInvariant, Core!RunRestarted
    PROVE  CoreInvariant'
<1>1. Core!MayTake("restarted") /\ source' = source
  BY DEF Core!RunRestarted
<1>2. PICK th : th = [coreThread EXCEPT !.tasks = Tail(coreThread.tasks)]
  OBVIOUS
<1>3. PICK m : m = IF Core!DelayOn(delayMode) /\ ~coreThread.shut THEN Core!Filling(delayMode) ELSE delayMode
  OBVIOUS
<1>4. Core!Notified(m, th)
  BY <1>2, <1>3, Zenon DEF Core!RunRestarted, Core!Taken
<1>5. coreThread \in HostThreads /\ coreThread.running = Core!NoTask /\ Tail(coreThread.tasks) \in Seq(HostTask)
  BY <1>1, MayTakeIs, Zenon
<1>6. th \in HostThreads /\ th.running = Core!NoTask /\ th.tasks = Tail(coreThread.tasks) /\ th.ran = coreThread.ran
  <2> HIDE DEF HostTask, HostTimers
  <2> QED
    BY <1>2, <1>5 DEF HostThreads
<1>7. QueueOK(source, th)
  BY <1>1, <1>6, SignalTaken, Zenon
<1>8. delayMode \in HostModes /\ OnStarted(delayMode) /\ ReportOK(source)
  BY Zenon DEF CoreInvariant
<1>9. m \in HostModes /\ OnStarted(m)
  BY <1>3, <1>8, ModesAre, FillingKeeps, Zenon
<1> QED
  BY <1>1, <1>4, <1>6, <1>7, <1>8, <1>9, NotifiedStep, Zenon

LEMMA LastTaskStep ==
    ASSUME CoreInvariant, Core!RunShutdown
    PROVE  CoreInvariant'
<1>1. Core!MayTake("shutdown") /\ UNCHANGED <<source, delayMode, snapshot>>
  BY DEF Core!RunShutdown
<1>2. coreThread \in HostThreads /\ coreThread.running = Core!NoTask /\ Tail(coreThread.tasks) \in Seq(HostTask)
  BY <1>1, MayTakeIs, Zenon
<1>3. PICK tasks_ \in Seq(HostTask) : tasks_ = Tail(coreThread.tasks)
  BY <1>2
<1>4. coreThread' = [[coreThread EXCEPT !.tasks = tasks_] EXCEPT !.shut = TRUE]
  BY <1>3, Zenon DEF Core!RunShutdown, Core!Taken
<1>5. /\ coreThread' \in HostThreads /\ coreThread'.running = Core!NoTask
      /\ coreThread'.tasks = Tail(coreThread.tasks) /\ coreThread'.ran = coreThread.ran
      /\ coreThread'.timer = coreThread.timer
  <2> HIDE DEF HostTask, HostTimers
  <2> QED
    BY <1>2, <1>3, <1>4 DEF HostThreads
<1>6. QueueOK(source, coreThread')
  BY <1>1, <1>5, SignalTaken, Zenon
<1>7. QueueOK(source', coreThread') /\ ReportOK(source')
  BY <1>1, <1>6 DEF CoreInvariant, ReportOK
<1> QED
  BY <1>1, <1>5, <1>7, OtherStep

LEMMA ApplyStep ==
    ASSUME CoreInvariant, Core!ApplyConfig
    PROVE  CoreInvariant'
<1>1. Core!MayTake("apply") /\ source' = source
  BY DEF Core!ApplyConfig
<1>2. PICK task \in HostTask, rest \in Seq(HostTask) :
        /\ task = Head(coreThread.tasks) /\ task.kind = "apply" /\ rest = Tail(coreThread.tasks)
        /\ TasksLeft(coreThread) = <<task>> \o rest
  BY <1>1, MayTakeIs, Zenon
<1>3. PICK th : th = [[coreThread EXCEPT !.tasks = rest] EXCEPT !.running = task]
  OBVIOUS
<1>4. PICK m \in Core!ConfigResults(delayMode, task.config) : Core!Notified(m, th)
  BY <1>2, <1>3, Zenon DEF Core!ApplyConfig, Core!Taken, Core!NextTask
<1>5. coreThread \in HostThreads /\ QueueOK(source, coreThread) /\ ReportOK(source)
  BY StatesAre, Zenon DEF CoreInvariant
<1>6. th \in HostThreads /\ th.running = task /\ th.tasks = rest /\ th.ran = coreThread.ran
  <2> HIDE DEF HostTask, HostTimers
  <2> QED
    BY <1>2, <1>3, <1>5 DEF HostThreads
<1>7. task # Core!NoTask
  BY TasksAre, Zenon
<1>8. TasksLeft(th) = TasksLeft(coreThread)
  BY <1>2, <1>6, <1>7, QueueIs, Zenon
<1>9. QueueOK(source, th)
  BY <1>2, <1>5, <1>6, <1>8, Zenon DEF QueueOK
<1>10. task.config \in Configs
  <2> HIDE DEF NoCommand
  <2> QED
    BY <1>2 DEF HostTask
<1>11. delayMode \in HostModes /\ OnStarted(delayMode)
  BY Zenon DEF CoreInvariant
<1>12. m \in HostModes /\ OnStarted(m)
  BY <1>10, <1>11, ConfigKeeps, Zenon
<1> QED
  BY <1>1, <1>4, <1>5, <1>6, <1>9, <1>12, NotifiedStep, Zenon

LEMMA CommandStep ==
    ASSUME CoreInvariant, Core!RunCommand
    PROVE  CoreInvariant'
<1>1. coreThread \in HostThreads /\ source \in HostSources /\ QueueOK(source, coreThread) /\ ReportOK(source)
  BY StatesAre, Zenon DEF CoreInvariant
<1>2. coreThread.running # Core!NoTask
  BY DEF Core!RunCommand
<1>3. PICK task \in HostTask, rest \in Seq(HostTask) :
        /\ task = coreThread.running /\ rest = coreThread.tasks /\ TasksLeft(coreThread) = <<task>> \o rest
        /\ task.kind = "apply"
  <2>1. coreThread.tasks \in Seq(HostTask)
    BY <1>1, ThreadFields, Zenon
  <2>2. coreThread.running \in HostTask /\ TasksLeft(coreThread) = <<coreThread.running>> \o coreThread.tasks
    BY <1>1, <1>2, QueueIs, Zenon
  <2>3. coreThread.running.kind = "apply"
    BY <1>1, <1>2, Zenon DEF QueueOK
  <2> QED
    BY <2>1, <2>2, <2>3, Zenon
<1>4. PICK ran \in Seq(Nat) :
        /\ ran = coreThread.ran \o Token(task)
        /\ ran = IF task.command # NoCommand THEN Append(coreThread.ran, task.token) ELSE coreThread.ran
  <2> HIDE DEF NoCommand
  <2>1. PICK before \in Seq(Nat) : before = coreThread.ran
    BY <1>1, ThreadFields
  <2>2. CASE Core!IsCommand(task)
    <3>1. PICK number \in Nat : number = task.token
      BY <2>2, CommandToken
    <3>2. Append(before, number) = before \o <<number>> /\ Append(before, number) \in Seq(Nat)
      OBVIOUS
    <3>3. task.command # NoCommand /\ Token(task) = <<number>>
      BY <2>2, <3>1, IsCommandIs DEF Token
    <3> QED
      BY <2>1, <3>1, <3>2, <3>3
  <2>3. CASE ~Core!IsCommand(task)
    <3>1. task.command = NoCommand /\ Token(task) = <<>>
      BY <1>3, <2>3, IsCommandIs DEF Token
    <3>2. before \o <<>> = before
      OBVIOUS
    <3> QED
      BY <2>1, <3>1, <3>2
  <2> QED
    BY <2>2, <2>3
<1>5. PICK th : th = [coreThread EXCEPT !.running = Core!NoTask, !.ran = ran]
  OBVIOUS
<1>6. PICK m \in Core!CommandResults(delayMode, task.command) : Core!Notified(m, th)
  <2>1. PICK r \in Core!CommandResults(delayMode, coreThread.running.command) :
          Core!Notified(r, [coreThread EXCEPT !.running = Core!NoTask,
             !.ran = IF coreThread.running.command # NoCommand THEN Append(@, coreThread.running.token) ELSE @])
    BY Zenon DEF Core!RunCommand, NoCommand
  <2>2. th = [coreThread EXCEPT !.running = Core!NoTask,
             !.ran = IF coreThread.running.command # NoCommand THEN Append(@, coreThread.running.token) ELSE @]
    BY <1>3, <1>4, <1>5, Zenon
  <2> QED
    BY <1>3, <2>1, <2>2, Zenon
<1>7. th \in HostThreads /\ th.running = Core!NoTask /\ th.tasks = rest /\ th.ran = ran
  <2> HIDE DEF HostTask, HostTimers
  <2> QED
    BY <1>1, <1>3, <1>5 DEF HostThreads
<1>8. task.call \in Nat
  <2> HIDE DEF NoCommand
  <2> QED
    BY <1>3 DEF HostTask
<1>9. source' = [source EXCEPT !.done = task.call]
  BY <1>3, Zenon DEF Core!RunCommand
<1>10. /\ source' \in HostSources /\ source'.done = task.call /\ source'.calls = source.calls
       /\ source'.sent = source.sent /\ source'.pc = source.pc /\ source'.current = source.current
       /\ source'.seen = source.seen
  <2> HIDE DEF HostSettings
  <2> QED
    BY <1>1, <1>8, <1>9 DEF HostSources
<1>11. QueueOK(source', th)
  <2>1. source'.done = IF task.kind = "apply" THEN task.call ELSE source.done
    BY <1>3, <1>10
  <2>2. th.ran = coreThread.ran \o Token(task)
    BY <1>4, <1>7
  <2>3. PICK s2 \in HostSources :
          s2 = source' /\ s2.calls = source.calls /\ s2.sent = source.sent
          /\ s2.done = IF task.kind = "apply" THEN task.call ELSE source.done
    BY <1>10, <2>1, Zenon
  <2>4. QueueOK(s2, th)
    BY <1>1, <1>3, <1>7, <2>2, <2>3, QueueShrinks, Zenon
  <2> QED
    BY <2>3, <2>4, Zenon
<1>12. ReportOK(source')
  BY <1>1, <1>10 DEF ReportOK
<1>13. delayMode \in HostModes /\ OnStarted(delayMode)
  BY Zenon DEF CoreInvariant
<1>14. m \in HostModes /\ OnStarted(m)
  BY <1>13, CommandKeeps, Zenon
<1> QED
  BY <1>6, <1>7, <1>11, <1>12, <1>14, NotifiedStep, Zenon

LEMMA FillStep ==
    ASSUME CoreInvariant, Core!FillElapses
    PROVE  CoreInvariant'
<1>1. coreThread \in HostThreads /\ QueueOK(source, coreThread) /\ ReportOK(source) /\ delayMode \in HostModes
      /\ OnStarted(delayMode)
  BY StatesAre, Zenon DEF CoreInvariant
<1>2. PICK th : th = [coreThread EXCEPT !.timer.armed = FALSE]
  OBVIOUS
<1>3. PICK m : m = IF delayMode.state = "filling" THEN [delayMode EXCEPT !.state = "active"] ELSE delayMode
  OBVIOUS
<1>4. Core!Notified(m, th) /\ source' = source
  BY <1>2, <1>3, Zenon DEF Core!FillElapses
<1>5. th \in HostThreads /\ th.running = coreThread.running /\ th.tasks = coreThread.tasks /\ th.ran = coreThread.ran
  <2>1. PICK timer : timer = [coreThread.timer EXCEPT !.armed = FALSE]
    OBVIOUS
  <2>2. timer \in HostTimers
    BY <1>1, <2>1, ThreadFields DEF HostTimers
  <2>3. th = [coreThread EXCEPT !.timer = timer]
    BY <1>2, <2>1
  <2> HIDE DEF HostTask, HostTimers
  <2> QED
    BY <1>1, <2>2, <2>3 DEF HostThreads
<1>6. QueueOK(source, th)
  BY <1>1, <1>5, QueueSame, Zenon
<1>7. m \in HostModes /\ OnStarted(m)
  BY <1>1, <1>3, ModesAre, FillingKeeps, Zenon
<1> QED
  BY <1>1, <1>4, <1>5, <1>6, <1>7, NotifiedStep, Zenon

LEMMA ThreadEndsStep ==
    ASSUME CoreInvariant, Core!ThreadEnds
    PROVE  CoreInvariant'
<1>1. coreThread \in HostThreads /\ QueueOK(source, coreThread) /\ ReportOK(source)
  BY StatesAre, Zenon DEF CoreInvariant
<1>2. coreThread' = [coreThread EXCEPT !.alive = FALSE] /\ UNCHANGED <<source, delayMode, snapshot>>
  BY DEF Core!ThreadEnds
<1>3. /\ coreThread' \in HostThreads /\ coreThread'.running = coreThread.running
      /\ coreThread'.tasks = coreThread.tasks /\ coreThread'.ran = coreThread.ran
      /\ coreThread'.timer = coreThread.timer
  <2> HIDE DEF HostTask, HostTimers
  <2> QED
    BY <1>1, <1>2 DEF HostThreads
<1>4. QueueOK(source, coreThread')
  BY <1>1, <1>3, QueueSame, Zenon
<1>5. QueueOK(source', coreThread') /\ ReportOK(source')
  BY <1>1, <1>2, <1>4 DEF ReportOK
<1> QED
  BY <1>2, <1>3, <1>5, OtherStep

LEMMA CoreStarts == ASSUME Core!CoreInit PROVE CoreInvariant
<1>1. PICK config \in Configs :
        source = [alive |-> FALSE, pc |-> "idle", token |-> 0, calls |-> 0, done |-> 0, slow |-> 0,
                  saved |-> [config |-> config, command |-> NoCommand, token |-> 0],
                  sent |-> <<>>, seen |-> 0, current |-> TRUE]
  BY Zenon DEF Core!CoreInit, NoCommand
<1>2. coreThread = [alive |-> FALSE, stopping |-> FALSE, shut |-> FALSE, tasks |-> <<>>, running |-> Core!NoTask,
                    timer |-> [armed |-> FALSE, generation |-> 0], ran |-> <<>>, restarts |-> 0]
  BY Zenon DEF Core!CoreInit
<1>3. delayMode = [state |-> "inactive", generation |-> 0, scene |-> "none", started |-> "none", delay |-> 0]
      /\ snapshot = Core!Status(delayMode, coreThread.timer, 0)
  BY Zenon DEF Core!CoreInit
<1>4. source \in HostSources
  <2>1. PICK saved \in HostSettings : saved = [config |-> config, command |-> NoCommand, token |-> 0]
    <3> HIDE DEF NoCommand
    <3> QED
      BY DEF HostSettings
  <2> HIDE DEF HostSettings
  <2> QED
    BY <1>1, <2>1 DEF HostSources
<1>5. coreThread \in HostThreads
  <2>1. PICK timer \in HostTimers : timer = [armed |-> FALSE, generation |-> 0]
    BY DEF HostTimers
  <2> HIDE DEF HostTask, HostTimers
  <2> QED
    BY <1>2, <2>1 DEF HostThreads
<1>6. delayMode \in HostModes
  <2>1. "none" \in HostScenes /\ 0 \in HostDelays
    BY DEF HostScenes, HostDelays
  <2> HIDE DEF HostScenes, HostDelays
  <2> QED
    BY <1>3, <2>1 DEF HostModes
<1>7. source.pc = "idle" /\ source.calls = 0 /\ source.done = 0 /\ source.sent = <<>> /\ source.seen = 0
  BY <1>1
<1>8. coreThread.running = Core!NoTask /\ coreThread.tasks = <<>> /\ coreThread.ran = <<>>
      /\ coreThread.timer = [armed |-> FALSE, generation |-> 0]
  BY <1>2
<1>9. TasksLeft(coreThread) = <<>>
  BY <1>5, <1>8, QueueIs, Zenon
<1>10. PICK left \in Seq(HostTask) : left = TasksLeft(coreThread) /\ left = <<>> /\ Len(left) = 0
  BY <1>5, <1>9, QueueIs
<1>11. InOrder(left, 0, 0)
  BY <1>10 DEF InOrder
<1>12. Core!TokensOf(left) = <<>>
  <2>1. \A i \in 1..Len(left) : ~Core!IsCommand(left[i])
    BY <1>10
  <2> QED
    BY <1>10, <2>1, NoTokens, Zenon
<1>13. <<>> \o <<>> = <<>>
  OBVIOUS
<1>14. QueueOK(source, coreThread)
  <2>1. InOrder(TasksLeft(coreThread), source.done, source.calls)
    BY <1>7, <1>10, <1>11
  <2>2. coreThread.ran \o Core!TokensOf(TasksLeft(coreThread)) = source.sent
    BY <1>7, <1>8, <1>10, <1>12, <1>13
  <2>3. source.done <= source.calls
    BY <1>7
  <2> QED
    BY <1>4, <1>5, <1>8, <2>1, <2>2, <2>3, Zenon DEF QueueOK
<1>15. Len(<<>>) = 0
  OBVIOUS
<1>16. ReportOK(source) /\ snapshot.ran = Len(coreThread.ran)
  BY <1>3, <1>7, <1>8, <1>15 DEF ReportOK, Core!Status
<1>17. FillOK(coreThread, delayMode) /\ OnStarted(delayMode)
  BY <1>3, <1>8 DEF FillOK, OnStarted, Core!DelayOn
<1> QED
  BY <1>6, <1>14, <1>16, <1>17, Zenon DEF CoreInvariant

LEMMA CoreStep ==
    ASSUME CoreInvariant, [Core!CoreNext]_coreVars
    PROVE  CoreInvariant'
<1>1. CASE UNCHANGED coreVars
  BY <1>1, Zenon DEF coreVars, CoreInvariant
<1>2. CASE \E config \in Configs, command \in Commands \cup {NoCommand} : Core!UpdateSettings(config, command)
  BY <1>2, UpdateStep, Zenon
<1>3. CASE Core!UpdateReturns
  BY <1>3, ReturnStep DEF Core!UpdateReturns
<1>4. CASE Core!UpdateGivesUp
  BY <1>4, ReturnStep DEF Core!UpdateGivesUp
<1>5. CASE \/ Core!CreateSource \/ Core!DestroySource \/ Core!ShutdownCore \/ Core!RingRestarts
           \/ Core!ApplyConfig \/ Core!RunCommand \/ Core!RunRestarted \/ Core!RunShutdown
           \/ Core!FillElapses \/ Core!ThreadEnds
  BY <1>5, CreateStep, DestroyStep, ShutdownStep, RingStep, ApplyStep, CommandStep, RestartedStep, LastTaskStep,
     FillStep, ThreadEndsStep, Zenon
<1> QED
  BY <1>1, <1>2, <1>3, <1>4, <1>5, Zenon DEF Core!CoreNext, NoCommand

LEMMA CoreIsEnough == ASSUME CoreInvariant PROVE Core!HostCommandsLand
<1>1. source \in HostSources /\ coreThread \in HostThreads /\ delayMode \in HostModes /\ QueueOK(source, coreThread)
  BY StatesAre, Zenon DEF CoreInvariant
<1>2. Core!CoreTypeOK
  <2>1. delayMode.state \in {"inactive", "filling", "active", "error"}
    BY <1>1, ModesAre, Zenon
  <2>2. source.pc \in {"idle", "waits"}
    BY <1>1, SourceFields, Zenon
  <2>3. source.done <= source.calls /\ (coreThread.running = Core!NoTask \/ coreThread.running.kind = "apply")
    BY <1>1, Zenon DEF QueueOK
  <2> QED
    BY <2>1, <2>2, <2>3, Zenon DEF Core!CoreTypeOK
<1>3. Core!EveryCommandOnce
  BY <1>1, Zenon DEF QueueOK, TasksLeft, Core!EveryCommandOnce, Core!Waiting, Core!Queue
<1>4. Core!UpdateReportsItsCommand /\ Core!SceneHeld /\ Core!TimerFollowsFill
  BY Zenon DEF CoreInvariant, ReportOK, OnStarted, FillOK, Core!UpdateReportsItsCommand, Core!SceneHeld,
     Core!TimerFollowsFill
<1> QED
  BY <1>2, <1>3, <1>4, Zenon DEF Core!HostCommandsLand

-----------------------------------------------------------------------------
(* The theorems. *)

\* A sign-out never comes undone and leaves nothing valid behind, for any number of tokens, sign-ins and
\* calls at once (token-store.cpp, auth-client.cpp, auth-manager.cpp).
THEOREM SignOutTheorem == PartsSpec => []SignOutIsFinal
<1> DEFINE Inv == part = "signIn" => AccountInvariant
<1>1. PartsInit => Inv
  BY AccountStarts, Zenon DEF PartsInit
<1>2. Inv /\ [PartsNext]_partsVars => Inv'
  BY PartSteps, SignInStep, Zenon
<1>3. Inv => SignOutIsFinal
  BY AccountSafe DEF SignOutIsFinal
<1> HIDE DEF Inv
<1> QED
  BY <1>1, <1>2, <1>3, PTL DEF PartsSpec, partsVars

\* What the host program asks of the core build lands, however many calls it makes and however slow the
\* controller's thread is: every command runs once and in order, a call that saw its task done reports a
\* state after it, and the delay keeps to its scene and its fill timer (core-host.cpp).
THEOREM CoreTheorem == PartsSpec => []HostCommandsLand
<1> DEFINE Inv == part = "core" => CoreInvariant
<1>1. PartsInit => Inv
  BY CoreStarts, Zenon DEF PartsInit
<1>2. Inv /\ [PartsNext]_partsVars => Inv'
  BY PartSteps, CoreStep, Zenon
<1>3. Inv => HostCommandsLand
  BY CoreIsEnough DEF HostCommandsLand
<1> HIDE DEF Inv
<1> QED
  BY <1>1, <1>2, <1>3, PTL DEF PartsSpec, partsVars
=============================================================================
