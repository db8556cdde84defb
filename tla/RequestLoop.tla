---------------------------- MODULE RequestLoop ----------------------------
(***************************************************************************)
(* Client.do of pkg/brainapi: the retry loop every endpoint method runs    *)
(* its HTTP requests through.  Several calls run at once and share the 403 *)
(* streak, the ban flag, the ban reason and the cached credentials.  A 401 *)
(* makes a call run a second, nested loop (Login) before it goes on, so a  *)
(* call has two frames: "main", and "relogin" while Login runs inside it.  *)
(*                                                                         *)
(* Durations, headers and bodies are abstracted to the classes evaluate    *)
(* tells apart; the server may give any answer to any request.  Options    *)
(* are the values a caller passes to NewClient, before its defaulting.     *)
(***************************************************************************)
EXTENDS Integers

CONSTANTS
  Calls,            \* goroutines of one client, each inside one Client.do
  Kinds,            \* the sorts of request the calls make
  OptMaxRetries,    \* Options.MaxRetries
  OptMaxLongPolls,  \* Options.MaxLongPolls
  OptBanThreshold,  \* Options.BanThreshold
  HintMaxLongPolls  \* retryHints.maxLongPolls of a "check" request

AllKinds == {"plain", "submit", "corr", "check", "login", "logout"}

ASSUME OptionsAssumption ==
  /\ Kinds \subseteq AllKinds
  /\ OptMaxRetries \in Nat
  /\ OptMaxLongPolls \in Nat
  /\ OptBanThreshold \in Nat
  /\ HintMaxLongPolls \in Nat

VARIABLES
  pc,            \* where each call is in do / evaluate / Login
  frame,         \* the loop a call is in: its own, or the nested Login's
  req,           \* the kind of request of the call
  errAttempt,    \* retryState.errAttempt of each frame
  longPollSeen,  \* retryState.longPollSeen (a login request has no long poll)
  relogged,      \* retryState.relogged of the main frame
  cancelled,     \* the call's ctx is done
  outcome,       \* what do (or the endpoint around it) returned
  streak,        \* Client.consecutive403
  banned,        \* Client.bannedFlag
  banReason,     \* Client.banReason, "none" for the nil pointer
  creds,         \* email and password are cached
  sent,          \* history: HTTP requests sent by each frame
  opaque         \* history: opaque 403s evaluated by all the calls

shared == <<streak, banned, banReason, creds>>
state == <<errAttempt, longPollSeen, relogged>>
history == <<sent, opaque>>
vars == <<pc, frame, req, state, cancelled, outcome, shared, history>>

Frames == {"main", "relogin"}

-----------------------------------------------------------------------------
(* Options and hints                                                        *)

Defaulted(opt, default) == IF opt = 0 THEN default ELSE opt

MaxRetries == Defaulted(OptMaxRetries, 3)
MaxLongPolls == Defaulted(OptMaxLongPolls, 60)
BanThreshold == Defaulted(OptBanThreshold, 3)

(* The kind of the request the current loop of c is making.                 *)
Kind(c) == IF frame[c] = "relogin" THEN "login" ELSE req[c]

NoAutoRelogin(k) == k = "login"
Accept503(k) == k = "submit"
LongPoll503(k) == k = "corr"
LongPoll200Empty(k) == k \in {"corr", "check"}

EffectiveMaxLongPolls(c) ==
  IF req[c] = "check" /\ HintMaxLongPolls > 0 THEN HintMaxLongPolls ELSE MaxLongPolls

-----------------------------------------------------------------------------
(* Outcomes                                                                 *)

NoOutcome == [err |-> "none", status |-> "none", streak |-> 0, reason |-> "none"]
Failure(e) == [NoOutcome EXCEPT !.err = e]
Response(s) == [NoOutcome EXCEPT !.err = "nil", !.status = s]
BannedError(n, r) == [err |-> "banned", status |-> "none", streak |-> n, reason |-> r]

Errors == {"none", "nil", "banned", "ctx", "network", "rate_limit", "api",
           "not_authenticated", "not_verified", "permission_denied", "drf",
           "long_poll_exceeded", "parse", "persona"}

GoToWith(c, label, out) ==
  /\ pc' = [pc EXCEPT ![c] = label]
  /\ outcome' = [outcome EXCEPT ![c] = out]
  /\ UNCHANGED frame

(* terminal(_, err): do returns an error.  In the nested Login the same     *)
(* error is the call's own, so the whole call is over.                      *)
Finish(c, out) == GoToWith(c, "done", out)

GoTo(c, label) ==
  /\ pc' = [pc EXCEPT ![c] = label]
  /\ UNCHANGED <<outcome, frame>>

(* terminal(resp, nil): the response goes to the endpoint method.  Login    *)
(* requires a 2xx (checkStatus), then decodes the session; Logout wipes the *)
(* local session whatever the response; the others return it.               *)
Deliver(c, status) ==
  \/ /\ Kind(c) = "login"
     /\ status = "2xx"
     /\ GoTo(c, "store")
  \/ /\ Kind(c) = "login"
     /\ \E e \in IF status = "2xx" THEN {"parse", "persona"} ELSE {"api"} :
          Finish(c, Failure(e))
  \/ /\ Kind(c) = "logout"
     /\ GoToWith(c, "wipe", Response(status))
  \/ /\ Kind(c) \notin {"login", "logout"}
     /\ Finish(c, Response(status))

-----------------------------------------------------------------------------

Init ==
  /\ pc = [d \in Calls |-> "idle"]
  /\ frame = [d \in Calls |-> "main"]
  /\ req = [d \in Calls |-> "plain"]
  /\ errAttempt = [d \in Calls |-> [f \in Frames |-> 0]]
  /\ longPollSeen = [d \in Calls |-> 0]
  /\ relogged = [d \in Calls |-> FALSE]
  /\ cancelled = [d \in Calls |-> FALSE]
  /\ outcome = [d \in Calls |-> NoOutcome]
  /\ streak = 0
  /\ banned = FALSE
  /\ banReason = "none"
  /\ creds \in BOOLEAN
  /\ sent = [d \in Calls |-> [f \in Frames |-> 0]]
  /\ opaque = 0

(* An endpoint method calls do.                                             *)
Begin(c, k) ==
  /\ pc[c] = "idle"
  /\ req' = [req EXCEPT ![c] = k]
  /\ GoTo(c, "preflight")
  /\ UNCHANGED <<state, cancelled, shared, history>>

(* preflight: bannedFlag.Load.  Its cooldown gate never refuses a call: no  *)
(* code assigns cooldownUntil.                                              *)
Preflight(c) ==
  /\ pc[c] = "preflight"
  /\ GoTo(c, IF banned THEN "refused" ELSE "loop")
  /\ UNCHANGED <<req, state, cancelled, shared, history>>

(* preflight refuses: banReason.Load and consecutive403.Load, after the     *)
(* flag was loaded.                                                         *)
Refuse(c) ==
  /\ pc[c] = "refused"
  /\ Finish(c, BannedError(streak, banReason))
  /\ UNCHANGED <<req, state, cancelled, shared, history>>

Live_Unchecked(c) == TRUE

(* ctx.Done at the head of the loop.                                        *)
Live(c) == ~cancelled[c]

(* The head of the loop: one HTTP round trip, unless ctx is done.           *)
Send(c) ==
  /\ pc[c] = "loop"
  /\ Live(c)
  /\ sent' = [sent EXCEPT ![c][frame[c]] = @ + 1]
  /\ GoTo(c, "wait")
  /\ UNCHANGED <<req, state, cancelled, shared, opaque>>

AbortLoop(c) ==
  /\ pc[c] \in {"loop", "sleep"}
  /\ cancelled[c]
  /\ Finish(c, Failure("ctx"))
  /\ UNCHANGED <<req, state, cancelled, shared, history>>

Wake_OnCancel(c) ==
  /\ pc[c] = "sleep"
  /\ cancelled[c]
  /\ GoTo(c, "loop")
  /\ UNCHANGED <<req, state, cancelled, shared, history>>

(* sleepCtx when the timer fires.  A retry with no delay (after a relogin)  *)
(* goes straight to the head of the loop.                                   *)
Wake(c) ==
  /\ pc[c] = "sleep"
  /\ GoTo(c, "loop")
  /\ UNCHANGED <<req, state, cancelled, shared, history>>

-----------------------------------------------------------------------------
(* evaluate: one action per class of response.                              *)

MayRetry_OffByOne(c) == errAttempt[c][frame[c]] <= MaxRetries

MayRetry(c) == errAttempt[c][frame[c]] < MaxRetries

(* An error-class retry spends one unit of the error budget.                *)
RetryError(c) ==
  /\ errAttempt' = [errAttempt EXCEPT ![c][frame[c]] = @ + 1]
  /\ GoTo(c, "sleep")
  /\ UNCHANGED <<longPollSeen, relogged>>

(* Transport errors, 429s, and 5xxs that no hint makes anything else.       *)
Transient(c, err) ==
  /\ pc[c] = "wait"
  /\ \/ MayRetry(c) /\ RetryError(c)
     \/ ~MayRetry(c) /\ Finish(c, Failure(err)) /\ UNCHANGED state
  /\ UNCHANGED <<req, cancelled, shared, history>>

NetworkError(c) == Transient(c, "network")
RateLimited(c) == Transient(c, "rate_limit")
ServerError(c) == Transient(c, "api")

LongPollSeen(c) == longPollSeen[c] + 1

(* 200 with Retry-After and no body, or 503, where the hints say it means   *)
(* "still computing".                                                       *)
LongPollTick(c) ==
  /\ pc[c] = "wait"
  /\ LongPoll200Empty(Kind(c)) \/ LongPoll503(Kind(c))
  /\ longPollSeen' = [longPollSeen EXCEPT ![c] = LongPollSeen(c)]
  /\ IF longPollSeen'[c] > EffectiveMaxLongPolls(c)
     THEN Finish(c, Failure("long_poll_exceeded"))
     ELSE GoTo(c, "sleep")
  /\ UNCHANGED <<errAttempt, relogged, req, cancelled, shared, history>>

(* A final 2xx.                                                             *)
Success(c) ==
  /\ pc[c] = "wait"
  /\ streak' = 0
  /\ Deliver(c, "2xx")
  /\ UNCHANGED <<req, state, cancelled, banned, banReason, creds, history>>

(* 3xx or 503 to a submit request: accepted, still processing.              *)
Accepted(c) ==
  /\ pc[c] = "wait"
  /\ Accept503(Kind(c))
  /\ streak' = 0
  /\ \E s \in {"3xx", "503"} : Deliver(c, s)
  /\ UNCHANGED <<req, state, cancelled, banned, banReason, creds, history>>

MayRelogin_Again(c) == ~NoAutoRelogin(Kind(c))

MayRelogin(c) == ~NoAutoRelogin(Kind(c)) /\ ~relogged[c]

(* 401: Login with the cached credentials, once per call.                   *)
Unauthorized(c) ==
  /\ pc[c] = "wait"
  /\ IF ~MayRelogin(c) THEN Finish(c, Failure("api"))
     ELSE IF ~creds THEN Finish(c, Failure("not_authenticated"))
     ELSE /\ pc' = [pc EXCEPT ![c] = "preflight"]
          /\ frame' = [frame EXCEPT ![c] = "relogin"]
          /\ UNCHANGED outcome
  /\ UNCHANGED <<req, state, cancelled, shared, history>>

(* 403 with a "checks" field: an alpha rejection, returned as a response.   *)
(* BRAIN puts checks in alpha bodies only, never in /authentication's.      *)
Rejected(c) ==
  /\ pc[c] = "wait"
  /\ Kind(c) \notin {"login", "logout"}
  /\ streak' = 0
  /\ Deliver(c, "403")
  /\ UNCHANGED <<req, state, cancelled, banned, banReason, creds, history>>

(* 403 NOT_VERIFIED leaves the streak alone.                                *)
NotVerified(c) ==
  /\ pc[c] = "wait"
  /\ Finish(c, Failure("not_verified"))
  /\ UNCHANGED <<req, state, cancelled, shared, history>>

(* 403 with a DRF detail: not a ban.                                        *)
PermissionDenied(c) ==
  /\ pc[c] = "wait"
  /\ streak' = 0
  /\ Finish(c, Failure("permission_denied"))
  /\ UNCHANGED <<req, state, cancelled, banned, banReason, creds, history>>

Trips_OffByOne(n) == BanThreshold > 0 /\ n > BanThreshold
Trips_Early(n) == BanThreshold > 0 /\ n >= BanThreshold - 1

Trips(n) == BanThreshold > 0 /\ n >= BanThreshold

(* An opaque 403 counts towards the ban.  When the threshold is not reached *)
(* and the error budget is spent, do returns the 403 with a nil error.      *)
Forbidden(c) ==
  /\ pc[c] = "wait"
  /\ streak' = streak + 1
  /\ opaque' = opaque + 1
  /\ \/ /\ Trips(streak')
        /\ GoToWith(c, "trip", BannedError(streak', "body"))
        /\ UNCHANGED state
     \/ ~Trips(streak') /\ MayRetry(c) /\ RetryError(c)
     \/ ~Trips(streak') /\ ~MayRetry(c) /\ Deliver(c, "403") /\ UNCHANGED state
  /\ UNCHANGED <<req, cancelled, banned, banReason, creds, sent>>

TripBan_ReasonDropped(c) ==
  /\ pc[c] = "trip"
  /\ banned' = TRUE
  /\ GoTo(c, "done")
  /\ UNCHANGED <<req, state, cancelled, streak, banReason, creds, history>>

(* bannedFlag.Store(true), and then ...                                     *)
TripBan(c) ==
  /\ pc[c] = "trip"
  /\ banned' = TRUE
  /\ GoTo(c, "publish")
  /\ UNCHANGED <<req, state, cancelled, streak, banReason, creds, history>>

(* ... banReason.Store.                                                     *)
PublishReason(c) ==
  /\ pc[c] = "publish"
  /\ banReason' = "body"
  /\ GoTo(c, "done")
  /\ UNCHANGED <<req, state, cancelled, streak, banned, creds, history>>

(* Any other 4xx, and a 3xx to a request that is not a submit.              *)
ClientError(c) ==
  /\ pc[c] = "wait"
  /\ \E e \in {"api", "drf"} : Finish(c, Failure(e))
  /\ UNCHANGED <<req, state, cancelled, shared, history>>

-----------------------------------------------------------------------------
(* What Login and Logout do with the response, and the callers              *)

(* Login: SetCredentials with the pair it was given.  A nested Login goes   *)
(* back to the loop that met the 401.                                       *)
StoreCredentials(c) ==
  /\ pc[c] = "store"
  /\ creds' = TRUE
  /\ \/ /\ frame[c] = "main"
        /\ Finish(c, Response("2xx"))
        /\ UNCHANGED relogged
     \/ /\ frame[c] = "relogin"
        /\ frame' = [frame EXCEPT ![c] = "main"]
        /\ relogged' = [relogged EXCEPT ![c] = TRUE]
        /\ pc' = [pc EXCEPT ![c] = "loop"]
        /\ UNCHANGED outcome
  /\ UNCHANGED <<req, errAttempt, longPollSeen, cancelled, streak, banned, banReason, history>>

(* Logout: clearJar and ClearCredentials.                                   *)
WipeSession(c) ==
  /\ pc[c] = "wipe"
  /\ creds' = FALSE
  /\ GoTo(c, "done")
  /\ UNCHANGED <<req, state, cancelled, streak, banned, banReason, history>>

(* SetCredentials or ClearCredentials, called by the program.               *)
CallerCredentials ==
  /\ creds' = ~creds
  /\ UNCHANGED <<pc, frame, req, state, cancelled, outcome, streak, banned, banReason, history>>

CancelContext(c) ==
  /\ pc[c] # "done"
  /\ ~cancelled[c]
  /\ cancelled' = [cancelled EXCEPT ![c] = TRUE]
  /\ UNCHANGED <<pc, frame, req, state, outcome, shared, history>>

(* One attempt comes back: the HTTP client's timeout makes it an error at   *)
(* the latest.                                                              *)
Receive(c) ==
  \/ NetworkError(c)
  \/ LongPollTick(c)
  \/ Success(c)
  \/ Accepted(c)
  \/ Unauthorized(c)
  \/ Rejected(c)
  \/ NotVerified(c)
  \/ PermissionDenied(c)
  \/ Forbidden(c)
  \/ RateLimited(c)
  \/ ServerError(c)
  \/ ClientError(c)

(* The steps a call takes by itself once it has begun.                      *)
Step(c) ==
  \/ Preflight(c)
  \/ Refuse(c)
  \/ Send(c)
  \/ AbortLoop(c)
  \/ Wake(c)
  \/ Receive(c)
  \/ TripBan(c)
  \/ PublishReason(c)
  \/ StoreCredentials(c)
  \/ WipeSession(c)

Next ==
  \/ \E c \in Calls : Step(c) \/ CancelContext(c) \/ \E k \in Kinds : Begin(c, k)
  \/ CallerCredentials

Spec == Init /\ [][Next]_vars

FairSpec == Spec /\ \A c \in Calls : WF_vars(Step(c))

-----------------------------------------------------------------------------
(* Properties                                                               *)

Labels == {"idle", "preflight", "refused", "loop", "wait", "sleep", "trip",
           "publish", "store", "wipe", "done"}
Statuses == {"none", "2xx", "3xx", "403", "503"}
Outcomes == [err : Errors, status : Statuses, streak : Nat, reason : {"none", "body"}]

(* The types, with the counters of retryState within their budgets: the     *)
(* last long-poll tick is the one that exceeds the cap.                     *)
TypeOK ==
  /\ pc \in [Calls -> Labels]
  /\ frame \in [Calls -> Frames]
  /\ req \in [Calls -> AllKinds]
  /\ errAttempt \in [Calls -> [Frames -> 0 .. MaxRetries]]
  /\ longPollSeen \in [Calls -> Nat]
  /\ \A c \in Calls : longPollSeen[c] <= EffectiveMaxLongPolls(c) + 1
  /\ relogged \in [Calls -> BOOLEAN]
  /\ cancelled \in [Calls -> BOOLEAN]
  /\ outcome \in [Calls -> Outcomes]
  /\ streak \in Nat
  /\ banned \in BOOLEAN
  /\ banReason \in {"none", "body"}
  /\ creds \in BOOLEAN
  /\ sent \in [Calls -> [Frames -> Nat]]
  /\ opaque \in Nat

(* Client.do's claim that its loop is bounded, as a number of requests:     *)
(* error retries, long-poll ticks and the one relogin are separate budgets, *)
(* and a call never sends more than the first attempt plus all of them,     *)
(* Login's own attempts included, whatever the server answers.              *)
RequestsBounded ==
  \A c \in Calls :
    /\ sent[c]["main"] <= 2 + MaxRetries + EffectiveMaxLongPolls(c)
    /\ sent[c]["relogin"] <= 1 + MaxRetries

(* The ban flag is never set on a healthy account: at least BanThreshold    *)
(* opaque 403s were received first.  Permission 403s, alpha rejections and  *)
(* unverified accounts do not add to them, in whatever order the answers to *)
(* concurrent calls are evaluated.                                          *)
BanIsEarned == banned => opaque >= BanThreshold

(* While the streak stands at the threshold the client is banned, or the    *)
(* call that counted to it is about to set the flag: evaluate's Add and     *)
(* Store leave no schedule in which the count is reached and no one bans.   *)
NoBanLost ==
  BanThreshold > 0 /\ streak >= BanThreshold
    => banned \/ \E c \in Calls : pc[c] = "trip"

(* A ban is visible before its reason only while the call that set the flag *)
(* has not yet stored it.                                                   *)
ReasonFollowsBan ==
  banned /\ banReason = "none" => \E c \in Calls : pc[c] = "publish"

(* Every call returns: no sequence of answers keeps the loop going.         *)
CallsReturn == \A c \in Calls : pc[c] = "preflight" ~> pc[c] = "done"

-----------------------------------------------------------------------------
(* The abstract specification                                               *)

Longest(a, b) == IF a > b THEN a ELSE b

(* The first attempt, the error retries, the long polls and the relogin,    *)
(* and the attempts of the nested Login.                                    *)
RequestBudget == 3 + 2 * MaxRetries + Longest(MaxLongPolls, HintMaxLongPolls)

Phase(c) ==
  IF pc[c] \in {"idle", "done"} THEN IF pc[c] = "idle" THEN "idle" ELSE "over"
  ELSE IF frame[c] = "main" /\ pc[c] \in {"preflight", "refused"} THEN "asked"
  ELSE "admitted"

Result(c) ==
  IF pc[c] # "done" THEN "none"
  ELSE CASE outcome[c].err = "nil" -> "response"
         [] outcome[c].err = "banned" -> "banned"
         [] outcome[c].err = "ctx" -> "stopped"
         [] OTHER -> "error"

Promised == INSTANCE RequestPromise WITH
  Budget <- RequestBudget,
  phase <- [c \in Calls |-> Phase(c)],
  requests <- [c \in Calls |-> sent[c]["main"] + sent[c]["relogin"]],
  stopped <- cancelled,
  result <- [c \in Calls |-> Result(c)]

(* The loop implements RequestPromise: a call admitted before a ban may     *)
(* finish, one that comes later sends nothing; a call whose context is done *)
(* sends nothing more, in its own loop or in a Login it started; ErrBanned  *)
(* is not returned before the client refuses new calls, whatever the        *)
(* interleaving of the flag, the streak and the reason.                     *)
KeepsPromise == Promised!Spec

-----------------------------------------------------------------------------
(* What comments and docs say, and the code does not keep                   *)

(* Logout: "If DELETE fails [...] local state is left untouched".           *)
LogoutNeedsDelete ==
  \A c \in Calls :
    req[c] = "logout" /\ pc[c] \in {"wipe", "done"} /\ outcome[c].err = "nil"
      => outcome[c].status = "2xx"

(* ClearCredentials: "After this call 401 responses propagate               *)
(* ErrNotAuthenticated instead of triggering a transparent re-login".  So a *)
(* re-login does not put back credentials that were cleared.                *)
ClearedStaysCleared ==
  [][\A c \in Calls : frame[c] = "relogin" /\ frame'[c] = "main" => creds]_vars

=============================================================================
