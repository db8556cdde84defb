---------------------------- MODULE SubmitAlpha ----------------------------
(***************************************************************************)
(* SubmitAlpha and parseSubmitVerdict: POST /alphas/{id}/submit, then GET  *)
(* of the same path until an answer holds a verdict.  Budget and ban are   *)
(* SimBudget's and RequestLoop's; of Client.do there is what a submit sees *)
(* of it: repetitions, errors, and the responses it hands back (2xx, and   *)
(* with accept503 also 3xx and 503; a 403 with checks; an opaque 403 when  *)
(* the retries are spent).                                                 *)
(*                                                                         *)
(* BRAIN is external.  Its honest answers tell the state of the alpha; at  *)
(* any time the edge in front of it may answer instead, with anything that *)
(* has no checks, or the answer be lost.                                   *)
(***************************************************************************)
EXTENDS Integers

CONSTANTS
  MaxRetries,   \* Client.maxRetries
  MaxLongPolls  \* Client.maxLongPolls

ASSUME SubmitAssumption ==
  /\ MaxRetries \in Nat
  /\ MaxLongPolls \in Nat

VARIABLES
  alpha,      \* BRAIN: the submission of the alpha
  pc,         \* where SubmitAlpha is
  errAttempt, \* repetitions in the current Client.do
  polls,      \* i of the loop
  answer,     \* the last response Client.do handed back
  verdict,    \* Verdict.Status, or "error", or "none" before
  cancelled,  \* ctx is done
  posted,     \* history: the POSTs BRAIN carried out
  heard       \* history: an answer of BRAIN's own was handed back

vars == <<alpha, pc, errAttempt, polls, answer, verdict, cancelled, posted, heard>>

-----------------------------------------------------------------------------
(* Responses, as far as parseSubmitVerdict tells them apart                 *)

Response(s, b, f, c) == [status |-> s, body |-> b, failing |-> f, corr |-> c]

Bare(s, b) == Response(s, b, FALSE, "absent")
Checked(s, f, c) == Response(s, "is", f, c)

(* The alpha is queued: 503 with any body, 303, 2xx with no body, or with   *)
(* the deterministic checks only.                                           *)
StillPending ==
  {Bare("503", b) : b \in {"empty", "garbage", "no_is"}} \cup {Bare("3xx", "empty"), Bare("2xx", "empty")}
    \cup {Checked("2xx", FALSE, c) : c \in {"absent", "PENDING", "ERROR"}}

(* What BRAIN answers when it tells the state a.                            *)
Honest(a) ==
  CASE a = "queued" -> StillPending
    [] a = "live" -> {Checked("2xx", FALSE, "PASS")}
    [] a = "corr_fail" -> {Checked("403", FALSE, "FAIL")}
    [] a = "check_fail" -> {Checked("403", TRUE, c) : c \in {"absent", "FAIL", "PENDING"}}

(* What do hands back at once although it need not be BRAIN's: the code     *)
(* asks neither whether a 503 or 3xx is the submit endpoint's, nor a 2xx.   *)
Foreign == {Bare(s, b) : s \in {"2xx", "3xx", "503"}, b \in {"empty", "garbage", "no_is"}}

Opaque == {Bare("403", b) : b \in {"empty", "garbage", "no_is"}}

-----------------------------------------------------------------------------
(* parseSubmitVerdict, "nil" for no verdict yet                             *)

KeepPolling(r) == r.status \in {"3xx", "503"}

CheckFails_Ignored(r) == FALSE

(* A check other than SELF_CORRELATION has failed.                          *)
CheckFails(r) == r.failing

Unscreened_Undecided(r) == r.corr \in {"PENDING", "ERROR"}

(* SELF_CORRELATION is not there, or not decided.                           *)
Unscreened(r) == r.corr # "PASS"

ParseSubmitVerdict(r) ==
  CASE KeepPolling(r) -> "nil"
    [] r.body = "empty" /\ ~KeepPolling(r) ->
         IF r.status = "2xx" THEN "nil" ELSE "submit_failed"
    [] r.body = "garbage" /\ ~KeepPolling(r) -> "submit_failed"
    [] r.body = "no_is" /\ ~KeepPolling(r) ->
         IF r.status = "2xx" THEN "verified" ELSE "submit_failed"
    [] r.body = "is" /\ ~KeepPolling(r) ->
         IF CheckFails(r) THEN "submit_failed"
         ELSE IF r.corr = "FAIL" THEN "corr_rejected"
         ELSE IF Unscreened(r) THEN "nil"
         ELSE IF r.status = "2xx" THEN "verified" ELSE "submit_failed"

-----------------------------------------------------------------------------

Init ==
  /\ alpha = "unsubmitted"
  /\ pc = "post"
  /\ errAttempt = 0
  /\ polls = 0
  /\ answer = Bare("none", "empty")
  /\ verdict = "none"
  /\ cancelled = FALSE
  /\ posted = 0
  /\ heard = FALSE

Return(v) ==
  /\ pc' = "returned"
  /\ verdict' = v

Sending == pc \in {"post", "get"} /\ ~cancelled

(* Client.do hands a response back.                                         *)
Deliver(r) ==
  /\ answer' = r
  /\ errAttempt' = 0
  /\ pc' = IF pc = "post" THEN "posted" ELSE "got"
  /\ UNCHANGED <<polls, verdict, cancelled>>

(* BRAIN takes the POST up: the deterministic checks reject the alpha, or   *)
(* it is queued.  Later requests only read.                                 *)
CarryOut ==
  /\ posted' = posted + IF pc = "post" THEN 1 ELSE 0
  /\ IF alpha = "unsubmitted" /\ pc = "post"
     THEN alpha' \in {"queued", "check_fail"}
     ELSE UNCHANGED alpha

BrainAnswers ==
  /\ Sending
  /\ CarryOut
  /\ alpha' # "unsubmitted"
  /\ \E r \in Honest(alpha') : Deliver(r)
  /\ heard' = TRUE

(* The edge answers in its place, whether or not BRAIN took the POST up.    *)
OtherAnswers ==
  /\ Sending
  /\ CarryOut \/ UNCHANGED <<alpha, posted>>
  /\ \E r \in Foreign : Deliver(r)
  /\ UNCHANGED heard

Repeat ==
  /\ errAttempt < MaxRetries
  /\ errAttempt' = errAttempt + 1
  /\ UNCHANGED <<pc, polls, answer, verdict, cancelled>>

Fail ==
  /\ Return("error")
  /\ UNCHANGED <<errAttempt, polls, answer, cancelled>>

(* No answer, a 429, or a 5xx other than the 503 that is handed back: the   *)
(* POST may have been carried out.  It is repeated, or, when the retries    *)
(* are spent or for an answer that ends Client.do at once, an error.        *)
AnswerLost ==
  /\ Sending
  /\ CarryOut \/ UNCHANGED <<alpha, posted>>
  /\ Repeat \/ Fail
  /\ UNCHANGED heard

(* An opaque 403, repeated like an error.  When the retries are spent and   *)
(* the streak, which other calls reset, is not at the threshold, it comes   *)
(* back as a response.                                                      *)
Blocked ==
  /\ Sending
  /\ \/ Repeat
     \/ errAttempt = MaxRetries /\ \E r \in Opaque : Deliver(r)
     \/ Fail
  /\ UNCHANGED <<alpha, posted, heard>>

(* Client.do and sleepCtx give up on a done context.                        *)
Aborted ==
  /\ pc \in {"post", "get", "sleep"}
  /\ cancelled
  /\ Fail
  /\ UNCHANGED <<alpha, posted, heard>>

MorePolls_OffByOne(i) == i <= MaxLongPolls

(* The loop condition.                                                      *)
MorePolls(i) == i < MaxLongPolls

(* i++ after a GET.                                                         *)
Polled == polls + 1

(* A verdict ends it; otherwise the next poll, or "long-poll cap exceeded". *)
Parse ==
  /\ pc \in {"posted", "got"}
  /\ polls' = IF pc = "posted" \/ ParseSubmitVerdict(answer) # "nil" THEN polls ELSE Polled
  /\ IF ParseSubmitVerdict(answer) # "nil" THEN Return(ParseSubmitVerdict(answer))
     ELSE IF MorePolls(polls') THEN pc' = "sleep" /\ UNCHANGED verdict
     ELSE Return("pending_corr")
  /\ UNCHANGED <<alpha, errAttempt, answer, cancelled, posted, heard>>

Wake ==
  /\ pc = "sleep"
  /\ pc' = "get"
  /\ UNCHANGED <<alpha, errAttempt, polls, answer, verdict, cancelled, posted, heard>>

-----------------------------------------------------------------------------

(* BRAIN computes the self-correlation.                                     *)
Screen ==
  /\ alpha = "queued"
  /\ alpha' \in {"live", "corr_fail"}
  /\ UNCHANGED <<pc, errAttempt, polls, answer, verdict, cancelled, posted, heard>>

Cancel ==
  /\ ~cancelled
  /\ cancelled' = TRUE
  /\ UNCHANGED <<alpha, pc, errAttempt, polls, answer, verdict, posted, heard>>

Step == BrainAnswers \/ OtherAnswers \/ AnswerLost \/ Blocked \/ Aborted \/ Parse \/ Wake

Next == Step \/ Screen \/ Cancel

Spec == Init /\ [][Next]_vars

FairSpec == Spec /\ WF_vars(Step)

-----------------------------------------------------------------------------
(* Properties                                                               *)

TypeOK ==
  /\ alpha \in {"unsubmitted", "queued", "live", "corr_fail", "check_fail"}
  /\ pc \in {"post", "posted", "sleep", "get", "got", "returned"}
  /\ errAttempt \in 0 .. MaxRetries
  /\ polls \in 0 .. MaxLongPolls
  /\ answer \in [status : {"none", "2xx", "3xx", "403", "503"}, body : {"empty", "garbage", "no_is", "is"},
                 failing : BOOLEAN, corr : {"absent", "PASS", "FAIL", "PENDING", "ERROR"}]
  /\ verdict \in {"none", "error", "verified", "corr_rejected", "submit_failed", "pending_corr"}
  /\ cancelled \in BOOLEAN
  /\ posted \in 0 .. 1 + MaxRetries
  /\ heard \in BOOLEAN

(* A verdict taken from checks is the truth about the alpha: whatever was   *)
(* answered, lost or repeated before, and however BRAIN's screening runs    *)
(* alongside the polls, it is verified only if live, corr_rejected only if  *)
(* the correlation failed, submit_failed only if another check did.         *)
VerdictIsTrue ==
  answer.body = "is" =>
    /\ verdict = "verified" => alpha = "live"
    /\ verdict = "corr_rejected" => alpha = "corr_fail"
    /\ verdict = "submit_failed" => alpha = "check_fail"

(* pending_corr, "verdict still computing", is said when all polls are      *)
(* spent.  It is wrong, of an alpha that was not received or that the gates *)
(* rejected, only when neither the POST nor any poll was answered by BRAIN  *)
(* itself: one answer of its own among all those of the edge is enough.     *)
PendingIsTold ==
  verdict = "pending_corr" =>
    /\ polls = MaxLongPolls
    /\ heard => alpha \in {"queued", "live", "corr_fail"}

(* SubmitAlpha returns.                                                     *)
SubmitReturns == <>(pc = "returned")

=============================================================================
