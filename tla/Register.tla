------------------------------ MODULE Register ------------------------------
(***************************************************************************)
(* Register: fetch a captcha challenge, solve it, POST /users.  It         *)
(* composes the solver of AltchaSolver, through its adapter, with a POST   *)
(* that is repeated when its answer is lost, although BRAIN may have made  *)
(* the account and takes a captcha solution once.                          *)
(***************************************************************************)
EXTENDS AltchaSolver

CONSTANT MaxRetries   \* Client.maxRetries

ASSUME RegisterAssumption == MaxRetries \in Nat

VARIABLES
  stage,      \* Register: "validate", "fetch", "solve", "post", "over"
  input,      \* the RegisterInput: fields present, captcha already in it
  solver,     \* a CaptchaSolver is configured
  errAttempt, \* repetitions of the POST
  reply,      \* what Register returned: "none", "user", "nil_user", "error"
  account,    \* BRAIN: the account exists
  spent,      \* BRAIN: the captcha solution was used
  lost,       \* history: an answer to a POST that was carried out was lost
  forged      \* history: BRAIN refused a solution the SDK had found

registerVars == <<stage, input, solver, errAttempt, reply, account, spent, lost, forged>>
registration == <<vars, registerVars>>

brain == <<account, spent, lost, forged>>

-----------------------------------------------------------------------------

RegisterInit ==
  /\ Init
  /\ stage = "validate"
  /\ input \in [complete : BOOLEAN, captcha : BOOLEAN]
  /\ solver \in BOOLEAN
  /\ errAttempt = 0
  /\ reply = "none"
  /\ account = FALSE
  /\ spent = FALSE
  /\ lost = FALSE
  /\ forged = FALSE

Enter(s) == stage' = s /\ UNCHANGED reply

Reply(r) == stage' = "over" /\ reply' = r

(* An email, a password, and a captcha or a solver to make one.             *)
Validate ==
  /\ stage = "validate"
  /\ \/ ~input.complete /\ Reply("error")
     \/ input.complete /\ input.captcha /\ Enter("post")
     \/ input.complete /\ ~input.captcha /\ ~solver /\ Reply("error")
     \/ input.complete /\ ~input.captcha /\ solver /\ Enter("fetch")
  /\ UNCHANGED <<vars, input, solver, errAttempt, brain>>

(* FetchCaptchaChallenge and ParseChallenge: a 200 with a challenge, or an  *)
(* error (no answer, another status, no challenge in the body).             *)
FetchCaptcha ==
  /\ stage = "fetch"
  /\ \/ ~cancelled /\ Enter("solve")
     \/ Reply("error")
  /\ UNCHANGED <<vars, input, solver, errAttempt, brain>>

(* The search runs once the challenge is there.                             *)
Search ==
  /\ stage = "solve"
  /\ (\E w \in Workers : Work(w)) \/ Collect
  /\ UNCHANGED registerVars

Searched == main = "returned"

WatchSearch ==
  /\ stage = "solve" \/ Searched
  /\ Watch
  /\ UNCHANGED registerVars

(* The adapter returns: the encoded solution, or the solver's error.        *)
Solved ==
  /\ stage = "solve"
  /\ Searched
  /\ IF result.err = "nil" THEN Enter("post") ELSE Reply("error")
  /\ UNCHANGED <<vars, input, solver, errAttempt, brain>>

(* BRAIN makes the account for a first, well-formed request that carries    *)
(* an unused solution.                                                      *)
Payload == IF input.captcha THEN TRUE ELSE result.number \in matches

Created == account' = TRUE /\ spent' = TRUE /\ Payload /\ ~spent /\ ~account

Posting == stage = "post" /\ ~cancelled

Status_CreatedOnly(s) == s = "201"
Status_Any(s) == TRUE

(* The status check of Register.                                            *)
Status(s) == s \in {"200", "201"}

(* What Register makes of the response do hands it; a body that is no user  *)
(* is not an error.                                                         *)
Answered(s) ==
  IF Status(s) THEN \E r \in {"user", "nil_user"} : Reply(r) ELSE Reply("error")

(* BRAIN answers: the account is made, or the request is refused with a     *)
(* 400, which do returns as an error.                                       *)
BrainAnswers ==
  /\ Posting
  /\ \/ Created /\ (\E s \in {"200", "201"} : Answered(s)) /\ UNCHANGED forged
     \/ Reply("error") /\ UNCHANGED <<account, spent>> /\ forged' = (forged \/ ~Payload)
  /\ UNCHANGED <<vars, input, solver, errAttempt, lost>>

MayRepeat == errAttempt < MaxRetries

Repeat ==
  /\ MayRepeat
  /\ errAttempt' = errAttempt + 1
  /\ UNCHANGED <<stage, reply>>

Fail == Reply("error") /\ UNCHANGED errAttempt

(* No answer, a 5xx or a 429, for a POST that BRAIN carried out or not.     *)
AnswerLost ==
  /\ Posting
  /\ \/ Created /\ lost' = TRUE
     \/ UNCHANGED <<account, spent, lost>>
  /\ Repeat \/ Fail
  /\ UNCHANGED <<vars, input, solver, forged>>

(* The edge's 403, repeated, and at last handed back as a response.         *)
Blocked ==
  /\ Posting
  /\ \/ Repeat
     \/ errAttempt = MaxRetries /\ Answered("403") /\ UNCHANGED errAttempt
     \/ Fail
  /\ UNCHANGED <<vars, input, solver, brain>>

Aborted ==
  /\ stage = "post"
  /\ cancelled
  /\ Fail
  /\ UNCHANGED <<vars, input, solver, brain>>

CancelRegister == Cancel /\ UNCHANGED registerVars

RegisterStep ==
  Validate \/ FetchCaptcha \/ Solved \/ BrainAnswers \/ AnswerLost \/ Blocked \/ Aborted

RegisterNext == RegisterStep \/ Search \/ WatchSearch \/ CancelRegister

RegisterSpec == RegisterInit /\ [][RegisterNext]_registration

FairRegisterSpec ==
  /\ RegisterSpec
  /\ WF_registration(RegisterStep)
  /\ \A w \in Workers : WF_registration(stage = "solve" /\ Work(w) /\ UNCHANGED registerVars)
  /\ WF_registration(stage = "solve" /\ Collect /\ UNCHANGED registerVars)
  /\ WF_registration(WatchSearch)

-----------------------------------------------------------------------------
(* Properties                                                               *)

RegisterTypeOK ==
  /\ TypeOK
  /\ stage \in {"validate", "fetch", "solve", "post", "over"}
  /\ input \in [complete : BOOLEAN, captcha : BOOLEAN]
  /\ {solver, account, spent, lost, forged} \subseteq BOOLEAN
  /\ errAttempt \in 0 .. MaxRetries
  /\ reply \in {"none", "user", "nil_user", "error"}

(* Register without an error means an account, also when the edge blocks    *)
(* in BRAIN's place (a 200 or 201 is taken to be BRAIN's own); and no       *)
(* solution the SDK found is ever one that BRAIN must refuse: neither a     *)
(* race of the workers nor a search that was cancelled lets a number        *)
(* through that does not solve the challenge.                               *)
RegisteredIsTrue ==
  /\ reply \in {"user", "nil_user"} => account
  /\ ~forged

(* An error of Register leaves an account behind only when the answer to    *)
(* the POST that made it was lost.                                          *)
ErrorMeansLost == reply = "error" /\ account => lost

(* Register returns, and so does the watcher of a search it started.        *)
RegisterReturns == <>(stage = "over" /\ (Searched => watcher = "done"))

=============================================================================
