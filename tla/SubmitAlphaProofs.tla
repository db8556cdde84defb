------------------------- MODULE SubmitAlphaProofs -------------------------
(***************************************************************************)
(* What a submission reports is true, for any number of retries and polls, *)
(* whatever is lost, repeated or answered in BRAIN's place.                *)
(***************************************************************************)
EXTENDS SubmitTool, TLAPS

Answers == [status : {"none", "2xx", "3xx", "403", "503"},
            body : {"empty", "garbage", "no_is", "is"},
            failing : BOOLEAN,
            corr : {"absent", "PASS", "FAIL", "PENDING", "ERROR"}]

Alphas == {"unsubmitted", "queued", "live", "corr_fail", "check_fail"}
Received == {"queued", "live", "corr_fail"}

(* The response r tells nothing that is not so of an alpha in state a:      *)
(* checks that are decided were decided so.                                 *)
Truthful(r, a) ==
  r.body = "is" =>
    /\ r.failing => a = "check_fail"
    /\ ~r.failing /\ r.corr = "PASS" => a = "live" /\ r.status = "2xx"
    /\ ~r.failing /\ r.corr = "FAIL" => a = "corr_fail"

(* What one answer of BRAIN's own settles, whatever the edge says later: it *)
(* comes after the POST, and for an alpha that is not past the gates it is  *)
(* the last one, a verdict.                                                 *)
Informed ==
  heard =>
    /\ pc # "post"
    /\ \/ alpha \in Received
       \/ pc \in {"posted", "got", "returned"} /\ ParseSubmitVerdict(answer) # "nil"

(* The verdict was parsed from the last response, or says that there is     *)
(* none: an error, or the polls are spent.                                  *)
Founded ==
  /\ pc # "returned" => verdict = "none"
  /\ pc = "returned" =>
       \/ verdict = "error"
       \/ verdict = ParseSubmitVerdict(answer)
       \/ /\ verdict = "pending_corr"
          /\ ParseSubmitVerdict(answer) = "nil"
          /\ polls = MaxLongPolls

(* The loop goes on only below the cap, and each POST but the first takes   *)
(* one of the retries.                                                      *)
Bounded ==
  /\ pc \in {"sleep", "get", "got"} => polls < MaxLongPolls
  /\ pc = "post" => posted <= errAttempt

SubmitInv == TypeOK /\ Founded /\ Bounded /\ Truthful(answer, alpha) /\ Informed

-----------------------------------------------------------------------------
(* The responses and what they are parsed to                                *)

(* BRAIN's honest answers to a submitted alpha are truthful, and for one    *)
(* that is not past the gates they are a verdict.                           *)
LEMMA HonestIsTruthful ==
  ASSUME NEW a \in Alphas \ {"unsubmitted"}, NEW r \in Honest(a)
  PROVE  /\ r \in Answers
         /\ Truthful(r, a)
         /\ a \in Received \/ ParseSubmitVerdict(r) # "nil"
<1>1. CASE a = "queued"
  <2>1. r \in StillPending
    BY <1>1 DEF Honest
  <2>2. CASE \E b \in {"empty", "garbage", "no_is"} : r = Bare("503", b)
    <3>1. PICK b \in {"empty", "garbage", "no_is"} : r = Response("503", b, FALSE, "absent")
      BY <2>2 DEF Bare
    <3>2. r \in Answers /\ r.body # "is"
      BY <3>1 DEF Response, Answers
    <3> QED
      BY <1>1, <3>2 DEF Truthful, Received
  <2>3. CASE r = Bare("3xx", "empty") \/ r = Bare("2xx", "empty")
    <3>1. PICK s \in {"3xx", "2xx"} : r = Response(s, "empty", FALSE, "absent")
      BY <2>3 DEF Bare
    <3>2. r \in Answers /\ r.body = "empty"
      BY <3>1 DEF Response, Answers
    <3> QED
      BY <1>1, <3>2 DEF Truthful, Received
  <2>4. CASE \E k \in {"absent", "PENDING", "ERROR"} : r = Checked("2xx", FALSE, k)
    <3>1. PICK k \in {"absent", "PENDING", "ERROR"} : r = Response("2xx", "is", FALSE, k)
      BY <2>4 DEF Checked
    <3>2. r \in Answers /\ r.failing = FALSE /\ r.corr \notin {"PASS", "FAIL"}
      BY <3>1 DEF Response, Answers
    <3> QED
      BY <1>1, <3>2 DEF Truthful, Received
  <2> QED
    BY <2>1, <2>2, <2>3, <2>4 DEF StillPending
<1>2. CASE a = "live"
  <2>1. r = Response("2xx", "is", FALSE, "PASS")
    BY <1>2 DEF Honest, Checked
  <2>2. r \in Answers /\ r.failing = FALSE /\ r.corr = "PASS" /\ r.status = "2xx"
    BY <2>1 DEF Response, Answers
  <2> QED
    BY <1>2, <2>2 DEF Truthful, Received
<1>3. CASE a = "corr_fail"
  <2>1. r = Response("403", "is", FALSE, "FAIL")
    BY <1>3 DEF Honest, Checked
  <2>2. r \in Answers /\ r.failing = FALSE /\ r.corr = "FAIL"
    BY <2>1 DEF Response, Answers
  <2> QED
    BY <1>3, <2>2 DEF Truthful, Received
<1>4. CASE a = "check_fail"
  <2>1. PICK k \in {"absent", "FAIL", "PENDING"} : r = Response("403", "is", TRUE, k)
    BY <1>4 DEF Honest, Checked
  <2>2. r \in Answers /\ r.failing = TRUE /\ r.status = "403" /\ r.body = "is"
    BY <2>1 DEF Response, Answers
  <2>3. ParseSubmitVerdict(r) # "nil"
    BY <2>2 DEF ParseSubmitVerdict, KeepPolling, CheckFails
  <2> QED
    BY <1>4, <2>2, <2>3 DEF Truthful
<1> QED
  BY <1>1, <1>2, <1>3, <1>4 DEF Alphas

(* A response that need not be BRAIN's has no checks.                       *)
LEMMA ForeignIsTruthful ==
  ASSUME NEW a, NEW r \in Foreign \cup Opaque
  PROVE  r \in Answers /\ Truthful(r, a)
<1>1. PICK k \in {"2xx", "3xx", "403", "503"}, b \in {"empty", "garbage", "no_is"} :
        r = Response(k, b, FALSE, "absent")
  <2>1. CASE r \in Foreign
    <3>1. PICK k \in {"2xx", "3xx", "503"}, b \in {"empty", "garbage", "no_is"} : r = Bare(k, b)
      BY <2>1, SMT DEF Foreign
    <3> QED
      BY <3>1 DEF Bare
  <2>2. CASE r \in Opaque
    BY <2>2, Zenon DEF Opaque, Bare
  <2> QED
    BY <2>1, <2>2
<1>2. r \in Answers /\ r.body # "is"
  BY <1>1 DEF Response, Answers
<1> QED
  BY <1>2 DEF Truthful

(* What a response can be parsed to.                                        *)
LEMMA ParsedVerdicts ==
  ASSUME NEW r \in Answers
  PROVE  ParseSubmitVerdict(r) \in {"nil", "verified", "corr_rejected", "submit_failed"}
BY DEF ParseSubmitVerdict, KeepPolling, CheckFails, Unscreened, Answers

(* What the checks must say for each verdict.                               *)
LEMMA ParsedChecks ==
  ASSUME NEW r \in Answers, r.body = "is"
  PROVE  /\ ParseSubmitVerdict(r) = "verified" => ~r.failing /\ r.corr = "PASS"
         /\ ParseSubmitVerdict(r) = "corr_rejected" => ~r.failing /\ r.corr = "FAIL"
         /\ ParseSubmitVerdict(r) = "submit_failed"
              => r.failing \/ (r.corr = "PASS" /\ r.status # "2xx")
BY DEF ParseSubmitVerdict, KeepPolling, CheckFails, Unscreened, Answers

-----------------------------------------------------------------------------
(* The invariant                                                            *)

(* Nothing is known before the first request.                               *)
LEMMA InitInv == Init => SubmitInv
<1> SUFFICES ASSUME Init PROVE SubmitInv
  OBVIOUS
<1>1. answer = Response("none", "empty", FALSE, "absent")
  BY DEF Init, Bare
<1>2. answer \in Answers /\ answer.body = "empty" /\ answer.status = "none"
  BY <1>1 DEF Response, Answers
<1>3. TypeOK
  <2>1. /\ alpha = "unsubmitted" /\ pc = "post" /\ verdict = "none"
        /\ errAttempt = 0 /\ polls = 0 /\ posted = 0 /\ cancelled = FALSE /\ heard = FALSE
    BY DEF Init
  <2>2. errAttempt \in 0 .. MaxRetries /\ polls \in 0 .. MaxLongPolls /\ posted \in 0 .. 1 + MaxRetries
    BY <2>1, SubmitAssumption
  <2>3. alpha \in Alphas /\ cancelled \in BOOLEAN /\ heard \in BOOLEAN
    BY <2>1 DEF Alphas
  <2>4. pc \in {"post", "posted", "sleep", "get", "got", "returned"}
    BY <2>1
  <2>5. verdict \in {"none", "error", "verified", "corr_rejected", "submit_failed", "pending_corr"}
    BY <2>1
  <2> QED
    BY <1>2, <2>2, <2>3, <2>4, <2>5 DEF TypeOK, Answers, Alphas
<1>4. Founded /\ Bounded
  BY DEF Init, Founded, Bounded
<1>5. Truthful(answer, alpha)
  BY <1>2 DEF Truthful
<1>6. Informed
  BY DEF Init, Informed
<1> QED
  BY <1>3, <1>4, <1>5, <1>6 DEF SubmitInv

(* A response that is handed back is the only thing known of the alpha; the *)
(* loop's bounds are kept.                                                  *)
LEMMA DeliverKeeps ==
  ASSUME SubmitInv, Sending, alpha' \in Alphas, posted' \in 0 .. 1 + MaxRetries,
         NEW r \in Answers, Deliver(r), Truthful(r, alpha'), heard' \in BOOLEAN, Informed'
  PROVE  SubmitInv'
<1> USE SubmitAssumption DEF SubmitInv
<1>1. TypeOK'
  BY DEF TypeOK, Deliver, Alphas, Answers
<1>2. Founded'
  BY DEF Founded, Sending, Deliver
<1>3. Bounded'
  BY DEF Bounded, Sending, Deliver
<1>4. Truthful(answer, alpha)'
  <2>1. answer' = r
    BY DEF Deliver
  <2> QED
    BY <2>1 DEF Truthful
<1> QED
  BY <1>1, <1>2, <1>3, <1>4

(* A POST that is carried out is one of those the retries allow, and takes  *)
(* the alpha past the gates or to a failed check.                           *)
LEMMA CarryOutKeeps ==
  ASSUME SubmitInv, Sending, CarryOut
  PROVE  /\ alpha' \in Alphas
         /\ posted' \in 0 .. 1 + MaxRetries
         /\ pc = "post" => posted' <= errAttempt + 1
         /\ alpha # "unsubmitted" => alpha' = alpha
         /\ pc # "post" => alpha' = alpha
<1> USE SubmitAssumption DEF SubmitInv, TypeOK, Bounded
<1>1. alpha' \in Alphas /\ (alpha # "unsubmitted" \/ pc # "post" => alpha' = alpha)
  BY DEF CarryOut, Alphas
<1>2. posted' \in 0 .. 1 + MaxRetries /\ (pc = "post" => posted' <= errAttempt + 1)
  BY DEF CarryOut
<1> QED
  BY <1>1, <1>2

(* What was truthful stays so while the alpha goes from nowhere to BRAIN.   *)
LEMMA TruthStays ==
  ASSUME SubmitInv, answer' = answer, alpha # "unsubmitted" => alpha' = alpha
  PROVE  Truthful(answer, alpha)'
<1>1. CASE alpha' = alpha
  BY <1>1 DEF SubmitInv, Truthful
<1>2. CASE alpha = "unsubmitted"
  BY <1>2 DEF SubmitInv, TypeOK, Truthful
<1> QED
  BY <1>1, <1>2

(* After an answer of BRAIN's own no request is sent but polls for an alpha *)
(* past the gates, and what the edge says to them changes nothing.          *)
LEMMA InformedStays ==
  ASSUME SubmitInv, Sending, heard' = heard,
         CarryOut \/ UNCHANGED <<alpha, posted>>,
         Repeat \/ Fail \/ \E r : Deliver(r)
  PROVE  Informed'
<1> SUFFICES ASSUME heard PROVE pc' # "post" /\ alpha' \in Received
  BY DEF Informed, Received
<1>1. pc = "get" /\ alpha \in Received
  BY DEF SubmitInv, Informed, Sending
<1>2. alpha' = alpha
  BY <1>1 DEF CarryOut
<1>3. pc' # "post"
  BY <1>1 DEF Repeat, Fail, Return, Deliver
<1> QED
  BY <1>1, <1>2, <1>3

(* A repetition takes one of the retries, an error is the end.              *)
LEMMA RepeatOrFailKeeps ==
  ASSUME SubmitInv, Sending, CarryOut \/ UNCHANGED <<alpha, posted>>, Repeat \/ Fail,
         heard' = heard
  PROVE  SubmitInv'
<1>1. /\ alpha' \in Alphas
      /\ posted' \in 0 .. 1 + MaxRetries
      /\ pc = "post" => posted' <= errAttempt + 1
      /\ alpha # "unsubmitted" => alpha' = alpha
  <2>1. CASE CarryOut
    BY <2>1, CarryOutKeeps
  <2>2. CASE UNCHANGED <<alpha, posted>>
    BY <2>2 DEF SubmitInv, TypeOK, Bounded, Alphas
  <2> QED
    BY <2>1, <2>2
<1>2. answer' = answer /\ polls' = polls /\ cancelled' = cancelled
  BY DEF Repeat, Fail
<1>3. Truthful(answer, alpha)'
  BY <1>1, <1>2, TruthStays
<1>6. Informed'
  BY InformedStays
<1>4. CASE Repeat
  <2>1. TypeOK'
    BY <1>1, <1>4, SubmitAssumption DEF SubmitInv, TypeOK, Repeat, Alphas
  <2>2. Founded'
    BY <1>4 DEF SubmitInv, Founded, Sending, Repeat
  <2>3. Bounded'
    BY <1>1, <1>4 DEF SubmitInv, Bounded, Repeat
  <2> QED
    BY <1>3, <1>6, <2>1, <2>2, <2>3 DEF SubmitInv
<1>5. CASE Fail
  <2>1. TypeOK'
    BY <1>1, <1>5 DEF SubmitInv, TypeOK, Fail, Return, Alphas
  <2>2. Founded' /\ Bounded'
    BY <1>5 DEF Founded, Bounded, Fail, Return
  <2> QED
    BY <1>3, <1>6, <2>1, <2>2 DEF SubmitInv
<1> QED
  BY <1>4, <1>5

(* The verdict is what the response is parsed to; without one the loop goes *)
(* on below the cap, or says pending_corr at it.                            *)
LEMMA ParseKeeps ==
  ASSUME SubmitInv, Parse
  PROVE  SubmitInv'
<1>1. answer \in Answers
  BY DEF SubmitInv, TypeOK, Answers
<1>2. ParseSubmitVerdict(answer) \in {"nil", "verified", "corr_rejected", "submit_failed"}
  BY <1>1, ParsedVerdicts
<1>3. ParseSubmitVerdict(answer)' = ParseSubmitVerdict(answer)
  BY DEF Parse, ParseSubmitVerdict, KeepPolling, CheckFails, Unscreened
<1>4. polls' \in 0 .. MaxLongPolls
  BY SubmitAssumption DEF Parse, Polled, SubmitInv, TypeOK, Bounded
<1>5. TypeOK'
  BY <1>2, <1>4 DEF SubmitInv, TypeOK, Parse, Return
<1>6. Founded'
  <2>1. CASE ParseSubmitVerdict(answer) # "nil"
    BY <1>3, <2>1 DEF Parse, Return, Founded
  <2>2. CASE ParseSubmitVerdict(answer) = "nil" /\ MorePolls(polls')
    BY <2>2 DEF SubmitInv, Parse, Founded
  <2>3. CASE ParseSubmitVerdict(answer) = "nil" /\ ~MorePolls(polls')
    <3>1. polls' = MaxLongPolls
      BY <1>4, <2>3, SubmitAssumption DEF MorePolls
    <3> QED
      BY <1>3, <2>3, <3>1 DEF Parse, Return, Founded
  <2> QED
    BY <2>1, <2>2, <2>3
<1>7. Bounded'
  BY DEF Parse, Return, Bounded, MorePolls
<1>8. Truthful(answer, alpha)'
  BY TruthStays DEF Parse
<1>9. Informed'
  <2>1. heard' = heard /\ alpha' = alpha /\ pc' \in {"sleep", "returned"}
    BY DEF Parse, Return
  <2>2. pc' = "sleep" => ParseSubmitVerdict(answer) = "nil"
    BY DEF Parse, Return
  <2> QED
    BY <1>3, <2>1, <2>2 DEF SubmitInv, Informed, Received
<1> QED
  BY <1>5, <1>6, <1>7, <1>8, <1>9 DEF SubmitInv

(* Every step keeps the invariant.                                          *)
LEMMA StepInv == SubmitInv /\ [Next]_vars => SubmitInv'
<1> SUFFICES ASSUME SubmitInv, [Next]_vars PROVE SubmitInv'
  OBVIOUS
<1>1. CASE BrainAnswers
  <2>1. /\ alpha' \in Alphas
        /\ posted' \in 0 .. 1 + MaxRetries
    BY <1>1, CarryOutKeeps DEF BrainAnswers
  <2>2. PICK r \in Honest(alpha') : Deliver(r)
    BY <1>1 DEF BrainAnswers
  <2>3. /\ r \in Answers /\ Truthful(r, alpha')
        /\ alpha' \in Received \/ ParseSubmitVerdict(r) # "nil"
    BY <1>1, <2>1, HonestIsTruthful DEF BrainAnswers
  <2>4. Informed'
    <3>1. pc' \in {"posted", "got"} /\ answer' = r
      BY <2>2 DEF Deliver
    <3>2. ParseSubmitVerdict(r) # "nil" => ParseSubmitVerdict(answer)' # "nil"
      BY <3>1 DEF ParseSubmitVerdict, KeepPolling, CheckFails, Unscreened
    <3> QED
      BY <2>3, <3>1, <3>2 DEF Informed, Received
  <2> QED
    BY <1>1, <2>1, <2>2, <2>3, <2>4, DeliverKeeps DEF BrainAnswers
<1>2. CASE OtherAnswers
  <2>1. PICK r \in Foreign : Deliver(r)
    BY <1>2 DEF OtherAnswers
  <2>2. r \in Answers /\ Truthful(r, alpha')
    BY ForeignIsTruthful
  <2>3. alpha' \in Alphas /\ posted' \in 0 .. 1 + MaxRetries
    <3>1. CASE CarryOut
      BY <1>2, <3>1, CarryOutKeeps DEF OtherAnswers
    <3>2. CASE UNCHANGED <<alpha, posted>>
      BY <3>2 DEF SubmitInv, TypeOK, Alphas
    <3> QED
      BY <1>2, <3>1, <3>2 DEF OtherAnswers
  <2>4. heard' \in BOOLEAN /\ Informed'
    BY <1>2, <2>1, InformedStays DEF OtherAnswers, SubmitInv, TypeOK
  <2> QED
    BY <1>2, <2>1, <2>2, <2>3, <2>4, DeliverKeeps DEF OtherAnswers
<1>3. CASE AnswerLost
  BY <1>3, RepeatOrFailKeeps DEF AnswerLost
<1>4. CASE Blocked
  <2>1. CASE Repeat \/ Fail
    BY <1>4, <2>1, RepeatOrFailKeeps DEF Blocked
  <2>2. CASE \E r \in Opaque : Deliver(r)
    <3>1. PICK r \in Opaque : Deliver(r)
      BY <2>2
    <3>2. r \in Answers /\ Truthful(r, alpha')
      BY ForeignIsTruthful
    <3>3. alpha' \in Alphas /\ posted' \in 0 .. 1 + MaxRetries
      BY <1>4 DEF Blocked, SubmitInv, TypeOK, Alphas
    <3>4. heard' \in BOOLEAN /\ Informed'
      BY <1>4, <3>1, InformedStays DEF Blocked, SubmitInv, TypeOK
    <3> QED
      BY <1>4, <3>1, <3>2, <3>3, <3>4, DeliverKeeps DEF Blocked
  <2> QED
    BY <1>4, <2>1, <2>2 DEF Blocked
<1>5. CASE Aborted
  <2>1. TypeOK'
    BY <1>5 DEF Aborted, Fail, Return, SubmitInv, TypeOK
  <2>2. Founded' /\ Bounded'
    BY <1>5 DEF Aborted, Fail, Return, Founded, Bounded
  <2>3. Truthful(answer, alpha)'
    BY <1>5, TruthStays DEF Aborted, Fail
  <2>4. ParseSubmitVerdict(answer)' = ParseSubmitVerdict(answer)
    BY <1>5 DEF Aborted, Fail, ParseSubmitVerdict, KeepPolling, CheckFails, Unscreened
  <2>5. Informed'
    BY <1>5, <2>4 DEF Aborted, Fail, Return, SubmitInv, Informed, Received
  <2> QED
    BY <2>1, <2>2, <2>3, <2>5 DEF SubmitInv
<1>6. CASE Parse
  BY <1>6, ParseKeeps
<1>7. CASE Wake
  <2>1. TypeOK' /\ Founded' /\ Bounded'
    BY <1>7 DEF Wake, SubmitInv, TypeOK, Founded, Bounded, ParseSubmitVerdict,
                KeepPolling, CheckFails, Unscreened
  <2>2. Truthful(answer, alpha)'
    BY <1>7, TruthStays DEF Wake
  <2>3. Informed'
    BY <1>7 DEF Wake, SubmitInv, Informed, Received
  <2> QED
    BY <2>1, <2>2, <2>3 DEF SubmitInv
<1>8. CASE Screen
  <2>1. ParseSubmitVerdict(answer)' = ParseSubmitVerdict(answer)
    BY <1>8 DEF Screen, ParseSubmitVerdict, KeepPolling, CheckFails, Unscreened
  <2>2. TypeOK'
    BY <1>8 DEF Screen, SubmitInv, TypeOK
  <2>3. Founded' /\ Bounded'
    BY <1>8, <2>1 DEF Screen, SubmitInv, Founded, Bounded
  <2>4. Truthful(answer, alpha)'
    BY <1>8 DEF Screen, SubmitInv, Truthful
  <2>5. Informed'
    BY <1>8, <2>1 DEF Screen, SubmitInv, Informed, Received
  <2> QED
    BY <2>2, <2>3, <2>4, <2>5 DEF SubmitInv
<1>9. CASE Cancel \/ UNCHANGED vars
  <2>1. ParseSubmitVerdict(answer)' = ParseSubmitVerdict(answer)
    BY <1>9 DEF Cancel, vars, ParseSubmitVerdict, KeepPolling, CheckFails, Unscreened
  <2>2. TypeOK'
    BY <1>9, ZenonT(40) DEF Cancel, vars, SubmitInv, TypeOK
  <2>3. Founded' /\ Bounded'
    BY <1>9, <2>1 DEF Cancel, vars, SubmitInv, Founded, Bounded
  <2>4. Truthful(answer, alpha)'
    BY <1>9, TruthStays DEF Cancel, vars
  <2>5. Informed'
    BY <1>9, <2>1 DEF Cancel, vars, SubmitInv, Informed, Received
  <2> QED
    BY <2>2, <2>3, <2>4, <2>5 DEF SubmitInv
<1> QED
  BY <1>1, <1>2, <1>3, <1>4, <1>5, <1>6, <1>7, <1>8, <1>9 DEF Next, Step

(* The inductive invariant of a submission.                                 *)
THEOREM SubmitInvariant == Spec => []SubmitInv
BY InitInv, StepInv, PTL DEF Spec

-----------------------------------------------------------------------------
(* The properties                                                           *)

(* The counters of the loop and of Client.do stay within their bounds.      *)
THEOREM TypesHold == Spec => []TypeOK
<1>1. SubmitInv => TypeOK
  BY DEF SubmitInv
<1> QED
  BY <1>1, SubmitInvariant, PTL

(* A verdict taken from checks is the truth about the alpha, for any number *)
(* of polls and retries.                                                    *)
THEOREM VerdictsAreTrue == Spec => []VerdictIsTrue
<1>1. SubmitInv => VerdictIsTrue
  <2> SUFFICES ASSUME SubmitInv, answer.body = "is",
                      verdict \in {"verified", "corr_rejected", "submit_failed"}
               PROVE  /\ verdict = "verified" => alpha = "live"
                      /\ verdict = "corr_rejected" => alpha = "corr_fail"
                      /\ verdict = "submit_failed" => alpha = "check_fail"
    BY DEF VerdictIsTrue
  <2>1. verdict = ParseSubmitVerdict(answer)
    BY DEF SubmitInv, Founded
  <2>2. answer \in Answers
    BY DEF SubmitInv, TypeOK, Answers
  <2> QED
    BY <2>1, <2>2, ParsedChecks DEF SubmitInv, Truthful
<1> QED
  BY <1>1, SubmitInvariant, PTL

(* pending_corr needs all polls, and among as many answers as there are it *)
(* is wrong only if BRAIN gave none of them, for any number of polls.       *)
THEOREM PendingMeansTold == Spec => []PendingIsTold
<1>1. SubmitInv => PendingIsTold
  <2> SUFFICES ASSUME SubmitInv, verdict = "pending_corr"
               PROVE  polls = MaxLongPolls /\ (heard => alpha \in Received)
    BY DEF PendingIsTold, Received
  <2>1. answer \in Answers
    BY DEF SubmitInv, TypeOK, Answers
  <2>2. ParseSubmitVerdict(answer) # "pending_corr"
    BY <2>1, ParsedVerdicts
  <2>3. ParseSubmitVerdict(answer) = "nil" /\ polls = MaxLongPolls
    BY <2>2 DEF SubmitInv, Founded
  <2> QED
    BY <2>3 DEF SubmitInv, Informed
<1> QED
  BY <1>1, SubmitInvariant, PTL

-----------------------------------------------------------------------------
(* The tool around the submission                                           *)

(* Nothing is sent before the gate has let the call through: with confirm,  *)
(* and not with a maximum BRAIN itself gave for a high book.                *)
GateInv ==
  /\ stage \in {"read", "gate"} => pc = "post" /\ posted = 0
  /\ stage = "gate" => (corrMax = "high" <=> own /\ readBook = "high")
  /\ stage = "submit" => confirm /\ (readBook = "high" => ~own)
  /\ GateSavesSlots

ToolInv == ToolTypeOK /\ GateInv

(* A step of the tool is a step of the submission, or none.                 *)
LEMMA ToolStepsSubmit == [ToolNext]_tool => [Next]_vars
BY DEF ToolNext, ToolStep, tool, ReadCorrelation, ReadFails, Gate, Submit, ToolReturn, BookGrows,
       ScreenBook, CancelTool, Next

(* Only steps of the submit stage send a POST.                              *)
LEMMA ToolGateStep ==
  ASSUME ToolInv, [ToolNext]_tool
  PROVE  GateInv'
<1> USE DEF ToolInv, GateInv, GateSavesSlots, toolVars
<1>1. CASE ReadCorrelation
  BY <1>1 DEF ReadCorrelation, BlockMax, vars, ToolTypeOK, Books
<1>2. CASE ReadFails
  BY <1>2 DEF ReadFails, Reply, vars
<1>3. CASE Gate
  BY <1>3 DEF Gate, Reply, TooHigh, vars
<1>4. CASE Submit
  BY <1>4 DEF Submit
<1>5. CASE ToolReturn
  BY <1>5 DEF ToolReturn, Reply, vars
<1>6. CASE BookGrows
  BY <1>6 DEF BookGrows, vars
<1>7. CASE ScreenBook \/ CancelTool
  BY <1>7 DEF ScreenBook, CancelTool, Screen, Cancel
<1>8. CASE UNCHANGED tool
  BY <1>8 DEF tool, vars
<1> QED
  BY <1>1, <1>2, <1>3, <1>4, <1>5, <1>6, <1>7, <1>8 DEF ToolNext, ToolStep

(* The tool's own variables keep their types.                               *)
LEMMA ToolTypesStep ==
  ASSUME ToolTypeOK, TypeOK', [ToolNext]_tool
  PROVE  ToolTypeOK'
<1> USE DEF ToolTypeOK, toolVars
<1>1. CASE ReadCorrelation
  BY <1>1 DEF ReadCorrelation, BlockMax, Books
<1>2. CASE ReadFails
  BY <1>2 DEF ReadFails, Reply
<1>3. CASE Gate
  BY <1>3 DEF Gate, Reply
<1>4. CASE Submit
  BY <1>4 DEF Submit
<1>5. CASE ToolReturn
  BY <1>5 DEF ToolReturn, Reply
<1>6. CASE BookGrows
  BY <1>6 DEF BookGrows, Books
<1>7. CASE ScreenBook \/ CancelTool
  BY <1>7 DEF ScreenBook, CancelTool
<1>8. CASE UNCHANGED tool
  BY <1>8 DEF tool
<1> QED
  BY <1>1, <1>2, <1>3, <1>4, <1>5, <1>6, <1>7, <1>8 DEF ToolNext, ToolStep

(* The tool implements SubmitAlpha: whatever is proved of a submission      *)
(* holds of one that the tool makes.                                        *)
THEOREM ToolRunsSubmit == ToolSpec => Spec
<1>1. ToolInit => Init
  BY DEF ToolInit
<1> QED
  BY <1>1, ToolStepsSubmit, PTL DEF ToolSpec, Spec

(* So its verdicts are true, and its types those of SubmitAlpha.            *)
THEOREM ToolVerdictsAreTrue == ToolSpec => [](TypeOK /\ VerdictIsTrue /\ PendingIsTold)
BY ToolRunsSubmit, TypesHold, VerdictsAreTrue, PendingMeansTold, PTL

(* Types and gate are inductive together.                                   *)
THEOREM ToolInvariant == ToolSpec => []ToolInv
<1>1. ToolInit => ToolInv
  <2> SUFFICES ASSUME ToolInit PROVE ToolInv
    OBVIOUS
  <2>1. TypeOK
    BY InitInv DEF ToolInit, SubmitInv
  <2> QED
    BY <2>1 DEF ToolInit, Init, ToolInv, ToolTypeOK, GateInv, GateSavesSlots, Books
<1>2. ToolInv /\ TypeOK' /\ [ToolNext]_tool => ToolInv'
  BY ToolGateStep, ToolTypesStep DEF ToolInv
<1>3. ToolSpec => []TypeOK
  BY ToolRunsSubmit, TypesHold, PTL
<1> QED
  BY <1>1, <1>2, <1>3, PTL DEF ToolSpec

(* The types of the tool around the call.                                   *)
THEOREM ToolTypesHold == ToolSpec => []ToolTypeOK
<1>1. ToolInv => ToolTypeOK
  BY DEF ToolInv
<1> QED
  BY <1>1, ToolInvariant, PTL

(* No slot without confirm, nor on an alpha that the gate was told is too   *)
(* correlated, for any number of polls and retries.                         *)
THEOREM GateHolds == ToolSpec => []GateSavesSlots
<1>1. ToolInv => GateSavesSlots
  BY DEF ToolInv, GateInv
<1> QED
  BY <1>1, ToolInvariant, PTL

-----------------------------------------------------------------------------
(* The submission and the tool run out of steps                             *)

(* One poll: the sleep, the GET with its repetitions, the parsing.          *)
PollCost == MaxRetries + 3

(* What a submission has ahead of it before the next poll, or the end.      *)
BeforePoll ==
  CASE pc = "post" -> 2 * MaxRetries + 5 - errAttempt
    [] pc = "posted" -> MaxRetries + 4
    [] pc = "sleep" -> MaxRetries + 3
    [] pc = "get" -> MaxRetries + 2 - errAttempt
    [] pc = "got" -> 1
    [] pc = "returned" -> 0

(* The measure of a submission: the polls it has left, and those steps.     *)
SubmitFuel ==
  IF pc = "returned" THEN 0 ELSE (MaxLongPolls - polls) * PollCost + BeforePoll

MostSubmitSteps == MaxLongPolls * PollCost + 2 * MaxRetries + 5

(* The polls left cost a number, and one poll less costs one PollCost less. *)
LEMMA PollsLeft ==
  /\ \A i \in 0 .. MaxLongPolls :
       /\ (MaxLongPolls - i) * PollCost \in Nat
       /\ (MaxLongPolls - i) * PollCost <= MaxLongPolls * PollCost
       /\ (MaxLongPolls - (i + 1)) * PollCost = (MaxLongPolls - i) * PollCost - PollCost
  /\ MaxLongPolls * PollCost \in Nat
<1>1. MaxLongPolls \in Nat /\ PollCost \in Nat
  BY SubmitAssumption DEF PollCost
<1>2. ASSUME NEW i \in 0 .. MaxLongPolls
      PROVE  /\ (MaxLongPolls - i) * PollCost \in Nat
             /\ (MaxLongPolls - i) * PollCost <= MaxLongPolls * PollCost
             /\ (MaxLongPolls - (i + 1)) * PollCost = (MaxLongPolls - i) * PollCost - PollCost
  <2>1. MaxLongPolls - i \in Nat /\ i \in Nat
    BY <1>1
  <2>2. (MaxLongPolls - i) * PollCost \in Nat /\ i * PollCost \in Nat
    BY <1>1, <2>1
  <2>3. (MaxLongPolls - i) * PollCost = MaxLongPolls * PollCost - i * PollCost
    BY <1>1, <2>1
  <2>4. (MaxLongPolls - (i + 1)) * PollCost = MaxLongPolls * PollCost - i * PollCost - PollCost
    BY <1>1, <2>1
  <2>5. MaxLongPolls * PollCost \in Nat
    BY <1>1
  <2> QED
    BY <1>1, <2>2, <2>3, <2>4, <2>5
<1> QED
  BY <1>1, <1>2

(* The measure is a number, and spent when SubmitAlpha has returned.        *)
LEMMA SubmitFuelType ==
  TypeOK => SubmitFuel \in 0 .. MostSubmitSteps /\ (SubmitFuel = 0 <=> pc = "returned")
<1> SUFFICES ASSUME TypeOK
             PROVE  SubmitFuel \in 0 .. MostSubmitSteps /\ (SubmitFuel = 0 <=> pc = "returned")
  OBVIOUS
<1>1. /\ (MaxLongPolls - polls) * PollCost \in Nat
      /\ (MaxLongPolls - polls) * PollCost <= MaxLongPolls * PollCost
      /\ MaxLongPolls * PollCost \in Nat
  BY PollsLeft DEF TypeOK
<1>2. /\ pc # "returned" => BeforePoll > 0
      /\ BeforePoll \in 0 .. 2 * MaxRetries + 5
  BY SubmitAssumption DEF BeforePoll, TypeOK
<1> QED
  BY <1>1, <1>2, SubmitAssumption DEF SubmitFuel, MostSubmitSteps

(* Every step of SubmitAlpha burns some of it: a repetition of a request, a *)
(* response, a poll.                                                        *)
LEMMA SubmitStepBurns ==
  ASSUME TypeOK, Step
  PROVE  SubmitFuel' < SubmitFuel
<1>0. /\ MaxRetries \in Nat /\ MaxLongPolls \in Nat
      /\ errAttempt \in 0 .. MaxRetries /\ polls \in 0 .. MaxLongPolls
      /\ PollCost = MaxRetries + 3
      /\ (MaxLongPolls - polls) * PollCost \in Nat
  BY SubmitAssumption, PollsLeft DEF TypeOK, PollCost
<1>1. ASSUME pc # "returned", pc' = "returned" PROVE SubmitFuel' < SubmitFuel
  <2>1. SubmitFuel' = 0 /\ SubmitFuel \in Nat /\ SubmitFuel # 0
    BY <1>1, SubmitFuelType, SubmitAssumption DEF SubmitFuel, MostSubmitSteps
  <2> QED
    BY <2>1
<1>2. ASSUME pc # "returned", pc' # "returned", polls' = polls, BeforePoll' < BeforePoll,
             BeforePoll \in Nat, BeforePoll' \in Nat
      PROVE  SubmitFuel' < SubmitFuel
  <2>1. /\ SubmitFuel = (MaxLongPolls - polls) * PollCost + BeforePoll
        /\ SubmitFuel' = (MaxLongPolls - polls) * PollCost + BeforePoll'
    BY <1>2 DEF SubmitFuel, PollCost
  <2>2. \A x, a, b \in Nat : a < b => x + a < x + b
    OBVIOUS
  <2>3. (MaxLongPolls - polls) * PollCost + BeforePoll' < (MaxLongPolls - polls) * PollCost + BeforePoll
    BY <1>0, <1>2, <2>2, Zenon
  <2> QED
    BY <2>1, <2>3, Zenon
<1>3. ASSUME NEW r, Deliver(r), Sending PROVE SubmitFuel' < SubmitFuel
  <2>1. /\ polls' = polls
        /\ \/ pc = "post" /\ pc' = "posted"
           \/ pc = "get" /\ pc' = "got"
    BY <1>3 DEF Deliver, Sending
  <2>2. BeforePoll' < BeforePoll /\ BeforePoll \in Nat /\ BeforePoll' \in Nat
    BY <1>0, <2>1 DEF BeforePoll
  <2> QED
    BY <1>2, <2>1, <2>2
<1>4. ASSUME Repeat, Sending PROVE SubmitFuel' < SubmitFuel
  <2>1. /\ polls' = polls /\ pc' = pc /\ pc \in {"post", "get"}
        /\ errAttempt' = errAttempt + 1 /\ errAttempt < MaxRetries
    BY <1>4 DEF Repeat, Sending
  <2>2. BeforePoll' < BeforePoll /\ BeforePoll \in Nat /\ BeforePoll' \in Nat
    BY <1>0, <2>1 DEF BeforePoll
  <2> QED
    BY <1>2, <2>1, <2>2
<1>5. ASSUME Fail, pc # "returned" PROVE SubmitFuel' < SubmitFuel
  BY <1>1, <1>5 DEF Fail, Return
<1>6. CASE BrainAnswers \/ OtherAnswers
  BY <1>3, <1>6 DEF BrainAnswers, OtherAnswers
<1>7. CASE AnswerLost \/ Blocked
  BY <1>3, <1>4, <1>5, <1>7 DEF AnswerLost, Blocked, Sending
<1>8. CASE Aborted
  BY <1>5, <1>8 DEF Aborted
<1>9. CASE Wake
  <2>1. polls' = polls /\ pc = "sleep" /\ pc' = "get" /\ errAttempt' = errAttempt
    BY <1>9 DEF Wake
  <2>2. BeforePoll' < BeforePoll /\ BeforePoll \in Nat /\ BeforePoll' \in Nat
    BY <1>0, <2>1 DEF BeforePoll
  <2> QED
    BY <1>2, <2>1, <2>2
<1>10. CASE Parse
  <2>1. CASE pc' = "returned"
    BY <1>1, <1>10, <2>1 DEF Parse
  <2>2. CASE pc' # "returned" /\ pc = "posted"
    <3>1. polls' = polls /\ pc' = "sleep" /\ errAttempt' = errAttempt
      BY <1>10, <2>2 DEF Parse, Return
    <3>2. BeforePoll' < BeforePoll /\ BeforePoll \in Nat /\ BeforePoll' \in Nat
      BY <1>0, <2>2, <3>1 DEF BeforePoll
    <3> QED
      BY <1>2, <2>2, <3>1, <3>2
  <2>3. CASE pc' # "returned" /\ pc = "got"
    <3>1. polls' = polls + 1 /\ pc' = "sleep"
      BY <1>10, <2>3 DEF Parse, Return, Polled
    <3>2. BeforePoll = 1 /\ BeforePoll' = PollCost
      BY <1>0, <2>3, <3>1 DEF BeforePoll
    <3>3. /\ SubmitFuel = (MaxLongPolls - polls) * PollCost + 1
          /\ SubmitFuel' = (MaxLongPolls - (polls + 1)) * PollCost + PollCost
      BY <2>3, <3>1, <3>2 DEF SubmitFuel, PollCost
    <3>4. (MaxLongPolls - (polls + 1)) * PollCost = (MaxLongPolls - polls) * PollCost - PollCost
      BY <1>0, PollsLeft
    <3> QED
      BY <1>0, <3>3, <3>4
  <2> QED
    BY <1>10, <2>1, <2>2, <2>3 DEF Parse
<1> QED
  BY <1>6, <1>7, <1>8, <1>9, <1>10 DEF Step

(* The tool: its stages, and the submission it ends in.                     *)
ToolFuel ==
  CASE stage = "read" -> SubmitFuel + 3
    [] stage = "gate" -> SubmitFuel + 2
    [] stage = "submit" -> SubmitFuel + 1
    [] stage = "over" -> 0

(* What a step may do to it: a step of the tool lowers it, and no other     *)
(* step, of BRAIN, the account or the caller, touches it.                   *)
ToolBurns ==
  IF ToolStep THEN ToolFuel' < ToolFuel ELSE ToolFuel' = ToolFuel

(* The tool answers after a bounded number of steps of its own, counted by  *)
(* the retries and the long polls: no sequence of answers, however the      *)
(* screening runs beside it, keeps a submission polling, and the measure    *)
(* is spent exactly when the tool has answered.                             *)
THEOREM ToolRunsOut ==
  ToolSpec => /\ [](ToolFuel \in 0 .. MostSubmitSteps + 3 /\ (ToolFuel = 0 <=> stage = "over"))
              /\ [][ToolBurns]_tool
<1>1. ToolInv => ToolFuel \in 0 .. MostSubmitSteps + 3 /\ (ToolFuel = 0 <=> stage = "over")
  <2> SUFFICES ASSUME ToolInv
               PROVE  ToolFuel \in 0 .. MostSubmitSteps + 3 /\ (ToolFuel = 0 <=> stage = "over")
    OBVIOUS
  <2>1. SubmitFuel \in 0 .. MostSubmitSteps
    BY SubmitFuelType DEF ToolInv, ToolTypeOK
  <2>2. MostSubmitSteps \in Nat
    BY PollsLeft, SubmitAssumption DEF MostSubmitSteps
  <2>3. stage \in {"read", "gate", "submit", "over"}
    BY DEF ToolInv, ToolTypeOK
  <2> QED
    BY <2>1, <2>2, <2>3 DEF ToolFuel
<1>2. ToolInv /\ ToolInv' /\ [ToolNext]_tool => [ToolBurns]_tool
  <2> SUFFICES ASSUME ToolInv, ToolInv', ToolNext PROVE ToolBurns
    OBVIOUS
  <2>0. SubmitFuel \in Nat /\ SubmitFuel' \in Nat
    <3>1. TypeOK /\ TypeOK' /\ MostSubmitSteps \in Nat
      BY PollsLeft, SubmitAssumption DEF ToolInv, ToolTypeOK, MostSubmitSteps
    <3>2. ASSUME NEW i \in Nat PROVE 0 .. i \subseteq Nat
      OBVIOUS
    <3>3. SubmitFuel \in 0 .. MostSubmitSteps
      BY <3>1, SubmitFuelType
    <3>4. (SubmitFuel \in 0 .. MostSubmitSteps)'
      BY <3>1, SubmitFuelType, PTL
    <3> QED
      BY <3>1, <3>3, <3>4 DEF MostSubmitSteps, PollCost
  <2>1. ASSUME stage' = "over", stage \in {"read", "gate", "submit"} PROVE ToolFuel' < ToolFuel
    BY <2>0, <2>1 DEF ToolFuel
  <2>2. ASSUME UNCHANGED <<pc, errAttempt, polls>> PROVE SubmitFuel' = SubmitFuel
    BY <2>2 DEF SubmitFuel, BeforePoll, PollCost
  <2>3. ASSUME ToolStep PROVE ToolFuel' < ToolFuel
    <3>1. CASE ReadCorrelation
      BY <2>0, <2>2, <3>1 DEF ReadCorrelation, vars, ToolFuel
    <3>2. CASE ReadFails \/ ToolReturn
      BY <2>1, <3>2 DEF ReadFails, ToolReturn, Reply
    <3>3. CASE Gate
      <4>1. CASE stage' = "over"
        BY <2>1, <3>3, <4>1 DEF Gate
      <4>2. CASE stage' = "submit"
        BY <2>0, <2>2, <3>3, <4>2 DEF Gate, vars, ToolFuel
      <4> QED
        BY <3>3, <4>1, <4>2 DEF Gate, Reply
    <3>4. CASE Submit
      <4>1. stage = "submit" /\ stage' = "submit" /\ SubmitFuel' < SubmitFuel
        BY <3>4, SubmitStepBurns DEF Submit, toolVars, ToolInv, ToolTypeOK
      <4> QED
        BY <2>0, <4>1 DEF ToolFuel
    <3> QED
      BY <2>3, <3>1, <3>2, <3>3, <3>4 DEF ToolStep
  <2>4. ASSUME ~ToolStep PROVE ToolFuel' = ToolFuel
    <3>1. UNCHANGED <<pc, errAttempt, polls, stage>>
      BY <2>4 DEF ToolNext, BookGrows, ScreenBook, CancelTool, Screen, Cancel, vars, toolVars
    <3> QED
      BY <2>2, <3>1 DEF ToolFuel
  <2> QED
    BY <2>3, <2>4 DEF ToolBurns
<1> QED
  BY <1>1, <1>2, ToolInvariant, PTL DEF ToolSpec

=============================================================================
