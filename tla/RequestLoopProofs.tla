------------------------- MODULE RequestLoopProofs -------------------------
(***************************************************************************)
(* Proofs about RequestLoop, for any set of calls and any options: the     *)
(* types and retry budgets, the bound on the requests a call sends, and    *)
(* the three facts about the ban.                                          *)
(***************************************************************************)
EXTENDS RequestLoop, TLAPS

-----------------------------------------------------------------------------
(* The inductive invariant                                                  *)

(* The units of its budgets the main loop of c has spent.                   *)
Spent(c) ==
  errAttempt[c]["main"] + longPollSeen[c] + (IF relogged[c] THEN 1 ELSE 0)

(* Loop f of c has not sent the request its next unit will pay for.         *)
Settled(c, f) ==
  frame[c] = f /\ pc[c] \in {"idle", "preflight", "refused", "loop", "sleep"}

(* Each request but the last is paid for by a unit of some budget; the      *)
(* nested Login starts once, from a call that has not re-logged in.         *)
Accounted(c) ==
  /\ pc[c] = "idle" => /\ frame[c] = "main"
                       /\ ~relogged[c]
                       /\ longPollSeen[c] = 0
  /\ pc[c] # "done" => longPollSeen[c] <= EffectiveMaxLongPolls(c)
  /\ frame[c] = "relogin" => ~relogged[c]
  /\ frame[c] = "main" /\ ~relogged[c] => sent[c]["relogin"] = 0
  /\ sent[c]["main"] <=
       Spent(c) + IF Settled(c, "main") \/ longPollSeen[c] > EffectiveMaxLongPolls(c)
                  THEN 0 ELSE 1
  /\ sent[c]["relogin"] <=
       errAttempt[c]["relogin"] + IF Settled(c, "relogin") THEN 0 ELSE 1

(* The streak counts opaque 403s only, and a call about to set the flag has *)
(* seen the threshold reached.                                              *)
BanInv ==
  /\ streak <= opaque
  /\ BanIsEarned
  /\ NoBanLost
  /\ ReasonFollowsBan
  /\ \A c \in Calls : pc[c] = "trip" => opaque >= BanThreshold
  /\ \A c \in Calls : pc[c] = "publish" => banned

LoopInv == TypeOK /\ (\A c \in Calls : Accounted(c)) /\ BanInv

-----------------------------------------------------------------------------

(* NewClient's defaulting leaves every option a natural number, and no      *)
(* option zero.                                                             *)
LEMMA OptionTypes ==
  /\ MaxRetries \in Nat
  /\ MaxLongPolls \in Nat
  /\ BanThreshold \in Nat
  /\ BanThreshold > 0
BY OptionsAssumption DEF MaxRetries, MaxLongPolls, BanThreshold, Defaulted

(* The long-poll cap of a call is a number, with a hint or without.         *)
LEMMA CapType == \A d \in Calls : EffectiveMaxLongPolls(d) \in Nat
BY OptionsAssumption, OptionTypes DEF EffectiveMaxLongPolls

(* What the operators that build an outcome return.                         *)
LEMMA OutcomeTypes ==
  /\ NoOutcome \in Outcomes
  /\ \A e \in Errors : Failure(e) \in Outcomes
  /\ \A s \in Statuses : Response(s) \in Outcomes
  /\ \A n \in Nat, r \in {"none", "body"} : BannedError(n, r) \in Outcomes
BY DEF NoOutcome, Failure, Response, BannedError, Outcomes, Errors, Statuses

(* Before any request every part holds.                                     *)
LEMMA LoopInit == Init => LoopInv
<1> SUFFICES ASSUME Init PROVE LoopInv
  OBVIOUS
<1>1. TypeOK
  <2>1. outcome \in [Calls -> Outcomes]
    BY OutcomeTypes DEF Init
  <2>2. errAttempt \in [Calls -> [Frames -> 0 .. MaxRetries]] /\ sent \in [Calls -> [Frames -> Nat]]
    <3>1. 0 \in 0 .. MaxRetries
      BY OptionTypes
    <3> QED
      BY <3>1 DEF Init
  <2>3. \A c \in Calls : longPollSeen[c] <= EffectiveMaxLongPolls(c) + 1
    BY CapType DEF Init
  <2> QED
    BY <2>1, <2>2, <2>3 DEF Init, TypeOK, Labels, Frames, AllKinds
<1>2. \A c \in Calls : Accounted(c)
  BY CapType DEF Init, Accounted, Spent, Settled, Frames
<1>3. BanInv
  BY OptionTypes DEF Init, BanInv, BanIsEarned, NoBanLost, ReasonFollowsBan
<1> QED
  BY <1>1, <1>2, <1>3 DEF LoopInv

-----------------------------------------------------------------------------
(* Types                                                                    *)

(* The control part of the types, which every action of a call rewrites.    *)
ControlOK ==
  /\ pc \in [Calls -> Labels]
  /\ frame \in [Calls -> Frames]
  /\ outcome \in [Calls -> Outcomes]

(* What the operators that move a call keep of the types.                   *)
LEMMA ControlSteps ==
  ASSUME TypeOK, NEW c \in Calls
  PROVE  /\ \A l \in Labels : GoTo(c, l) => ControlOK'
         /\ \A l \in Labels, out \in Outcomes : GoToWith(c, l, out) => ControlOK'
         /\ \A out \in Outcomes : Finish(c, out) => ControlOK'
         /\ \A s \in Statuses : Deliver(c, s) => ControlOK'
<1>1. \A l \in Labels : GoTo(c, l) => ControlOK'
  BY DEF TypeOK, ControlOK, GoTo
<1>2. \A l \in Labels, out \in Outcomes : GoToWith(c, l, out) => ControlOK'
  BY DEF TypeOK, ControlOK, GoToWith
<1>3. \A out \in Outcomes : Finish(c, out) => ControlOK'
  BY <1>2 DEF Finish, Labels
<1>4. \A s \in Statuses : Deliver(c, s) => ControlOK'
  <2> SUFFICES ASSUME NEW s \in Statuses, Deliver(c, s) PROVE ControlOK'
    OBVIOUS
  <2>1. CASE GoTo(c, "store")
    BY <2>1, <1>1 DEF Labels
  <2>2. CASE \E e \in {"parse", "persona", "api"} : Finish(c, Failure(e))
    BY <2>2, <1>3, OutcomeTypes DEF Errors
  <2>3. CASE GoToWith(c, "wipe", Response(s))
    BY <2>3, <1>2, OutcomeTypes DEF Labels
  <2>4. CASE Finish(c, Response(s))
    BY <2>4, <1>3, OutcomeTypes
  <2> QED
    BY <2>1, <2>2, <2>3, <2>4 DEF Deliver
<1> QED
  BY <1>1, <1>2, <1>3, <1>4

(* RetryError touches the error counter of one loop and keeps its budget.   *)
LEMMA RetryTypes ==
  ASSUME TypeOK, NEW c \in Calls, MayRetry(c), RetryError(c)
  PROVE  /\ ControlOK'
         /\ errAttempt' \in [Calls -> [Frames -> 0 .. MaxRetries]]
<1>1. ControlOK'
  BY ControlSteps DEF RetryError, Labels
<1>2. frame[c] \in Frames /\ errAttempt[c] \in [Frames -> 0 .. MaxRetries]
  BY DEF TypeOK
<1>3. errAttempt[c][frame[c]] + 1 \in 0 .. MaxRetries
  BY <1>2, OptionTypes DEF MayRetry
<1> QED
  BY <1>1, <1>2, <1>3 DEF RetryError, TypeOK

(* A call keeps its long-poll cap while its request stays what it is.       *)
LEMMA CapKept ==
  ASSUME UNCHANGED req PROVE \A d \in Calls : EffectiveMaxLongPolls(d)' = EffectiveMaxLongPolls(d)
BY DEF EffectiveMaxLongPolls

(* A step that moves calls about and keeps each counter within its type     *)
(* keeps the types.                                                         *)
LEMMA TypesKept ==
  ASSUME TypeOK, ControlOK', UNCHANGED <<req, longPollSeen, cancelled>>,
         errAttempt' \in [Calls -> [Frames -> 0 .. MaxRetries]],
         relogged' \in [Calls -> BOOLEAN],
         streak' \in Nat, banned' \in BOOLEAN, banReason' \in {"none", "body"},
         creds' \in BOOLEAN, sent' \in [Calls -> [Frames -> Nat]], opaque' \in Nat
  PROVE  TypeOK'
<1>1. \A d \in Calls : longPollSeen'[d] <= EffectiveMaxLongPolls(d)' + 1
  BY CapKept DEF TypeOK
<1> QED
  BY <1>1 DEF TypeOK, ControlOK

(* Every step keeps the types; the long-poll cap needs that a call which    *)
(* still runs has not exceeded it.                                          *)
LEMMA TypesStep ==
  ASSUME TypeOK, \A d \in Calls : Accounted(d), [Next]_vars
  PROVE  TypeOK'
<1> USE DEF state, shared, history
<1>0. \A l \in {"preflight", "refused", "loop", "wait", "sleep", "trip",
               "publish", "store", "wipe", "done"} : l \in Labels
  BY DEF Labels
<1>a. ASSUME NEW c \in Calls, Step(c) PROVE TypeOK'
  <2>1. CASE Preflight(c)
    BY <2>1, <1>0, ControlSteps, TypesKept DEF Preflight, TypeOK
  <2>2. CASE Refuse(c)
    <3>1. BannedError(streak, banReason) \in Outcomes
      BY OutcomeTypes DEF TypeOK
    <3> QED
      BY <2>2, <3>1, ControlSteps, TypesKept DEF Refuse, TypeOK
  <2>3. CASE Send(c)
    <3>1. sent' \in [Calls -> [Frames -> Nat]]
      BY <2>3 DEF Send, TypeOK
    <3> QED
      BY <2>3, <3>1, <1>0, ControlSteps, TypesKept DEF Send, TypeOK
  <2>4. CASE AbortLoop(c)
    BY <2>4, OutcomeTypes, ControlSteps, TypesKept DEF AbortLoop, TypeOK, Errors
  <2>5. CASE Wake(c)
    BY <2>5, <1>0, ControlSteps, TypesKept DEF Wake, TypeOK
  <2>6. ASSUME NEW e \in Errors, Transient(c, e) PROVE TypeOK'
    <3>1. CASE MayRetry(c) /\ RetryError(c)
      BY <2>6, <3>1, RetryTypes, TypesKept DEF Transient, RetryError, TypeOK
    <3>2. CASE Finish(c, Failure(e)) /\ UNCHANGED state
      BY <2>6, <3>2, OutcomeTypes, ControlSteps, TypesKept DEF Transient, TypeOK
    <3> QED
      BY <2>6, <3>1, <3>2 DEF Transient
  <2>7. CASE LongPollTick(c)
    <3>1. ControlOK'
      BY <2>7, <1>0, OutcomeTypes, ControlSteps DEF LongPollTick, Errors
    <3>2. longPollSeen[c] \in Nat /\ longPollSeen[c] <= EffectiveMaxLongPolls(c)
      BY <2>7 DEF LongPollTick, Accounted, TypeOK
    <3>3. \A d \in Calls : longPollSeen'[d] \in Nat /\ longPollSeen'[d] <= EffectiveMaxLongPolls(d) + 1
      BY <2>7, <3>2, CapType DEF LongPollTick, LongPollSeen, TypeOK
    <3>4. longPollSeen' \in [Calls -> Nat]
      BY <2>7, <3>3 DEF LongPollTick, TypeOK
    <3>5. \A d \in Calls : longPollSeen'[d] <= EffectiveMaxLongPolls(d)' + 1
      BY <2>7, <3>3, CapKept DEF LongPollTick
    <3> QED
      BY <2>7, <3>1, <3>4, <3>5 DEF LongPollTick, TypeOK, ControlOK
  <2>8. CASE Success(c)
    BY <2>8, ControlSteps, TypesKept DEF Success, TypeOK, Statuses
  <2>9. CASE Accepted(c)
    BY <2>9, ControlSteps, TypesKept DEF Accepted, TypeOK, Statuses
  <2>10. CASE Unauthorized(c)
    <3>1. CASE \E e \in Errors : Finish(c, Failure(e))
      BY <2>10, <3>1, OutcomeTypes, ControlSteps, TypesKept DEF Unauthorized, TypeOK
    <3>2. CASE /\ pc' = [pc EXCEPT ![c] = "preflight"]
               /\ frame' = [frame EXCEPT ![c] = "relogin"]
               /\ UNCHANGED outcome
      <4>1. ControlOK'
        BY <3>2 DEF ControlOK, TypeOK, Labels, Frames
      <4> QED
        BY <2>10, <4>1, TypesKept DEF Unauthorized, TypeOK
    <3> QED
      BY <2>10, <3>1, <3>2 DEF Unauthorized, Errors
  <2>11. CASE Rejected(c)
    BY <2>11, ControlSteps, TypesKept DEF Rejected, TypeOK, Statuses
  <2>12. CASE NotVerified(c)
    BY <2>12, OutcomeTypes, ControlSteps, TypesKept DEF NotVerified, TypeOK, Errors
  <2>13. CASE PermissionDenied(c)
    BY <2>13, OutcomeTypes, ControlSteps, TypesKept DEF PermissionDenied, TypeOK, Errors
  <2>14. CASE Forbidden(c)
    <3>1. streak + 1 \in Nat /\ opaque + 1 \in Nat
      BY DEF TypeOK
    <3>2. CASE GoToWith(c, "trip", BannedError(streak', "body")) /\ UNCHANGED state
      <4>1. BannedError(streak', "body") \in Outcomes
        BY <2>14, <3>1, OutcomeTypes DEF Forbidden
      <4> QED
        BY <2>14, <3>1, <3>2, <4>1, <1>0, ControlSteps, TypesKept DEF Forbidden, TypeOK
    <3>3. CASE MayRetry(c) /\ RetryError(c)
      BY <2>14, <3>1, <3>3, RetryTypes, TypesKept DEF Forbidden, RetryError, TypeOK
    <3>4. CASE Deliver(c, "403") /\ UNCHANGED state
      BY <2>14, <3>1, <3>4, ControlSteps, TypesKept DEF Forbidden, TypeOK, Statuses
    <3> QED
      BY <2>14, <3>2, <3>3, <3>4 DEF Forbidden
  <2>15. CASE TripBan(c)
    BY <2>15, <1>0, ControlSteps, TypesKept DEF TripBan, TypeOK
  <2>16. CASE PublishReason(c)
    BY <2>16, <1>0, ControlSteps, TypesKept DEF PublishReason, TypeOK
  <2>17. CASE ClientError(c)
    BY <2>17, OutcomeTypes, ControlSteps, TypesKept DEF ClientError, TypeOK, Errors
  <2>18. CASE StoreCredentials(c)
    <3>1. CASE Finish(c, Response("2xx")) /\ UNCHANGED relogged
      BY <2>18, <3>1, OutcomeTypes, ControlSteps, TypesKept
      DEF StoreCredentials, TypeOK, Statuses
    <3>2. CASE /\ frame' = [frame EXCEPT ![c] = "main"]
               /\ relogged' = [relogged EXCEPT ![c] = TRUE]
               /\ pc' = [pc EXCEPT ![c] = "loop"]
               /\ UNCHANGED outcome
      <4>1. ControlOK' /\ relogged' \in [Calls -> BOOLEAN]
        BY <3>2 DEF ControlOK, TypeOK, Labels, Frames
      <4> QED
        BY <2>18, <4>1, TypesKept DEF StoreCredentials, TypeOK
    <3> QED
      BY <2>18, <3>1, <3>2 DEF StoreCredentials
  <2>19. CASE WipeSession(c)
    BY <2>19, <1>0, ControlSteps, TypesKept DEF WipeSession, TypeOK
  <2> QED
    BY <1>a, <2>1, <2>2, <2>3, <2>4, <2>5, <2>6, <2>7, <2>8, <2>9, <2>10, <2>11,
       <2>12, <2>13, <2>14, <2>15, <2>16, <2>17, <2>18, <2>19
    DEF Step, Receive, NetworkError, RateLimited, ServerError, Errors
<1>b. ASSUME NEW c \in Calls, NEW k \in Kinds, Begin(c, k) PROVE TypeOK'
  <2>1. ControlOK'
    BY <1>b, <1>0, ControlSteps DEF Begin
  <2>2. req' \in [Calls -> AllKinds]
    BY <1>b, OptionsAssumption DEF Begin, TypeOK
  <2>3. \A d \in Calls : longPollSeen'[d] <= EffectiveMaxLongPolls(d)' + 1
    <3> SUFFICES ASSUME NEW d \in Calls
                 PROVE  longPollSeen'[d] <= EffectiveMaxLongPolls(d)' + 1
      OBVIOUS
    <3>1. CASE d = c
      <4>1. longPollSeen'[d] = 0
        BY <1>b, <3>1 DEF Begin, Accounted
      <4>2. EffectiveMaxLongPolls(d)' \in Nat
        BY OptionsAssumption, OptionTypes DEF EffectiveMaxLongPolls
      <4> QED
        BY <4>1, <4>2
    <3>2. CASE d # c
      BY <1>b, <3>2 DEF Begin, TypeOK, EffectiveMaxLongPolls
    <3> QED
      BY <3>1, <3>2
  <2> QED
    BY <1>b, <2>1, <2>2, <2>3 DEF Begin, TypeOK, ControlOK
<1>c. ASSUME NEW c \in Calls, CancelContext(c) PROVE TypeOK'
  <2>1. \A d \in Calls : longPollSeen'[d] <= EffectiveMaxLongPolls(d)' + 1
    BY <1>c, CapKept DEF CancelContext, TypeOK
  <2> QED
    BY <1>c, <2>1 DEF CancelContext, TypeOK
<1>d. CASE CallerCredentials
  <2>1. ControlOK'
    BY <1>d DEF CallerCredentials, TypeOK, ControlOK
  <2>2. creds' \in BOOLEAN
    BY <1>d DEF CallerCredentials, TypeOK
  <2> QED
    BY <1>d, <2>1, <2>2, TypesKept DEF CallerCredentials, TypeOK
<1>e. CASE UNCHANGED vars
  <2>1. ControlOK'
    BY <1>e DEF vars, TypeOK, ControlOK
  <2> QED
    BY <1>e, <2>1, TypesKept DEF vars, TypeOK
<1> QED
  BY <1>a, <1>b, <1>c, <1>d, <1>e DEF Next

-----------------------------------------------------------------------------
(* Requests against budgets                                                 *)

(* A call nothing touches stays accounted for.                              *)
LEMMA Untouched ==
  ASSUME NEW d \in Calls, Accounted(d),
         pc'[d] = pc[d], frame'[d] = frame[d], req'[d] = req[d],
         errAttempt'[d] = errAttempt[d], longPollSeen'[d] = longPollSeen[d],
         relogged'[d] = relogged[d], sent'[d] = sent[d]
  PROVE  Accounted(d)'
BY DEF Accounted, Spent, Settled, EffectiveMaxLongPolls

Unsent == {"preflight", "refused", "loop", "sleep"}

(* Moving a running call to another label is accounted for, unless it puts  *)
(* the call in front of a request from behind one.                          *)
LEMMA AccountedMoved ==
  ASSUME TypeOK, \A d \in Calls : Accounted(d),
         NEW c \in Calls, NEW l \in Labels,
         pc[c] \notin {"idle", "done"}, l # "idle",
         l \in Unsent => pc[c] \in Unsent,
         pc' = [pc EXCEPT ![c] = l],
         UNCHANGED <<frame, errAttempt, longPollSeen, relogged, req, sent>>
  PROVE  \A d \in Calls : Accounted(d)'
<1> SUFFICES ASSUME NEW d \in Calls PROVE Accounted(d)'
  OBVIOUS
<1>1. CASE d # c
  BY <1>1, Untouched DEF TypeOK
<1>2. CASE d = c
  <2>1. pc'[d] = l /\ frame'[d] = frame[d]
    BY <1>2 DEF TypeOK
  <2>2. EffectiveMaxLongPolls(d)' = EffectiveMaxLongPolls(d)
    BY DEF EffectiveMaxLongPolls
  <2>3. Spent(d)' = Spent(d)
    BY DEF Spent
  <2>4. /\ errAttempt[d]["main"] \in Nat /\ errAttempt[d]["relogin"] \in Nat
        /\ longPollSeen[d] \in Nat
        /\ sent[d]["main"] \in Nat /\ sent[d]["relogin"] \in Nat
        /\ Spent(d) \in Nat
        /\ EffectiveMaxLongPolls(d) \in Nat
    BY OptionTypes, CapType DEF TypeOK, Frames, Spent
  <2>5. Settled(d, "main")' => Settled(d, "main")
    BY <1>2, <2>1 DEF Settled, Unsent
  <2>6. Settled(d, "relogin")' => Settled(d, "relogin")
    BY <1>2, <2>1 DEF Settled, Unsent
  <2> QED
    BY <1>2, <2>1, <2>2, <2>3, <2>4, <2>5, <2>6 DEF Accounted
<1> QED
  BY <1>1, <1>2

(* Leaving for a response or an error is such a move.                       *)
LEMMA AccountedLeaves ==
  ASSUME TypeOK, \A d \in Calls : Accounted(d), NEW c \in Calls,
         pc[c] \notin {"idle", "done"},
         UNCHANGED <<errAttempt, longPollSeen, relogged, req, sent>>,
         \/ \E o \in Outcomes : Finish(c, o)
         \/ \E l \in Labels \ (Unsent \cup {"idle"}) : GoTo(c, l)
         \/ \E l \in Labels \ (Unsent \cup {"idle"}), o \in Outcomes : GoToWith(c, l, o)
         \/ \E s \in Statuses : Deliver(c, s)
  PROVE  \A d \in Calls : Accounted(d)'
<1>1. UNCHANGED frame
  BY DEF Finish, GoTo, GoToWith, Deliver
<1>2. PICK l \in Labels \ (Unsent \cup {"idle"}) : pc' = [pc EXCEPT ![c] = l]
  BY DEF Finish, GoTo, GoToWith, Deliver, Labels, Unsent
<1> QED
  BY <1>1, <1>2, AccountedMoved

(* A retry pays for the request it is about to repeat.                      *)
LEMMA AccountedRetry ==
  ASSUME TypeOK, \A d \in Calls : Accounted(d), NEW c \in Calls,
         pc[c] = "wait", RetryError(c), UNCHANGED <<req, sent>>
  PROVE  \A d \in Calls : Accounted(d)'
<1> SUFFICES ASSUME NEW d \in Calls PROVE Accounted(d)'
  OBVIOUS
<1>1. CASE d # c
  BY <1>1, Untouched DEF TypeOK, RetryError, GoTo
<1>2. CASE d = c
  <2>1. pc'[d] = "sleep" /\ frame'[d] = frame[d] /\ frame[d] \in Frames
    BY <1>2 DEF TypeOK, RetryError, GoTo
  <2>2. EffectiveMaxLongPolls(d)' = EffectiveMaxLongPolls(d)
    BY DEF EffectiveMaxLongPolls
  <2>3. /\ errAttempt[d]["main"] \in Nat /\ errAttempt[d]["relogin"] \in Nat
        /\ longPollSeen[d] \in Nat
        /\ sent[d]["main"] \in Nat /\ sent[d]["relogin"] \in Nat
        /\ EffectiveMaxLongPolls(d) \in Nat
    BY OptionTypes, CapType DEF TypeOK, Frames
  <2>4. /\ errAttempt'[d]["main"] =
             errAttempt[d]["main"] + IF frame[d] = "main" THEN 1 ELSE 0
        /\ errAttempt'[d]["relogin"] =
             errAttempt[d]["relogin"] + IF frame[d] = "relogin" THEN 1 ELSE 0
    BY <1>2, <2>1, <2>3 DEF RetryError, TypeOK, Frames
  <2>5. longPollSeen'[d] = longPollSeen[d] /\ relogged'[d] = relogged[d] /\ sent'[d] = sent[d]
    BY DEF RetryError
  <2> QED
    BY <1>2, <2>1, <2>2, <2>3, <2>4, <2>5 DEF Accounted, Spent, Settled, Frames
<1> QED
  BY <1>1, <1>2

(* Every step is paid for.                                                  *)
LEMMA AccountedStep ==
  ASSUME TypeOK, \A d \in Calls : Accounted(d), [Next]_vars
  PROVE  \A d \in Calls : Accounted(d)'
<1> USE DEF state, shared, history
<1>0. /\ \A d \in Calls : /\ errAttempt[d]["main"] \in Nat
                         /\ errAttempt[d]["relogin"] \in Nat
                         /\ longPollSeen[d] \in Nat
                         /\ sent[d]["main"] \in Nat /\ sent[d]["relogin"] \in Nat
                         /\ EffectiveMaxLongPolls(d) \in Nat
                         /\ frame[d] \in Frames
  BY OptionTypes, CapType DEF TypeOK, Frames
<1>a. ASSUME NEW c \in Calls, Step(c) PROVE \A d \in Calls : Accounted(d)'
  <2>1. CASE Preflight(c)
    <3>1. PICK l \in {"refused", "loop"} : pc' = [pc EXCEPT ![c] = l]
      BY <2>1 DEF Preflight, GoTo
    <3> QED
      BY <2>1, <3>1, AccountedMoved DEF Preflight, GoTo, Labels, Unsent
  <2>2. CASE Refuse(c)
    <3>1. BannedError(streak, banReason) \in Outcomes
      BY OutcomeTypes DEF TypeOK
    <3> QED
      BY <2>2, <3>1, AccountedLeaves DEF Refuse
  <2>3. CASE Send(c)
    <3> SUFFICES ASSUME NEW d \in Calls PROVE Accounted(d)'
      OBVIOUS
    <3>1. CASE d # c
      BY <2>3, <3>1, Untouched DEF Send, GoTo, TypeOK
    <3>2. CASE d = c
      <4>1. pc[d] = "loop" /\ pc'[d] = "wait" /\ frame'[d] = frame[d]
        BY <2>3, <3>2 DEF Send, GoTo, TypeOK
      <4>2. /\ sent'[d]["main"] = sent[d]["main"] + IF frame[d] = "main" THEN 1 ELSE 0
            /\ sent'[d]["relogin"] = sent[d]["relogin"] + IF frame[d] = "relogin" THEN 1 ELSE 0
        BY <2>3, <3>2, <1>0 DEF Send, TypeOK, Frames
      <4>3. EffectiveMaxLongPolls(d)' = EffectiveMaxLongPolls(d)
        BY <2>3 DEF Send, EffectiveMaxLongPolls
      <4> QED
        BY <2>3, <3>2, <4>1, <4>2, <4>3, <1>0
        DEF Send, Accounted, Spent, Settled, Frames
    <3> QED
      BY <3>1, <3>2
  <2>4. CASE AbortLoop(c)
    BY <2>4, OutcomeTypes, AccountedLeaves DEF AbortLoop, Errors
  <2>5. CASE Wake(c)
    BY <2>5, AccountedMoved DEF Wake, GoTo, Labels, Unsent
  <2>6. ASSUME NEW e \in Errors, Transient(c, e) PROVE \A d \in Calls : Accounted(d)'
    <3>1. CASE MayRetry(c) /\ RetryError(c)
      BY <2>6, <3>1, AccountedRetry DEF Transient
    <3>2. CASE Finish(c, Failure(e)) /\ UNCHANGED state
      BY <2>6, <3>2, OutcomeTypes, AccountedLeaves DEF Transient
    <3> QED
      BY <2>6, <3>1, <3>2 DEF Transient
  <2>7. CASE LongPollTick(c)
    <3> SUFFICES ASSUME NEW d \in Calls PROVE Accounted(d)'
      OBVIOUS
    <3>1. CASE d # c
      BY <2>7, <3>1, Untouched DEF LongPollTick, Finish, GoTo, GoToWith, TypeOK
    <3>2. CASE d = c
      <4>1. /\ pc[d] = "wait" /\ frame'[d] = frame[d]
            /\ pc'[d] = IF longPollSeen'[d] > EffectiveMaxLongPolls(d) THEN "done" ELSE "sleep"
        BY <2>7, <3>2 DEF LongPollTick, Finish, GoTo, GoToWith, TypeOK
      <4>2. longPollSeen'[d] = longPollSeen[d] + 1
        BY <2>7, <3>2 DEF LongPollTick, LongPollSeen, TypeOK
      <4>3. EffectiveMaxLongPolls(d)' = EffectiveMaxLongPolls(d)
        BY <2>7 DEF LongPollTick, EffectiveMaxLongPolls
      <4>4. frame[d] = "main"
        BY <2>7, <3>2, <1>0 DEF LongPollTick, LongPoll200Empty, LongPoll503, Kind, Frames
      <4> QED
        BY <2>7, <3>2, <4>1, <4>2, <4>3, <4>4, <1>0
        DEF LongPollTick, Accounted, Spent, Settled
    <3> QED
      BY <3>1, <3>2
  <2>8. CASE Success(c)
    BY <2>8, AccountedLeaves DEF Success, Statuses
  <2>9. CASE Accepted(c)
    BY <2>9, AccountedLeaves DEF Accepted, Statuses
  <2>10. CASE Unauthorized(c)
    <3>1. CASE \E e \in Errors : Finish(c, Failure(e))
      BY <2>10, <3>1, OutcomeTypes, AccountedLeaves DEF Unauthorized
    <3>2. CASE /\ MayRelogin(c)
               /\ pc' = [pc EXCEPT ![c] = "preflight"]
               /\ frame' = [frame EXCEPT ![c] = "relogin"]
      <4> SUFFICES ASSUME NEW d \in Calls PROVE Accounted(d)'
        OBVIOUS
      <4>1. CASE d # c
        BY <2>10, <3>2, <4>1, Untouched DEF Unauthorized, TypeOK
      <4>2. CASE d = c
        <5>1. pc[d] = "wait" /\ pc'[d] = "preflight" /\ frame'[d] = "relogin"
          BY <2>10, <3>2, <4>2 DEF Unauthorized, TypeOK
        <5>2. ~relogged[d] /\ frame[d] = "main"
          BY <3>2, <4>2, <1>0 DEF MayRelogin, Kind, NoAutoRelogin, Frames
        <5>3. EffectiveMaxLongPolls(d)' = EffectiveMaxLongPolls(d)
          BY <2>10 DEF Unauthorized, EffectiveMaxLongPolls
        <5> QED
          BY <2>10, <4>2, <5>1, <5>2, <5>3, <1>0
          DEF Unauthorized, Accounted, Spent, Settled
      <4> QED
        BY <4>1, <4>2
    <3> QED
      BY <2>10, <3>1, <3>2 DEF Unauthorized, Errors
  <2>11. CASE Rejected(c)
    BY <2>11, AccountedLeaves DEF Rejected, Statuses
  <2>12. CASE NotVerified(c)
    BY <2>12, OutcomeTypes, AccountedLeaves DEF NotVerified, Errors
  <2>13. CASE PermissionDenied(c)
    BY <2>13, OutcomeTypes, AccountedLeaves DEF PermissionDenied, Errors
  <2>14. CASE Forbidden(c)
    <3>1. CASE GoToWith(c, "trip", BannedError(streak', "body")) /\ UNCHANGED state
      <4>1. BannedError(streak', "body") \in Outcomes
        BY <2>14, OutcomeTypes DEF Forbidden, TypeOK
      <4> QED
        BY <2>14, <3>1, <4>1, AccountedLeaves DEF Forbidden, Labels, Unsent
    <3>2. CASE MayRetry(c) /\ RetryError(c)
      BY <2>14, <3>2, AccountedRetry DEF Forbidden
    <3>3. CASE Deliver(c, "403") /\ UNCHANGED state
      BY <2>14, <3>3, AccountedLeaves DEF Forbidden, Statuses
    <3> QED
      BY <2>14, <3>1, <3>2, <3>3 DEF Forbidden
  <2>15. CASE TripBan(c)
    BY <2>15, AccountedLeaves DEF TripBan, Labels, Unsent
  <2>16. CASE PublishReason(c)
    BY <2>16, AccountedLeaves DEF PublishReason, Labels, Unsent
  <2>17. CASE ClientError(c)
    BY <2>17, OutcomeTypes, AccountedLeaves DEF ClientError, Errors
  <2>18. CASE StoreCredentials(c)
    <3>1. CASE Finish(c, Response("2xx")) /\ UNCHANGED relogged
      BY <2>18, <3>1, OutcomeTypes, AccountedLeaves DEF StoreCredentials, Statuses
    <3>2. CASE /\ frame[c] = "relogin"
               /\ frame' = [frame EXCEPT ![c] = "main"]
               /\ relogged' = [relogged EXCEPT ![c] = TRUE]
               /\ pc' = [pc EXCEPT ![c] = "loop"]
      <4> SUFFICES ASSUME NEW d \in Calls PROVE Accounted(d)'
        OBVIOUS
      <4>1. CASE d # c
        BY <2>18, <3>2, <4>1, Untouched DEF StoreCredentials, TypeOK
      <4>2. CASE d = c
        <5>1. /\ pc[d] = "store" /\ pc'[d] = "loop"
              /\ frame[d] = "relogin" /\ frame'[d] = "main"
              /\ relogged'[d]
          BY <2>18, <3>2, <4>2 DEF StoreCredentials, TypeOK
        <5>2. EffectiveMaxLongPolls(d)' = EffectiveMaxLongPolls(d)
          BY <2>18 DEF StoreCredentials, EffectiveMaxLongPolls
        <5> QED
          BY <2>18, <4>2, <5>1, <5>2, <1>0
          DEF StoreCredentials, Accounted, Spent, Settled
      <4> QED
        BY <4>1, <4>2
    <3> QED
      BY <2>18, <3>1, <3>2 DEF StoreCredentials
  <2>19. CASE WipeSession(c)
    BY <2>19, AccountedLeaves DEF WipeSession, Labels, Unsent
  <2> QED
    BY <1>a, <2>1, <2>2, <2>3, <2>4, <2>5, <2>6, <2>7, <2>8, <2>9, <2>10, <2>11,
       <2>12, <2>13, <2>14, <2>15, <2>16, <2>17, <2>18, <2>19
    DEF Step, Receive, NetworkError, RateLimited, ServerError, Errors
<1>b. ASSUME NEW c \in Calls, NEW k \in Kinds, Begin(c, k)
      PROVE  \A d \in Calls : Accounted(d)'
  <2> SUFFICES ASSUME NEW d \in Calls PROVE Accounted(d)'
    OBVIOUS
  <2>1. CASE d # c
    BY <1>b, <2>1, Untouched DEF Begin, GoTo, TypeOK
  <2>2. CASE d = c
    <3>1. pc[d] = "idle" /\ pc'[d] = "preflight"
      BY <1>b, <2>2 DEF Begin, GoTo, TypeOK
    <3>2. EffectiveMaxLongPolls(d)' \in Nat
      BY OptionsAssumption, OptionTypes DEF EffectiveMaxLongPolls
    <3> QED
      BY <1>b, <2>2, <3>1, <3>2, <1>0 DEF Begin, GoTo, Accounted, Spent, Settled
  <2> QED
    BY <2>1, <2>2
<1>c. ASSUME NEW c \in Calls, CancelContext(c) PROVE \A d \in Calls : Accounted(d)'
  BY <1>c, Untouched DEF CancelContext
<1>d. CASE CallerCredentials
  BY <1>d, Untouched DEF CallerCredentials
<1>e. CASE UNCHANGED vars
  BY <1>e, Untouched DEF vars
<1> QED
  BY <1>a, <1>b, <1>c, <1>d, <1>e DEF Next

-----------------------------------------------------------------------------
(* The ban                                                                  *)

(* A step of c that leaves the ban's variables alone, and is not TripBan or *)
(* PublishReason, keeps BanInv, if it moves no call to "trip" or "publish"  *)
(* and may only lower the streak.                                           *)
LEMMA BanKept ==
  ASSUME TypeOK, BanInv, streak' \in {streak, 0},
         UNCHANGED <<banned, banReason, opaque>>,
         \A d \in Calls : pc[d] \in {"trip", "publish"} \/ pc'[d] \in {"trip", "publish"}
                            => pc'[d] = pc[d]
  PROVE  BanInv'
<1>1. \A d \in Calls : /\ pc[d] = "trip" <=> pc'[d] = "trip"
                       /\ pc[d] = "publish" <=> pc'[d] = "publish"
  OBVIOUS
<1>2. BanThreshold' = BanThreshold
  BY DEF BanThreshold
<1>3. (streak <= opaque)' /\ BanIsEarned'
  BY <1>2 DEF BanInv, BanIsEarned, TypeOK
<1>4. NoBanLost'
  BY <1>1, <1>2, OptionTypes DEF BanInv, NoBanLost, TypeOK
<1>5. ReasonFollowsBan'
  BY <1>1 DEF BanInv, ReasonFollowsBan
<1>6. \A d \in Calls : pc'[d] = "trip" => opaque' >= BanThreshold'
  BY <1>1, <1>2 DEF BanInv
<1>7. \A d \in Calls : pc'[d] = "publish" => banned'
  BY <1>1 DEF BanInv
<1> QED
  BY <1>3, <1>4, <1>5, <1>6, <1>7 DEF BanInv

(* Every step keeps the ban's facts.                                        *)
LEMMA BanStep ==
  ASSUME TypeOK, BanInv, [Next]_vars
  PROVE  BanInv'
<1> USE DEF state, shared, history
<1>0. BanThreshold' = BanThreshold /\ BanThreshold \in Nat /\ BanThreshold > 0
  BY OptionTypes DEF BanThreshold
<1>a. ASSUME NEW c \in Calls, Step(c) PROVE BanInv'
  <2>1. CASE Preflight(c) \/ Refuse(c)
    BY <2>1, BanKept DEF Preflight, Refuse, Finish, GoTo, GoToWith, TypeOK
  <2>2. CASE Send(c) \/ AbortLoop(c) \/ Wake(c)
    BY <2>2, BanKept DEF Send, AbortLoop, Wake, Finish, GoTo, GoToWith, TypeOK
  <2>3. CASE NetworkError(c) \/ RateLimited(c) \/ ServerError(c)
    BY <2>3, BanKept
    DEF NetworkError, RateLimited, ServerError, Transient, RetryError, Finish, GoTo, GoToWith, TypeOK
  <2>4. CASE LongPollTick(c)
    BY <2>4, BanKept DEF LongPollTick, Finish, GoTo, GoToWith, TypeOK
  <2>5. CASE Success(c) \/ Accepted(c) \/ Rejected(c)
    BY <2>5, BanKept DEF Success, Accepted, Rejected, Deliver, Finish, GoTo, GoToWith, TypeOK
  <2>6. CASE Unauthorized(c)
    BY <2>6, BanKept DEF Unauthorized, Finish, GoToWith, TypeOK
  <2>7. CASE NotVerified(c) \/ PermissionDenied(c) \/ ClientError(c)
    BY <2>7, BanKept DEF NotVerified, PermissionDenied, ClientError, Finish, GoToWith, TypeOK
  <2>8. CASE Forbidden(c)
    <3>1. /\ streak' = streak + 1 /\ opaque' = opaque + 1
          /\ UNCHANGED <<banned, banReason>>
          /\ pc[c] = "wait"
      BY <2>8 DEF Forbidden
    <3>2. \A d \in Calls : d # c => pc'[d] = pc[d]
      BY <2>8 DEF Forbidden, RetryError, Deliver, Finish, GoTo, GoToWith, TypeOK
    <3>3. pc'[c] # "publish" /\ (pc'[c] = "trip" <=> Trips(streak'))
      BY <2>8 DEF Forbidden, RetryError, Deliver, Finish, GoTo, GoToWith, TypeOK
    <3>4. Trips(streak') <=> streak' >= BanThreshold
      BY <1>0 DEF Trips
    <3>5. (streak <= opaque)' /\ BanIsEarned'
      BY <1>0, <3>1 DEF BanInv, BanIsEarned, TypeOK
    <3>6. NoBanLost'
      BY <1>0, <3>3, <3>4 DEF NoBanLost
    <3>7. ReasonFollowsBan'
      BY <3>1, <3>2 DEF BanInv, ReasonFollowsBan
    <3>8. \A d \in Calls : pc'[d] = "trip" => opaque' >= BanThreshold'
      BY <1>0, <3>1, <3>2, <3>3, <3>4 DEF BanInv, TypeOK
    <3>9. \A d \in Calls : pc'[d] = "publish" => banned'
      BY <3>1, <3>2, <3>3 DEF BanInv
    <3> QED
      BY <3>5, <3>6, <3>7, <3>8, <3>9 DEF BanInv
  <2>9. CASE TripBan(c)
    <3>1. /\ pc[c] = "trip" /\ pc'[c] = "publish" /\ banned'
          /\ UNCHANGED <<streak, banReason, opaque>>
          /\ \A d \in Calls : d # c => pc'[d] = pc[d]
      BY <2>9 DEF TripBan, GoTo, TypeOK
    <3> QED
      BY <1>0, <3>1 DEF BanInv, BanIsEarned, NoBanLost, ReasonFollowsBan
  <2>10. CASE PublishReason(c)
    <3>1. /\ pc[c] = "publish" /\ pc'[c] = "done" /\ banReason' = "body"
          /\ UNCHANGED <<streak, banned, opaque>>
          /\ \A d \in Calls : d # c => pc'[d] = pc[d]
      BY <2>10 DEF PublishReason, GoTo, TypeOK
    <3> QED
      BY <1>0, <3>1 DEF BanInv, BanIsEarned, NoBanLost, ReasonFollowsBan
  <2>11. CASE StoreCredentials(c) \/ WipeSession(c)
    BY <2>11, BanKept DEF StoreCredentials, WipeSession, Finish, GoTo, GoToWith, TypeOK
  <2> QED
    BY <1>a, <2>1, <2>2, <2>3, <2>4, <2>5, <2>6, <2>7, <2>8, <2>9, <2>10, <2>11
    DEF Step, Receive
<1>b. ASSUME NEW c \in Calls, NEW k \in Kinds, Begin(c, k) PROVE BanInv'
  BY <1>b, BanKept DEF Begin, GoTo, TypeOK
<1>c. ASSUME NEW c \in Calls, CancelContext(c) PROVE BanInv'
  BY <1>c, BanKept DEF CancelContext
<1>d. CASE CallerCredentials
  BY <1>d, BanKept DEF CallerCredentials
<1>e. CASE UNCHANGED vars
  BY <1>e, BanKept DEF vars
<1> QED
  BY <1>a, <1>b, <1>c, <1>d, <1>e DEF Next

-----------------------------------------------------------------------------
(* Theorems                                                                 *)

(* LoopInv is inductive: the types, the account of each call's requests and *)
(* the facts about the ban, together, survive every step of do.             *)
THEOREM LoopInvariant == Spec => []LoopInv
<1>1. Init => LoopInv
  BY LoopInit
<1>2. LoopInv /\ [Next]_vars => LoopInv'
  BY TypesStep, AccountedStep, BanStep DEF LoopInv
<1> QED
  BY <1>1, <1>2, PTL DEF Spec

(* The counters of retryState never pass their budgets, whatever the        *)
(* options, the number of concurrent calls and the server's answers.        *)
THEOREM TypesHold == Spec => []TypeOK
<1>1. LoopInv => TypeOK
  BY DEF LoopInv
<1> QED
  BY <1>1, LoopInvariant, PTL

(* The account bounds the requests of a call.                               *)
LEMMA BoundFollows == LoopInv => RequestsBounded
<1> SUFFICES ASSUME LoopInv, NEW d \in Calls
             PROVE  /\ sent[d]["main"] <= 2 + MaxRetries + EffectiveMaxLongPolls(d)
                    /\ sent[d]["relogin"] <= 1 + MaxRetries
  BY DEF RequestsBounded
<1>1. TypeOK /\ Accounted(d)
  BY DEF LoopInv
<1>2. /\ errAttempt[d]["main"] \in 0 .. MaxRetries
      /\ errAttempt[d]["relogin"] \in 0 .. MaxRetries
      /\ longPollSeen[d] \in Nat
      /\ longPollSeen[d] <= EffectiveMaxLongPolls(d) + 1
      /\ sent[d]["main"] \in Nat /\ sent[d]["relogin"] \in Nat
      /\ EffectiveMaxLongPolls(d) \in Nat
      /\ MaxRetries \in Nat
  BY <1>1, OptionTypes, CapType DEF TypeOK, Frames
<1>3. sent[d]["main"] <= 2 + MaxRetries + EffectiveMaxLongPolls(d)
  <2>1. CASE longPollSeen[d] > EffectiveMaxLongPolls(d)
    BY <1>1, <1>2, <2>1 DEF Accounted, Spent
  <2>2. CASE longPollSeen[d] <= EffectiveMaxLongPolls(d)
    BY <1>1, <1>2, <2>2 DEF Accounted, Spent
  <2> QED
    BY <1>2, <2>1, <2>2
<1>4. sent[d]["relogin"] <= 1 + MaxRetries
  BY <1>1, <1>2 DEF Accounted
<1> QED
  BY <1>3, <1>4

(* A call sends at most its first request, one per error retry, one per     *)
(* long-poll tick and one after the re-login, and Login's own requests.     *)
THEOREM RequestsStayBounded == Spec => []RequestsBounded
BY BoundFollows, LoopInvariant, PTL

(* The ban is never set before BanThreshold opaque 403s were received, for  *)
(* any number of concurrent calls.                                          *)
THEOREM BanStaysEarned == Spec => []BanIsEarned
<1>1. LoopInv => BanIsEarned
  BY DEF LoopInv, BanInv
<1> QED
  BY <1>1, LoopInvariant, PTL

(* No interleaving of the atomic adds loses a ban the streak has reached.   *)
THEOREM NoBanIsLost == Spec => []NoBanLost
<1>1. LoopInv => NoBanLost
  BY DEF LoopInv, BanInv
<1> QED
  BY <1>1, LoopInvariant, PTL

(* A ban lacks its reason only between the two stores of the call that      *)
(* tripped it.                                                              *)
THEOREM ReasonIsPublished == Spec => []ReasonFollowsBan
<1>1. LoopInv => ReasonFollowsBan
  BY DEF LoopInv, BanInv
<1> QED
  BY <1>1, LoopInvariant, PTL

-----------------------------------------------------------------------------
(* The refinement of RequestPromise                                         *)

Busy == {"wait", "trip", "publish", "store", "wipe"}

(* What a call has behind it where it stands: its loop has sent a request   *)
(* before it has an answer, and a main loop before a nested Login.          *)
Behind(c) ==
  /\ pc[c] \in Busy => sent[c][frame[c]] > 0
  /\ frame[c] = "relogin" => sent[c]["main"] > 0
  /\ pc[c] = "refused" => banned
  /\ pc[c] \in {"trip", "publish"} => outcome[c].err = "banned"
  /\ pc[c] = "wipe" => outcome[c].err = "nil"

PromiseInv == LoopInv /\ \A c \in Calls : Behind(c)

(* A step that moves no call but c.                                         *)
Alone(c) ==
  \A d \in Calls : d # c => /\ pc'[d] = pc[d]
                            /\ frame'[d] = frame[d]
                            /\ outcome'[d] = outcome[d]

(* The operators that move a call move no other.                            *)
LEMMA MovesAlone ==
  ASSUME TypeOK, NEW c \in Calls
  PROVE  /\ \A l \in Labels : GoTo(c, l) =>
               Alone(c) /\ pc'[c] = l /\ frame'[c] = frame[c] /\ outcome'[c] = outcome[c]
         /\ \A l \in Labels, out \in Outcomes : GoToWith(c, l, out) =>
               Alone(c) /\ pc'[c] = l /\ frame'[c] = frame[c] /\ outcome'[c] = out
BY DEF GoTo, GoToWith, Alone, TypeOK

(* The errors do can build carry the name they were built with.             *)
LEMMA OutcomeNames ==
  /\ \A e \in Errors : Failure(e).err = e
  /\ \A s \in Statuses : Response(s).err = "nil"
  /\ \A n \in Nat, r \in {"none", "body"} : BannedError(n, r).err = "banned"
BY DEF Failure, Response, BannedError, NoOutcome

(* Where a step may take a call from which an answer was due: to the head   *)
(* of a loop, into a nested Login, to a step that handles the answer, or    *)
(* out, with an error that is neither the caller's nor an unearned ban.     *)
Answered(c) ==
  /\ Alone(c)
  /\ UNCHANGED <<req, cancelled, banned, sent>>
  /\ \/ /\ pc'[c] \in {"loop", "sleep", "trip", "store", "wipe", "done"}
        /\ (frame'[c] = frame[c] \/ frame'[c] = "main")
     \/ /\ pc[c] = "wait" /\ frame[c] = "main"
        /\ pc'[c] = "preflight" /\ frame'[c] = "relogin"
  /\ pc'[c] = "done" => outcome'[c].err # "ctx" /\ (outcome'[c].err = "banned" => banned)
  /\ pc'[c] = "trip" => pc[c] = "wait" /\ outcome'[c].err = "banned"
  /\ pc'[c] = "wipe" => pc[c] = "wait" /\ outcome'[c].err = "nil"
  /\ pc'[c] = "store" => pc[c] = "wait" /\ frame'[c] = frame[c]

(* Deliver gives a response out, or an error of Login's own.                *)
LEMMA DeliverAnswers ==
  ASSUME TypeOK, NEW c \in Calls, pc[c] = "wait", NEW s \in {"2xx", "3xx", "403", "503"},
         Deliver(c, s), UNCHANGED <<req, cancelled, banned, sent>>
  PROVE  Answered(c)
<1>1. s \in Statuses
  BY DEF Statuses
<1>2. CASE GoTo(c, "store")
  BY <1>2, MovesAlone DEF Labels, Answered
<1>3. CASE \E e \in {"parse", "persona", "api"} : Finish(c, Failure(e))
  <2>1. PICK e \in {"parse", "persona", "api"} : GoToWith(c, "done", Failure(e))
    BY <1>3 DEF Finish
  <2>2. e \in Errors
    BY DEF Errors
  <2>3. outcome'[c].err = e /\ Alone(c) /\ pc'[c] = "done" /\ frame'[c] = frame[c]
    BY <2>1, <2>2, MovesAlone, OutcomeTypes, OutcomeNames DEF Labels
  <2> QED
    BY <2>3 DEF Answered
<1>4. CASE GoToWith(c, "wipe", Response(s))
  BY <1>1, <1>4, MovesAlone, OutcomeTypes, OutcomeNames DEF Labels, Answered
<1>5. CASE Finish(c, Response(s))
  BY <1>1, <1>5, MovesAlone, OutcomeTypes, OutcomeNames DEF Labels, Answered, Finish
<1> QED
  BY <1>2, <1>3, <1>4, <1>5 DEF Deliver

(* An error other than the caller's own and ErrBanned is an answer too.     *)
LEMMA FailureAnswers ==
  ASSUME TypeOK, NEW c \in Calls, pc[c] = "wait", NEW e \in Errors \ {"ctx", "banned"},
         Finish(c, Failure(e)), UNCHANGED <<req, cancelled, banned, sent>>
  PROVE  Answered(c)
BY MovesAlone, OutcomeTypes, OutcomeNames DEF Labels, Answered, Finish

(* Every class of response is an answer.                                    *)
LEMMA ReceiveAnswers ==
  ASSUME TypeOK, NEW c \in Calls, Receive(c)
  PROVE  Answered(c) /\ pc[c] = "wait"
<1> USE DEF state, shared, history
<1>r. ASSUME RetryError(c), pc[c] = "wait", UNCHANGED <<req, cancelled, banned, sent>>
      PROVE  Answered(c)
  BY <1>r, MovesAlone DEF RetryError, Labels, Answered
<1>1. ASSUME NEW e \in {"network", "rate_limit", "api"}, Transient(c, e)
      PROVE  Answered(c) /\ pc[c] = "wait"
  <2>1. e \in Errors \ {"ctx", "banned"}
    BY DEF Errors
  <2> QED
    BY <1>1, <1>r, <2>1, FailureAnswers DEF Transient
<1>2. CASE LongPollTick(c)
  <2>1. "long_poll_exceeded" \in Errors \ {"ctx", "banned"}
    BY DEF Errors
  <2>2. ASSUME GoTo(c, "sleep") PROVE Answered(c)
    BY <1>2, <2>2, MovesAlone DEF LongPollTick, Labels, Answered
  <2> QED
    BY <1>2, <2>1, <2>2, FailureAnswers DEF LongPollTick
<1>3. CASE Success(c) \/ Accepted(c) \/ Rejected(c)
  BY <1>3, DeliverAnswers DEF Success, Accepted, Rejected
<1>4. CASE Unauthorized(c)
  <2>1. {"api", "not_authenticated"} \subseteq Errors \ {"ctx", "banned"}
    BY DEF Errors
  <2>2. CASE Finish(c, Failure("api")) \/ Finish(c, Failure("not_authenticated"))
    BY <1>4, <2>1, <2>2, FailureAnswers DEF Unauthorized
  <2>3. CASE ~(Finish(c, Failure("api")) \/ Finish(c, Failure("not_authenticated")))
    <3>1. /\ MayRelogin(c)
          /\ pc[c] = "wait" /\ pc' = [pc EXCEPT ![c] = "preflight"]
          /\ frame' = [frame EXCEPT ![c] = "relogin"]
          /\ UNCHANGED <<outcome, req, cancelled, banned, sent>>
      BY <1>4, <2>3 DEF Unauthorized
    <3>2. frame[c] = "main"
      BY <3>1 DEF MayRelogin, NoAutoRelogin, Kind, TypeOK, Frames
    <3> QED
      BY <3>1, <3>2 DEF Answered, Alone, TypeOK
  <2> QED
    BY <1>4, <2>2, <2>3 DEF Unauthorized
<1>5. CASE NotVerified(c) \/ PermissionDenied(c) \/ ClientError(c)
  <2>1. {"not_verified", "permission_denied", "api", "drf"} \subseteq Errors \ {"ctx", "banned"}
    BY DEF Errors
  <2> QED
    BY <1>5, <2>1, FailureAnswers DEF NotVerified, PermissionDenied, ClientError
<1>6. CASE Forbidden(c)
  <2>1. pc[c] = "wait" /\ UNCHANGED <<req, cancelled, banned, sent>>
    BY <1>6 DEF Forbidden
  <2>2. CASE GoToWith(c, "trip", BannedError(streak', "body"))
    <3>1. streak' \in Nat
      BY <1>6 DEF Forbidden, TypeOK
    <3>2. BannedError(streak', "body") \in Outcomes /\ BannedError(streak', "body").err = "banned"
      BY <3>1, OutcomeTypes, OutcomeNames
    <3> QED
      BY <2>1, <2>2, <3>2, MovesAlone DEF Labels, Answered
  <2> QED
    BY <1>6, <1>r, <2>1, <2>2, DeliverAnswers DEF Forbidden
<1> QED
  BY <1>1, <1>2, <1>3, <1>4, <1>5, <1>6
  DEF Receive, NetworkError, RateLimited, ServerError

(* What is behind a call stays behind it.                                   *)
LEMMA BehindStep ==
  ASSUME TypeOK, BanInv, \A c \in Calls : Behind(c), [Next]_vars
  PROVE  \A c \in Calls : Behind(c)'
<1> USE DEF state, shared, history, Busy
<1>0. \A d \in Calls : pc[d] # "idle" /\ pc[d] = "idle" => FALSE
  OBVIOUS
<1>1. ASSUME NEW c \in Calls, Answered(c), pc[c] \in Busy
      PROVE  \A d \in Calls : Behind(d)'
  <2>1. Behind(c)'
    BY <1>1 DEF Answered, Behind, TypeOK, Frames
  <2>2. \A d \in Calls : d # c => Behind(d)'
    BY <1>1 DEF Answered, Alone, Behind
  <2> QED
    BY <2>1, <2>2
<1>2. ASSUME NEW c \in Calls, Alone(c), UNCHANGED <<banned, sent>>, frame'[c] = frame[c],
             pc'[c] \notin Busy, pc'[c] = "refused" => banned
      PROVE  \A d \in Calls : Behind(d)'
  <2>1. Behind(c)'
    BY <1>2 DEF Behind
  <2>2. \A d \in Calls : d # c => Behind(d)'
    BY <1>2 DEF Alone, Behind
  <2> QED
    BY <2>1, <2>2
<1>a. ASSUME NEW c \in Calls, Step(c) PROVE \A d \in Calls : Behind(d)'
  <2>1. CASE Preflight(c)
    BY <2>1, <1>2, MovesAlone DEF Preflight, Labels
  <2>2. CASE Refuse(c)
    <3>1. BannedError(streak, banReason) \in Outcomes
      BY OutcomeTypes DEF TypeOK
    <3> QED
      BY <2>2, <3>1, <1>2, MovesAlone DEF Refuse, Finish, Labels
  <2>3. CASE Send(c)
    <3>1. Alone(c) /\ pc'[c] = "wait" /\ frame'[c] = frame[c] /\ frame[c] \in Frames
      BY <2>3, MovesAlone DEF Send, Labels, TypeOK
    <3>2. /\ sent'[c][frame[c]] > 0
          /\ sent[c]["main"] > 0 => sent'[c]["main"] > 0
          /\ \A d \in Calls : d # c => sent'[d] = sent[d]
      BY <2>3, <3>1 DEF Send, TypeOK, Frames
    <3>3. Behind(c)'
      BY <3>1, <3>2 DEF Behind
    <3>4. \A d \in Calls : d # c => Behind(d)'
      BY <2>3, <3>1, <3>2 DEF Behind, Alone, Send
    <3> QED
      BY <3>3, <3>4
  <2>4. CASE AbortLoop(c)
    <3>1. Failure("ctx") \in Outcomes
      BY OutcomeTypes DEF Errors
    <3> QED
      BY <2>4, <3>1, <1>2, MovesAlone DEF AbortLoop, Finish, Labels
  <2>5. CASE Wake(c)
    BY <2>5, <1>2, MovesAlone DEF Wake, Labels
  <2>6. CASE Receive(c)
    BY <2>6, <1>1, ReceiveAnswers
  <2>7. CASE TripBan(c)
    <3>1. Alone(c) /\ pc'[c] = "publish" /\ frame'[c] = frame[c] /\ outcome'[c] = outcome[c]
      BY <2>7, MovesAlone DEF TripBan, Labels
    <3>2. pc[c] = "trip" /\ sent' = sent /\ banned'
      BY <2>7 DEF TripBan
    <3>3. Behind(c)'
      BY <3>1, <3>2 DEF Behind
    <3>4. \A d \in Calls : d # c => Behind(d)'
      BY <3>1, <3>2 DEF Behind, Alone
    <3> QED
      BY <3>3, <3>4
  <2>8. CASE PublishReason(c)
    BY <2>8, <1>2, MovesAlone DEF PublishReason, Labels
  <2>9. CASE StoreCredentials(c)
    <3>1. /\ Alone(c) /\ sent' = sent /\ banned' = banned
          /\ \/ pc'[c] = "done" /\ frame'[c] = frame[c]
             \/ pc'[c] = "loop" /\ frame'[c] = "main"
      BY <2>9, MovesAlone, OutcomeTypes
      DEF StoreCredentials, Finish, Labels, Statuses, Alone, TypeOK
    <3>2. Behind(c)'
      BY <3>1 DEF Behind
    <3>3. \A d \in Calls : d # c => Behind(d)'
      BY <3>1 DEF Behind, Alone
    <3> QED
      BY <3>2, <3>3
  <2>10. CASE WipeSession(c)
    BY <2>10, <1>2, MovesAlone DEF WipeSession, Labels
  <2> QED
    BY <1>a, <2>1, <2>2, <2>3, <2>4, <2>5, <2>6, <2>7, <2>8, <2>9, <2>10 DEF Step
<1>b. ASSUME NEW c \in Calls, NEW k \in Kinds, Begin(c, k) PROVE \A d \in Calls : Behind(d)'
  BY <1>b, <1>2, MovesAlone DEF Begin, Labels
<1>c. ASSUME NEW c \in Calls, CancelContext(c) PROVE \A d \in Calls : Behind(d)'
  BY <1>c DEF CancelContext, Behind
<1>d. CASE CallerCredentials
  BY <1>d DEF CallerCredentials, Behind
<1>e. CASE UNCHANGED vars
  BY <1>e DEF vars, Behind
<1> QED
  BY <1>a, <1>b, <1>c, <1>d, <1>e DEF Next

(* The abstract state, read off the loop's.                                 *)
PhaseMap == [c \in Calls |-> Phase(c)]
RequestsMap == [c \in Calls |-> sent[c]["main"] + sent[c]["relogin"]]
ResultMap == [c \in Calls |-> Result(c)]

(* A step that moves only c maps every other call to itself.                *)
LEMMA MapAlone ==
  ASSUME NEW c \in Calls, Alone(c)
  PROVE  /\ PhaseMap' = [PhaseMap EXCEPT ![c] = Phase(c)']
         /\ ResultMap' = [ResultMap EXCEPT ![c] = Result(c)']
<1>1. \A d \in Calls : d # c => Phase(d)' = Phase(d) /\ Result(d)' = Result(d)
  BY DEF Alone, Phase, Result
<1> QED
  BY <1>1 DEF PhaseMap, ResultMap

(* A step that moves only c, sends nothing and leaves it in its phase and   *)
(* without a result is a stutter.                                           *)
LEMMA MapStutters ==
  ASSUME NEW c \in Calls, Alone(c), UNCHANGED <<sent, cancelled, banned>>,
         Phase(c)' = Phase(c), pc[c] # "done", pc'[c] # "done"
  PROVE  UNCHANGED Promised!vars
<1>1. Result(c)' = Result(c)
  BY DEF Result
<1>2. PhaseMap' = PhaseMap /\ ResultMap' = ResultMap
  BY <1>1, MapAlone DEF PhaseMap, ResultMap
<1>3. RequestsMap' = RequestsMap
  BY DEF RequestsMap
<1> QED
  BY <1>2, <1>3 DEF Promised!vars, PhaseMap, ResultMap, RequestsMap

(* A call that returns, admitted, returns what the promise allows.          *)
LEMMA MapReturns ==
  ASSUME TypeOK, NEW c \in Calls, Alone(c), UNCHANGED <<sent, cancelled, banned>>,
         Phase(c) = "admitted", pc'[c] = "done",
         outcome'[c].err = "banned" => banned,
         IF outcome'[c].err = "ctx" THEN cancelled[c] ELSE RequestsMap[c] > 0
  PROVE  Promised!Return(c)
<1>1. PhaseMap' = [PhaseMap EXCEPT ![c] = "over"]
  BY MapAlone DEF Phase
<1>2. ResultMap' = [ResultMap EXCEPT ![c] = Result(c)']
  BY MapAlone
<1>3. /\ Result(c)' \in {"response", "error", "banned", "stopped"}
      /\ Result(c)' = "banned" => banned
      /\ IF Result(c)' = "stopped" THEN cancelled[c] ELSE RequestsMap[c] > 0
  BY DEF Result
<1>4. PhaseMap[c] = "admitted" /\ RequestsMap' = RequestsMap
  BY DEF PhaseMap, RequestsMap
<1> QED
  BY <1>1, <1>2, <1>3, <1>4 DEF Promised!Return, Promised!Enter, PhaseMap, ResultMap, RequestsMap

(* A request leaves within the promised budget.                             *)
Within == \A c \in Calls : /\ RequestBudget \in Nat
                          /\ RequestsMap[c] \in Nat
                          /\ RequestsMap[c] <= RequestBudget

LEMMA WithinBudget == LoopInv => Within
<1> SUFFICES ASSUME LoopInv, NEW d \in Calls
             PROVE  /\ RequestBudget \in Nat
                    /\ RequestsMap[d] \in Nat
                    /\ RequestsMap[d] <= RequestBudget
  BY DEF Within
<1>1. RequestsBounded
  BY BoundFollows
<1>2. /\ sent[d]["main"] \in Nat /\ sent[d]["relogin"] \in Nat
      /\ sent[d]["main"] <= 2 + MaxRetries + EffectiveMaxLongPolls(d)
      /\ sent[d]["relogin"] <= 1 + MaxRetries
  BY <1>1 DEF RequestsBounded, LoopInv, TypeOK, Frames
<1>3. /\ EffectiveMaxLongPolls(d) <= Longest(MaxLongPolls, HintMaxLongPolls)
      /\ Longest(MaxLongPolls, HintMaxLongPolls) \in Nat
      /\ EffectiveMaxLongPolls(d) \in Nat
  BY OptionTypes, OptionsAssumption DEF EffectiveMaxLongPolls, Longest
<1>4. RequestsMap[d] = sent[d]["main"] + sent[d]["relogin"]
  BY DEF RequestsMap
<1> QED
  BY <1>2, <1>3, <1>4, OptionTypes DEF RequestBudget

(* Every step of the loop is a step of the promise or a stutter.            *)
LEMMA PromiseStep ==
  ASSUME PromiseInv, PromiseInv', [Next]_vars
  PROVE  [Promised!Next]_(Promised!vars)
<1> USE DEF state, shared, history, Busy
<1>0. TypeOK /\ BanInv /\ LoopInv /\ LoopInv' /\ \A c \in Calls : Behind(c)
  BY DEF PromiseInv, LoopInv
<1>n. \A c \in Calls : RequestsMap[c] = sent[c]["main"] + sent[c]["relogin"]
                         /\ sent[c]["main"] \in Nat /\ sent[c]["relogin"] \in Nat
                         /\ frame[c] \in Frames
  BY <1>0 DEF RequestsMap, TypeOK, Frames
<1>p. \A c \in Calls : PhaseMap[c] = Phase(c) /\ ResultMap[c] = Result(c)
  BY DEF PhaseMap, ResultMap
<1>1. ASSUME NEW c \in Calls, Answered(c), pc[c] \in {"wait", "store", "wipe", "publish"}
      PROVE  [Promised!Next]_(Promised!vars)
  <2>1. Phase(c) = "admitted" /\ RequestsMap[c] > 0
    BY <1>0, <1>1, <1>n DEF Behind, Phase, Frames
  <2>2. CASE pc'[c] = "done"
    <3>1. Promised!Return(c)
      BY <1>0, <1>1, <2>1, <2>2, MapReturns DEF Answered
    <3> QED
      BY <3>1 DEF Promised!Next
  <2>3. CASE pc'[c] # "done"
    <3>1. Phase(c)' = "admitted"
      BY <1>1, <2>3 DEF Answered, Phase
    <3> QED
      BY <1>1, <2>1, <2>3, <3>1, MapStutters DEF Answered
  <2> QED
    BY <2>2, <2>3
<1>a. ASSUME NEW c \in Calls, Step(c) PROVE [Promised!Next]_(Promised!vars)
  <2>1. CASE Preflight(c)
    <3>1. /\ Alone(c) /\ pc[c] = "preflight" /\ frame'[c] = frame[c]
          /\ pc'[c] = (IF banned THEN "refused" ELSE "loop")
          /\ UNCHANGED <<sent, cancelled, banned>>
      BY <1>0, <2>1, MovesAlone DEF Preflight, Labels
    <3>2. CASE frame[c] = "main" /\ ~banned
      <4>1. PhaseMap' = [PhaseMap EXCEPT ![c] = "admitted"] /\ PhaseMap[c] = "asked"
        BY <1>p, <3>1, <3>2, MapAlone DEF Phase
      <4>2. Result(c)' = Result(c)
        BY <3>1 DEF Result
      <4>3. ResultMap' = ResultMap
        BY <3>1, <4>2, MapAlone DEF ResultMap
      <4>4. RequestsMap' = RequestsMap
        BY <3>1 DEF RequestsMap
      <4>5. Promised!Admit(c)
        BY <3>1, <3>2, <4>1, <4>3, <4>4 DEF Promised!Admit, Promised!Enter, PhaseMap, ResultMap, RequestsMap
      <4> QED
        BY <4>5 DEF Promised!Next
    <3>3. CASE ~(frame[c] = "main" /\ ~banned)
      <4>1. Phase(c)' = Phase(c)
        BY <3>1, <3>3 DEF Phase
      <4> QED
        BY <3>1, <4>1, MapStutters
    <3> QED
      BY <3>2, <3>3
  <2>2. CASE Refuse(c)
    <3>1. /\ Alone(c) /\ pc[c] = "refused" /\ pc'[c] = "done" /\ frame'[c] = frame[c]
          /\ outcome'[c].err = "banned"
          /\ UNCHANGED <<sent, cancelled, banned>> /\ banned
      <4>1. BannedError(streak, banReason) \in Outcomes /\ BannedError(streak, banReason).err = "banned"
        BY <1>0, OutcomeTypes, OutcomeNames DEF TypeOK
      <4> QED
        BY <1>0, <2>2, <4>1, MovesAlone DEF Refuse, Finish, Labels, Behind
    <3>2. CASE frame[c] = "main"
      <4>1. PhaseMap' = [PhaseMap EXCEPT ![c] = "over"] /\ PhaseMap[c] = "asked"
        BY <1>p, <3>1, <3>2, MapAlone DEF Phase
      <4>2. ResultMap' = [ResultMap EXCEPT ![c] = "banned"] /\ RequestsMap' = RequestsMap
        BY <3>1, MapAlone DEF Result, RequestsMap
      <4>3. Promised!TurnAway(c)
        BY <3>1, <4>1, <4>2 DEF Promised!TurnAway, Promised!Enter, PhaseMap, ResultMap, RequestsMap
      <4> QED
        BY <4>3 DEF Promised!Next
    <3>3. CASE frame[c] # "main"
      <4>1. Phase(c) = "admitted" /\ RequestsMap[c] > 0
        BY <1>0, <1>n, <3>1, <3>3 DEF Phase, Behind, Frames
      <4>2. Promised!Return(c)
        BY <1>0, <3>1, <4>1, MapReturns
      <4> QED
        BY <4>2 DEF Promised!Next
    <3> QED
      BY <3>2, <3>3
  <2>3. CASE Send(c)
    <3>1. /\ Alone(c) /\ pc[c] = "loop" /\ pc'[c] = "wait" /\ frame'[c] = frame[c]
          /\ outcome'[c] = outcome[c] /\ ~cancelled[c]
          /\ UNCHANGED <<cancelled, banned>>
      BY <1>0, <2>3, MovesAlone DEF Send, Live, Labels
    <3>2. Phase(c) = "admitted" /\ Phase(c)' = "admitted" /\ Result(c)' = Result(c)
      BY <3>1 DEF Phase, Result
    <3>3. PhaseMap' = PhaseMap /\ ResultMap' = ResultMap
      BY <3>1, <3>2, MapAlone DEF PhaseMap, ResultMap
    <3>4. /\ \A d \in Calls : d # c => sent'[d] = sent[d]
          /\ sent'[c]["main"] + sent'[c]["relogin"] = sent[c]["main"] + sent[c]["relogin"] + 1
      BY <1>0, <2>3 DEF Send, TypeOK, Frames
    <3>5. RequestsMap' = [RequestsMap EXCEPT ![c] = @ + 1]
      BY <3>4 DEF RequestsMap
    <3>6. RequestsMap[c] < RequestBudget
      <4>1. RequestsMap'[c] = RequestsMap[c] + 1
        BY <3>5 DEF RequestsMap
      <4>2. RequestsMap'[c] <= RequestBudget
        <5>1. Within'
          BY <1>0, WithinBudget, PTL
        <5>2. RequestBudget' = RequestBudget
          BY DEF RequestBudget, MaxRetries, MaxLongPolls
        <5> QED
          BY <5>1, <5>2 DEF Within
      <4>3. RequestsMap[c] \in Nat /\ RequestBudget \in Nat
        BY <1>0, WithinBudget DEF Within
      <4> QED
        BY <4>1, <4>2, <4>3
    <3>7. Promised!Request(c)
      BY <3>1, <3>2, <3>3, <3>5, <3>6, <1>p
      DEF Promised!Request, PhaseMap, ResultMap, RequestsMap
    <3> QED
      BY <3>7 DEF Promised!Next
  <2>4. CASE AbortLoop(c)
    <3>1. /\ Alone(c) /\ pc[c] \in {"loop", "sleep"} /\ pc'[c] = "done" /\ cancelled[c]
          /\ outcome'[c].err = "ctx"
          /\ UNCHANGED <<sent, cancelled, banned>>
      <4>1. Failure("ctx") \in Outcomes /\ Failure("ctx").err = "ctx"
        BY OutcomeTypes, OutcomeNames DEF Errors
      <4> QED
        BY <1>0, <2>4, <4>1, MovesAlone DEF AbortLoop, Finish, Labels
    <3>2. Phase(c) = "admitted"
      BY <3>1 DEF Phase
    <3>3. Promised!Return(c)
      BY <1>0, <3>1, <3>2, MapReturns
    <3> QED
      BY <3>3 DEF Promised!Next
  <2>5. CASE Wake(c)
    <3>1. Alone(c) /\ pc[c] = "sleep" /\ pc'[c] = "loop" /\ UNCHANGED <<sent, cancelled, banned>>
      BY <1>0, <2>5, MovesAlone DEF Wake, Labels
    <3>2. Phase(c)' = Phase(c)
      BY <3>1 DEF Phase
    <3> QED
      BY <3>1, <3>2, MapStutters
  <2>6. CASE Receive(c)
    BY <1>0, <1>1, <2>6, ReceiveAnswers
  <2>7. CASE TripBan(c)
    <3>1. /\ Alone(c) /\ pc[c] = "trip" /\ pc'[c] = "publish" /\ frame'[c] = frame[c]
          /\ outcome'[c] = outcome[c] /\ banned' = TRUE
          /\ UNCHANGED <<sent, cancelled>>
      BY <1>0, <2>7, MovesAlone DEF TripBan, Labels
    <3>2. Phase(c) = "admitted" /\ Phase(c)' = "admitted" /\ Result(c)' = Result(c)
      BY <3>1 DEF Phase, Result
    <3>3. PhaseMap' = PhaseMap /\ ResultMap' = ResultMap /\ RequestsMap' = RequestsMap
      BY <3>1, <3>2, MapAlone DEF PhaseMap, ResultMap, RequestsMap
    <3>4. PhaseMap[c] = "admitted" /\ RequestsMap[c] > 0
      BY <1>0, <1>n, <1>p, <3>1, <3>2 DEF Behind, Frames
    <3>5. Promised!Ban
      BY <3>1, <3>3, <3>4 DEF Promised!Ban, PhaseMap, ResultMap, RequestsMap
    <3> QED
      BY <3>5 DEF Promised!Next
  <2>8. CASE PublishReason(c)
    <3>1. /\ Alone(c) /\ pc[c] = "publish" /\ pc'[c] = "done" /\ outcome'[c] = outcome[c]
          /\ UNCHANGED <<sent, cancelled, banned>>
      BY <1>0, <2>8, MovesAlone DEF PublishReason, Labels
    <3>2. Phase(c) = "admitted" /\ RequestsMap[c] > 0
      BY <1>0, <1>n, <3>1 DEF Phase, Behind, Frames
    <3>3. outcome'[c].err = "banned" /\ banned
      BY <1>0, <3>1 DEF Behind, BanInv
    <3>4. Promised!Return(c)
      BY <1>0, <3>1, <3>2, <3>3, MapReturns
    <3> QED
      BY <3>4 DEF Promised!Next
  <2>9. CASE StoreCredentials(c)
    <3>1. /\ Alone(c) /\ pc[c] = "store" /\ UNCHANGED <<sent, cancelled, banned>>
          /\ \/ pc'[c] = "done" /\ outcome'[c].err = "nil"
             \/ pc'[c] = "loop"
      <4>1. Response("2xx") \in Outcomes /\ Response("2xx").err = "nil"
        BY OutcomeTypes, OutcomeNames DEF Statuses
      <4> QED
        BY <1>0, <2>9, <4>1, MovesAlone DEF StoreCredentials, Finish, Labels, Alone, TypeOK
    <3>2. Phase(c) = "admitted" /\ RequestsMap[c] > 0
      BY <1>0, <1>n, <3>1 DEF Phase, Behind, Frames
    <3>3. CASE pc'[c] = "done"
      <4>1. Promised!Return(c)
        BY <1>0, <3>1, <3>2, <3>3, MapReturns
      <4> QED
        BY <4>1 DEF Promised!Next
    <3>4. CASE pc'[c] = "loop"
      BY <3>1, <3>2, <3>4, MapStutters DEF Phase
    <3> QED
      BY <3>1, <3>3, <3>4
  <2>10. CASE WipeSession(c)
    <3>1. /\ Alone(c) /\ pc[c] = "wipe" /\ pc'[c] = "done" /\ outcome'[c] = outcome[c]
          /\ UNCHANGED <<sent, cancelled, banned>>
      BY <1>0, <2>10, MovesAlone DEF WipeSession, Labels
    <3>2. Phase(c) = "admitted" /\ RequestsMap[c] > 0 /\ outcome'[c].err = "nil"
      BY <1>0, <1>n, <3>1 DEF Phase, Behind, Frames
    <3>3. Promised!Return(c)
      BY <1>0, <3>1, <3>2, MapReturns
    <3> QED
      BY <3>3 DEF Promised!Next
  <2> QED
    BY <1>a, <2>1, <2>2, <2>3, <2>4, <2>5, <2>6, <2>7, <2>8, <2>9, <2>10 DEF Step
<1>b. ASSUME NEW c \in Calls, NEW k \in Kinds, Begin(c, k) PROVE [Promised!Next]_(Promised!vars)
  <2>1. /\ Alone(c) /\ pc[c] = "idle" /\ pc'[c] = "preflight" /\ frame'[c] = frame[c]
        /\ outcome'[c] = outcome[c] /\ frame[c] = "main"
        /\ UNCHANGED <<sent, cancelled, banned>>
    BY <1>0, <1>b, MovesAlone DEF Begin, Labels, LoopInv, Accounted
  <2>2. PhaseMap' = [PhaseMap EXCEPT ![c] = "asked"] /\ PhaseMap[c] = "idle"
    BY <1>p, <2>1, MapAlone DEF Phase
  <2>3. Result(c)' = Result(c)
    BY <2>1 DEF Result
  <2>4. ResultMap' = ResultMap
    BY <2>1, <2>3, MapAlone DEF ResultMap
  <2>5. RequestsMap' = RequestsMap
    BY <2>1 DEF RequestsMap
  <2>6. Promised!Ask(c)
    BY <2>1, <2>2, <2>4, <2>5 DEF Promised!Ask, Promised!Enter, PhaseMap, ResultMap, RequestsMap
  <2> QED
    BY <2>6 DEF Promised!Next
<1>c. ASSUME NEW c \in Calls, CancelContext(c) PROVE [Promised!Next]_(Promised!vars)
  <2>1. PhaseMap' = PhaseMap /\ ResultMap' = ResultMap /\ RequestsMap' = RequestsMap
    BY <1>c DEF CancelContext, PhaseMap, ResultMap, RequestsMap, Phase, Result
  <2>2. PhaseMap[c] # "over"
    BY <1>c, <1>p DEF CancelContext, Phase
  <2>3. Promised!Stop(c)
    BY <1>c, <2>1, <2>2 DEF CancelContext, Promised!Stop, PhaseMap, ResultMap, RequestsMap
  <2> QED
    BY <2>3 DEF Promised!Next
<1>d. CASE CallerCredentials \/ UNCHANGED vars
  <2>1. PhaseMap' = PhaseMap /\ ResultMap' = ResultMap /\ RequestsMap' = RequestsMap
    BY <1>d DEF CallerCredentials, vars, PhaseMap, ResultMap, RequestsMap, Phase, Result
  <2> QED
    BY <1>d, <2>1 DEF CallerCredentials, vars, Promised!vars, PhaseMap, ResultMap, RequestsMap
<1> QED
  BY <1>a, <1>b, <1>c, <1>d DEF Next

(* The retry loop implements RequestPromise, for any calls, options and     *)
(* answers: nothing is sent for a call that came after the ban or whose     *)
(* context is done, no call passes its budget, and ErrBanned is not         *)
(* returned while the client would still let a call in.                     *)
THEOREM LoopKeepsPromise == Spec => KeepsPromise
<1>1. Init => Promised!Init /\ PromiseInv
  <2> SUFFICES ASSUME Init PROVE Promised!Init /\ PromiseInv
    OBVIOUS
  <2>1. Promised!Init
    BY DEF Init, Promised!Init, Phase, Result, Frames
  <2>2. PromiseInv
    BY LoopInit DEF Init, PromiseInv, Behind, Busy
  <2> QED
    BY <2>1, <2>2
<1>2. PromiseInv /\ [Next]_vars => PromiseInv'
  BY TypesStep, AccountedStep, BanStep, BehindStep DEF PromiseInv, LoopInv
<1>3. PromiseInv /\ PromiseInv' /\ [Next]_vars => [Promised!Next]_(Promised!vars)
  BY PromiseStep
<1> QED
  BY <1>1, <1>2, <1>3, PTL DEF Spec, KeepsPromise, Promised!Spec

-----------------------------------------------------------------------------
(* Every call runs out of steps                                             *)

MostPolls == Longest(MaxLongPolls, HintMaxLongPolls)

(* The steps a call has ahead of it before it spends a budget or ends.      *)
Ahead ==
  [l \in Labels |->
     CASE l = "idle" -> 7
       [] l \in {"preflight", "sleep"} -> 6
       [] l = "loop" -> 5
       [] l = "wait" -> 4
       [] l = "trip" -> 2
       [] l \in {"refused", "publish", "store", "wipe"} -> 1
       [] l = "done" -> 0]

(* What is left of the budgets of c: error retries of both its loops, and   *)
(* long polls.                                                              *)
Unspent(c) ==
  (MaxRetries - errAttempt[c]["main"]) + (MaxRetries - errAttempt[c]["relogin"])
    + (MostPolls + 1 - longPollSeen[c])

(* The nested Login, before, during and after it.                           *)
Detour(c) ==
  IF frame[c] = "relogin" THEN 6 ELSE IF relogged[c] THEN 0 ELSE 9

(* The measure: no call takes more steps of its own than this.              *)
Fuel(c) ==
  IF pc[c] = "done" THEN 0 ELSE Ahead[pc[c]] + 4 * Unspent(c) + Detour(c)

MostSteps == 8 * MaxRetries + 4 * MostPolls + 20

(* A call that moves burns fuel, and one that does not keeps its own.       *)
Burns(c) == pc'[c] # pc[c] /\ Fuel(c)' < Fuel(c)
Rests(c) == pc'[c] = pc[c] /\ Fuel(c)' = Fuel(c)

(* The budgets of a call are never overdrawn.                               *)
LEMMA UnspentType ==
  ASSUME TypeOK, NEW c \in Calls
  PROVE  Unspent(c) \in 0 .. 2 * MaxRetries + MostPolls + 1
<1>1. MostPolls \in Nat /\ EffectiveMaxLongPolls(c) <= MostPolls
  BY OptionsAssumption, OptionTypes DEF MostPolls, Longest, EffectiveMaxLongPolls
<1>2. /\ errAttempt[c]["main"] \in 0 .. MaxRetries
      /\ errAttempt[c]["relogin"] \in 0 .. MaxRetries
      /\ longPollSeen[c] \in Nat
      /\ longPollSeen[c] <= EffectiveMaxLongPolls(c) + 1
  BY DEF TypeOK, Frames
<1> QED
  BY <1>1, <1>2, OptionTypes, CapType DEF Unspent

(* The labels are a few steps from the next budget.                         *)
LEMMA AheadType == \A l \in Labels : Ahead[l] \in 0 .. 7 /\ (l # "done" => Ahead[l] > 0)
BY DEF Ahead, Labels

(* The measure is a number, bounded by the options alone.                   *)
LEMMA FuelType ==
  ASSUME TypeOK, NEW c \in Calls
  PROVE  Fuel(c) \in 0 .. MostSteps /\ (Fuel(c) = 0 <=> pc[c] = "done")
<1>1. Detour(c) \in 0 .. 9 /\ pc[c] \in Labels
  BY DEF Detour, TypeOK
<1>2. MostPolls \in Nat
  BY OptionsAssumption, OptionTypes DEF MostPolls, Longest
<1>3. Ahead[pc[c]] \in 0 .. 7 /\ (pc[c] # "done" => Ahead[pc[c]] > 0)
  BY <1>1, AheadType
<1>4. Unspent(c) \in 0 .. 2 * MaxRetries + MostPolls + 1
  BY UnspentType
<1>5. MaxRetries \in Nat
  BY OptionTypes
<1>6. CASE pc[c] = "done"
  BY <1>2, <1>5, <1>6 DEF Fuel, MostSteps
<1>7. CASE pc[c] # "done"
  <2>1. Fuel(c) = Ahead[pc[c]] + 4 * Unspent(c) + Detour(c)
    BY <1>7 DEF Fuel
  <2>2. Fuel(c) > 0
    BY <1>1, <1>2, <1>3, <1>4, <1>5, <1>7, <2>1
  <2>3. Fuel(c) \in 0 .. MostSteps
    BY <1>1, <1>2, <1>3, <1>4, <1>5, <2>1 DEF MostSteps
  <2> QED
    BY <1>7, <2>2, <2>3
<1> QED
  BY <1>6, <1>7

(* A call nothing touches keeps its fuel.                                   *)
LEMMA FuelKept ==
  ASSUME NEW c \in Calls, pc'[c] = pc[c], frame'[c] = frame[c],
         UNCHANGED <<errAttempt[c], longPollSeen[c], relogged[c]>>
  PROVE  Rests(c)
BY DEF Rests, Fuel, Unspent, Detour

(* The three ways to burn it: to go on towards the next budget or the end,  *)
(* to pay for another request, and to return.                               *)
LEMMA FuelMoves ==
  ASSUME TypeOK, TypeOK', NEW c \in Calls, pc[c] # "done", pc'[c] # pc[c],
         \/ pc'[c] = "done"
         \/ /\ Ahead[pc'[c]] < Ahead[pc[c]]
            /\ UNCHANGED <<frame[c], errAttempt[c], longPollSeen[c], relogged[c]>>
         \/ /\ pc[c] = "wait" /\ pc'[c] = "sleep"
            /\ UNCHANGED <<frame[c], relogged[c]>>
            /\ Unspent(c)' = Unspent(c) - 1
         \/ /\ Ahead[pc'[c]] + Detour(c)' < Ahead[pc[c]] + Detour(c)
            /\ UNCHANGED <<errAttempt[c], longPollSeen[c]>>
  PROVE  Burns(c)
<1>1. /\ pc[c] \in Labels /\ pc'[c] \in Labels
      /\ Detour(c) \in 0 .. 9 /\ Detour(c)' \in 0 .. 9
  BY DEF TypeOK, Detour
<1>2. /\ Unspent(c) \in Nat /\ Unspent(c)' \in Nat
      /\ Ahead[pc[c]] \in Nat /\ Ahead[pc[c]] > 0 /\ Ahead[pc'[c]] \in Nat
  <2>1. Unspent(c) \in Nat /\ MaxRetries \in Nat /\ MostPolls \in Nat
    BY UnspentType, OptionsAssumption, OptionTypes DEF MostPolls, Longest
  <2>2. Unspent(c)' \in Nat
    <3>1. /\ errAttempt'[c]["main"] \in 0 .. MaxRetries
          /\ errAttempt'[c]["relogin"] \in 0 .. MaxRetries
          /\ longPollSeen'[c] \in Nat
          /\ longPollSeen'[c] <= EffectiveMaxLongPolls(c)' + 1
      BY DEF TypeOK, Frames
    <3>2. EffectiveMaxLongPolls(c)' \in Nat /\ EffectiveMaxLongPolls(c)' <= MostPolls
      BY OptionsAssumption, OptionTypes DEF MostPolls, Longest, EffectiveMaxLongPolls
    <3> QED
      BY <2>1, <3>1, <3>2 DEF Unspent
  <2> QED
    BY <1>1, <2>1, <2>2, AheadType
<1>3. CASE pc'[c] = "done"
  BY <1>1, <1>2, <1>3 DEF Burns, Fuel
<1>4. CASE /\ Ahead[pc'[c]] < Ahead[pc[c]]
           /\ UNCHANGED <<frame[c], errAttempt[c], longPollSeen[c], relogged[c]>>
  <2>1. Unspent(c)' = Unspent(c) /\ Detour(c)' = Detour(c)
    BY <1>4 DEF Unspent, Detour
  <2> QED
    BY <1>1, <1>2, <1>4, <2>1 DEF Burns, Fuel
<1>5. CASE /\ pc[c] = "wait" /\ pc'[c] = "sleep"
           /\ UNCHANGED <<frame[c], relogged[c]>>
           /\ Unspent(c)' = Unspent(c) - 1
  <2>1. Ahead["wait"] = 4 /\ Ahead["sleep"] = 6 /\ Detour(c)' = Detour(c)
    BY <1>5 DEF Ahead, Labels, Detour
  <2> QED
    BY <1>1, <1>2, <1>5, <2>1 DEF Burns, Fuel
<1>6. CASE /\ Ahead[pc'[c]] + Detour(c)' < Ahead[pc[c]] + Detour(c)
           /\ UNCHANGED <<errAttempt[c], longPollSeen[c]>>
  <2>1. Unspent(c)' = Unspent(c)
    BY <1>6 DEF Unspent
  <2> QED
    BY <1>1, <1>2, <1>6, <2>1 DEF Burns, Fuel
<1> QED
  BY <1>3, <1>4, <1>5, <1>6

(* A step of a call burns fuel of that call and of no other.                *)
LEMMA StepBurns ==
  ASSUME TypeOK, TypeOK', NEW c \in Calls, Step(c)
  PROVE  Burns(c) /\ \A d \in Calls \ {c} : Rests(d)
<1> USE DEF state, shared, history
<1> DEFINE Steady(d) == UNCHANGED <<frame[d], errAttempt[d], longPollSeen[d], relogged[d]>>
           Moves(l) == pc'[c] = l /\ Steady(c) /\ \A d \in Calls \ {c} : pc'[d] = pc[d] /\ Steady(d)
<1>0. /\ Ahead["preflight"] = 6 /\ Ahead["sleep"] = 6 /\ Ahead["loop"] = 5 /\ Ahead["wait"] = 4
      /\ Ahead["trip"] = 2 /\ Ahead["refused"] = 1 /\ Ahead["publish"] = 1
      /\ Ahead["store"] = 1 /\ Ahead["wipe"] = 1 /\ Ahead["done"] = 0
  BY DEF Ahead, Labels
<1>1. ASSUME NEW l \in Labels, Moves(l), pc[c] # "done", Ahead[l] < Ahead[pc[c]]
      PROVE  Burns(c) /\ \A d \in Calls \ {c} : Rests(d)
  <2>1. pc'[c] # pc[c] /\ Ahead[pc'[c]] < Ahead[pc[c]]
    <3>1. Ahead[l] \in Nat /\ Ahead[pc[c]] \in Nat
      <4>1. pc[c] \in Labels
        BY DEF TypeOK
      <4> QED
        BY <4>1, AheadType
    <3> QED
      BY <1>1, <3>1
  <2>2. Burns(c)
    BY <1>1, <2>1, FuelMoves
  <2>3. \A d \in Calls \ {c} : Rests(d)
    BY <1>1, FuelKept
  <2> QED
    BY <2>2, <2>3
<1>2. \A l \in Labels : GoTo(c, l) /\ UNCHANGED state => Moves(l)
  BY DEF GoTo, TypeOK
<1>3. \A l \in Labels, o \in Outcomes : GoToWith(c, l, o) /\ UNCHANGED state => Moves(l)
  BY DEF GoToWith, TypeOK
<1>4. \A o : Finish(c, o) /\ UNCHANGED state => Moves("done")
  BY DEF Finish, GoToWith, TypeOK
<1>5. \A s : Deliver(c, s) /\ UNCHANGED state => \E l \in {"store", "wipe", "done"} : Moves(l)
  BY DEF Deliver, Finish, GoTo, GoToWith, TypeOK
<1>6. ASSUME RetryError(c), MayRetry(c), pc[c] = "wait"
      PROVE  Burns(c) /\ \A d \in Calls \ {c} : Rests(d)
  <2>1. pc'[c] = "sleep" /\ UNCHANGED <<frame[c], longPollSeen[c], relogged[c]>>
    BY <1>6 DEF RetryError, GoTo, TypeOK
  <2>2. /\ frame[c] \in Frames /\ errAttempt[c] \in [Frames -> 0 .. MaxRetries]
        /\ longPollSeen[c] \in Nat /\ MaxRetries \in Nat /\ MostPolls \in Nat
    BY OptionsAssumption, OptionTypes DEF TypeOK, MostPolls, Longest
  <2>3. errAttempt'[c] = [errAttempt[c] EXCEPT ![frame[c]] = @ + 1]
    BY <1>6 DEF RetryError, TypeOK
  <2>4. Unspent(c)' = Unspent(c) - 1
    <3>1. CASE frame[c] = "main"
      BY <2>1, <2>2, <2>3, <3>1 DEF Unspent, Frames
    <3>2. CASE frame[c] = "relogin"
      BY <2>1, <2>2, <2>3, <3>2 DEF Unspent, Frames
    <3> QED
      BY <2>2, <3>1, <3>2 DEF Frames
  <2>5. Burns(c)
    BY <1>6, <2>1, <2>4, FuelMoves
  <2>6. \A d \in Calls \ {c} : pc'[d] = pc[d] /\ Steady(d)
    BY <1>6 DEF RetryError, GoTo, TypeOK
  <2>7. \A d \in Calls \ {c} : Rests(d)
    BY <2>6, FuelKept
  <2> QED
    BY <2>5, <2>7
<1>7. CASE Preflight(c)
  <2>1. Moves("loop") \/ Moves("refused")
    BY <1>2, <1>7 DEF Preflight, Labels
  <2> QED
    BY <1>0, <1>1, <1>7, <2>1 DEF Preflight, Labels
<1>8. CASE Refuse(c)
  <2>1. Moves("done")
    BY <1>4, <1>8 DEF Refuse
  <2> QED
    BY <1>0, <1>1, <1>8, <2>1 DEF Refuse, Labels
<1>9. CASE Send(c)
  <2>1. Moves("wait")
    BY <1>2, <1>9 DEF Send, Labels
  <2> QED
    BY <1>0, <1>1, <1>9, <2>1 DEF Send, Labels
<1>10. CASE AbortLoop(c)
  <2>1. Moves("done")
    BY <1>4, <1>10 DEF AbortLoop
  <2> QED
    BY <1>0, <1>1, <1>10, <2>1 DEF AbortLoop, Labels
<1>11. CASE Wake(c)
  <2>1. Moves("loop")
    BY <1>2, <1>11 DEF Wake, Labels
  <2> QED
    BY <1>0, <1>1, <1>11, <2>1 DEF Wake, Labels
<1>12. ASSUME NEW e, Transient(c, e) PROVE Burns(c) /\ \A d \in Calls \ {c} : Rests(d)
  <2>1. CASE MayRetry(c) /\ RetryError(c)
    BY <1>6, <1>12, <2>1 DEF Transient
  <2>2. CASE Finish(c, Failure(e)) /\ UNCHANGED state
    <3>1. Moves("done")
      BY <1>4, <2>2
    <3> QED
      BY <1>0, <1>1, <1>12, <3>1 DEF Transient, Labels
  <2> QED
    BY <1>12, <2>1, <2>2 DEF Transient
<1>13. CASE LongPollTick(c)
  <2>1. /\ pc[c] = "wait"
        /\ \A d \in Calls \ {c} : pc'[d] = pc[d] /\ Steady(d)
        /\ UNCHANGED <<frame[c], errAttempt[c], relogged[c]>>
        /\ longPollSeen'[c] = longPollSeen[c] + 1
        /\ pc'[c] \in {"done", "sleep"}
    BY <1>13 DEF LongPollTick, LongPollSeen, Finish, GoTo, GoToWith, TypeOK
  <2>2. Unspent(c)' = Unspent(c) - 1
    <3>1. /\ errAttempt[c] \in [Frames -> 0 .. MaxRetries]
          /\ longPollSeen[c] \in Nat /\ MaxRetries \in Nat /\ MostPolls \in Nat
      BY OptionsAssumption, OptionTypes DEF TypeOK, MostPolls, Longest
    <3> QED
      BY <2>1, <3>1 DEF Unspent, Frames
  <2>3. Burns(c)
    BY <2>1, <2>2, FuelMoves
  <2>4. \A d \in Calls \ {c} : Rests(d)
    BY <2>1, FuelKept
  <2> QED
    BY <2>3, <2>4
<1>14. CASE Success(c) \/ Accepted(c) \/ Rejected(c)
  <2>1. pc[c] = "wait" /\ \E s : Deliver(c, s) /\ UNCHANGED state
    BY <1>14 DEF Success, Accepted, Rejected
  <2>2. \E l \in {"store", "wipe", "done"} : Moves(l)
    BY <1>5, <2>1
  <2> QED
    BY <1>0, <1>1, <2>1, <2>2 DEF Labels
<1>15. CASE Unauthorized(c)
  <2>1. CASE \E e : Finish(c, Failure(e))
    <3>1. Moves("done")
      BY <1>4, <1>15, <2>1 DEF Unauthorized
    <3> QED
      BY <1>0, <1>1, <1>15, <3>1 DEF Unauthorized, Labels
  <2>2. CASE /\ MayRelogin(c)
             /\ pc' = [pc EXCEPT ![c] = "preflight"]
             /\ frame' = [frame EXCEPT ![c] = "relogin"]
    <3>1. /\ pc[c] = "wait" /\ pc'[c] = "preflight" /\ frame[c] = "main" /\ frame'[c] = "relogin"
          /\ ~relogged[c]
          /\ UNCHANGED <<errAttempt[c], longPollSeen[c]>>
      BY <1>15, <2>2 DEF Unauthorized, MayRelogin, NoAutoRelogin, Kind, TypeOK, Frames
    <3>2. Detour(c) = 9 /\ Detour(c)' = 6
      BY <3>1 DEF Detour
    <3>3. Burns(c)
      BY <1>0, <3>1, <3>2, FuelMoves
    <3>4. \A d \in Calls \ {c} : pc'[d] = pc[d] /\ Steady(d)
      BY <1>15, <2>2 DEF Unauthorized, TypeOK
    <3>5. \A d \in Calls \ {c} : Rests(d)
      BY <3>4, FuelKept
    <3> QED
      BY <3>3, <3>5
  <2> QED
    BY <1>15, <2>1, <2>2 DEF Unauthorized
<1>16. CASE NotVerified(c) \/ PermissionDenied(c) \/ ClientError(c)
  <2>1. pc[c] = "wait" /\ \E o : Finish(c, o) /\ UNCHANGED state
    BY <1>16 DEF NotVerified, PermissionDenied, ClientError
  <2>2. Moves("done")
    BY <1>4, <2>1
  <2> QED
    BY <1>0, <1>1, <2>1, <2>2 DEF Labels
<1>17. CASE Forbidden(c)
  <2>1. CASE \E o : GoToWith(c, "trip", o) /\ UNCHANGED state
    <3>1. Moves("trip")
      BY <2>1 DEF GoToWith, TypeOK
    <3> QED
      BY <1>0, <1>1, <1>17, <3>1 DEF Forbidden, Labels
  <2>2. CASE MayRetry(c) /\ RetryError(c)
    BY <1>6, <1>17, <2>2 DEF Forbidden
  <2>3. CASE Deliver(c, "403") /\ UNCHANGED state
    <3>1. \E l \in {"store", "wipe", "done"} : Moves(l)
      BY <1>5, <2>3
    <3> QED
      BY <1>0, <1>1, <1>17, <3>1 DEF Forbidden, Labels
  <2> QED
    BY <1>17, <2>1, <2>2, <2>3 DEF Forbidden
<1>18. CASE TripBan(c)
  <2>1. Moves("publish")
    BY <1>2, <1>18 DEF TripBan, Labels
  <2> QED
    BY <1>0, <1>1, <1>18, <2>1 DEF TripBan, Labels
<1>19. CASE PublishReason(c) \/ WipeSession(c)
  <2>1. pc[c] \in {"publish", "wipe"} /\ Moves("done")
    BY <1>2, <1>19 DEF PublishReason, WipeSession, Labels
  <2> QED
    BY <1>0, <1>1, <2>1 DEF Labels
<1>20. CASE StoreCredentials(c)
  <2>1. CASE \E o : Finish(c, o) /\ UNCHANGED relogged
    <3>1. Moves("done")
      BY <1>4, <1>20, <2>1 DEF StoreCredentials
    <3> QED
      BY <1>0, <1>1, <1>20, <3>1 DEF StoreCredentials, Labels
  <2>2. CASE /\ frame[c] = "relogin"
             /\ frame' = [frame EXCEPT ![c] = "main"]
             /\ relogged' = [relogged EXCEPT ![c] = TRUE]
             /\ pc' = [pc EXCEPT ![c] = "loop"]
    <3>1. /\ pc[c] = "store" /\ pc'[c] = "loop" /\ frame'[c] = "main" /\ relogged'[c]
          /\ UNCHANGED <<errAttempt[c], longPollSeen[c]>>
      BY <1>20, <2>2 DEF StoreCredentials, TypeOK
    <3>2. Detour(c) = 6 /\ Detour(c)' = 0
      BY <2>2, <3>1 DEF Detour
    <3>3. Burns(c)
      BY <1>0, <3>1, <3>2, FuelMoves
    <3>4. \A d \in Calls \ {c} : pc'[d] = pc[d] /\ Steady(d)
      BY <1>20, <2>2 DEF StoreCredentials, TypeOK
    <3>5. \A d \in Calls \ {c} : Rests(d)
      BY <3>4, FuelKept
    <3> QED
      BY <3>3, <3>5
  <2> QED
    BY <1>20, <2>1, <2>2 DEF StoreCredentials
<1> QED
  BY <1>7, <1>8, <1>9, <1>10, <1>11, <1>12, <1>13, <1>14, <1>15, <1>16, <1>17, <1>18, <1>19, <1>20
  DEF Step, Receive, NetworkError, RateLimited, ServerError

(* A call begins with more fuel than it has anywhere else.                  *)
LEMMA BeginBurns ==
  ASSUME TypeOK, TypeOK', NEW c \in Calls, NEW k \in Kinds, Begin(c, k)
  PROVE  Burns(c) /\ \A d \in Calls \ {c} : Rests(d)
<1>1. /\ pc[c] = "idle" /\ pc'[c] = "preflight"
      /\ \A d \in Calls : UNCHANGED <<frame[d], errAttempt[d], longPollSeen[d], relogged[d]>>
      /\ \A d \in Calls \ {c} : pc'[d] = pc[d]
  BY DEF Begin, GoTo, TypeOK, state
<1>2. Ahead["idle"] = 7 /\ Ahead["preflight"] = 6
  BY DEF Ahead, Labels
<1>3. Burns(c)
  BY <1>1, <1>2, FuelMoves
<1>4. \A d \in Calls \ {c} : Rests(d)
  BY <1>1, FuelKept
<1> QED
  BY <1>3, <1>4

(* What every step of do may do to the fuel of the calls.                   *)
OnlyBurns ==
  \A c \in Calls :
    /\ Burns(c) \/ Rests(c)
    /\ Step(c) => Burns(c)

(* No sequence of answers, cancellations and steps of other calls keeps a   *)
(* call going: every step a call takes lowers a measure that only the       *)
(* options bound, no other step touches it, and it is spent exactly when    *)
(* the call is done.  So no call takes more than MostSteps steps.           *)
THEOREM CallsRunOut ==
  Spec => /\ [](\A c \in Calls : Fuel(c) \in 0 .. MostSteps /\ (Fuel(c) = 0 <=> pc[c] = "done"))
          /\ [][OnlyBurns]_vars
<1>1. LoopInv => \A c \in Calls : Fuel(c) \in 0 .. MostSteps /\ (Fuel(c) = 0 <=> pc[c] = "done")
  BY FuelType DEF LoopInv
<1>2. LoopInv /\ LoopInv' /\ [Next]_vars => [OnlyBurns]_vars
  <2> SUFFICES ASSUME LoopInv, LoopInv', Next, NEW c \in Calls
               PROVE  (Burns(c) \/ Rests(c)) /\ (Step(c) => Burns(c))
    BY DEF OnlyBurns
  <2>1. TypeOK /\ TypeOK'
    BY DEF LoopInv
  <2>2. Step(c) => Burns(c)
    BY <2>1, StepBurns
  <2>3. ASSUME NEW d \in Calls, Step(d) \/ \E k \in Kinds : Begin(d, k) PROVE Burns(c) \/ Rests(c)
    BY <2>1, <2>3, StepBurns, BeginBurns
  <2>4. ASSUME NEW d \in Calls, CancelContext(d) PROVE Rests(c)
    BY <2>4, FuelKept DEF CancelContext, state
  <2>5. ASSUME CallerCredentials PROVE Rests(c)
    BY <2>5, FuelKept DEF CallerCredentials, state
  <2> QED
    BY <2>2, <2>3, <2>4, <2>5 DEF Next
<1> QED
  BY <1>1, <1>2, LoopInvariant, PTL DEF Spec

=============================================================================
