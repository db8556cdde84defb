-------------------------- MODULE SimBudgetProofs --------------------------
(***************************************************************************)
(* Proofs about SimBudget, for any number of calls, batch sizes, budgets,  *)
(* slots and days: the types, the count of the semaphore, the bound on     *)
(* what the rollover race can add to a day's budget, and the account of    *)
(* the units that are counted, admitted and carried out.                   *)
(***************************************************************************)
EXTENDS SimBudget, FiniteSetTheorems, TLAPS

(* MaxConcurrentSims after NewClient's defaulting.                          *)
LEMMA SlotLimit ==
  /\ MaxConcurrentSims \in Nat
  /\ MaxConcurrentSims' = MaxConcurrentSims
  /\ Limit \in [Quotas -> Nat]
BY BudgetAssumption DEF MaxConcurrentSims, Limit

-----------------------------------------------------------------------------
(* The inductive invariants                                                 *)

(* A call at the lock has read a day, and only a simulation wants a slot.   *)
Placed ==
  \A d \in Calls : /\ pc[d] = "budget" => today[d] \in Days
                   /\ pc[d] = "slot" => op[d].quota = "sim"

BudgetInv == TypeOK /\ Placed /\ SlotsMatchCalls

(* What a further budget for each turned-back reset leaves for day t: the   *)
(* days after the counters' own have spent at most as many budgets as there *)
(* were such resets, the counters' own day its current count on top, an     *)
(* earlier day one whole budget on top.                                     *)
Granted(t, q) ==
  admitted[t][q] <=
    Limit[q] * late + (IF t > budgetDay THEN 0
                       ELSE IF t = budgetDay THEN used[q] ELSE Limit[q])

OverrunInv ==
  \A p \in Quotas : Limit[p] > 0 => used[p] <= Limit[p] /\ \A s \in Days : Granted(s, p)

-----------------------------------------------------------------------------
(* Slots                                                                    *)

(* InFlight is finite, so that counting it means something.                 *)
LEMMA InFlightFinite == IsFiniteSet(InFlight) /\ IsFiniteSet(InFlight')
BY BudgetAssumption, FS_Subset DEF InFlight

(* A step that gives a call a slot counts one more.                         *)
LEMMA SlotTaken ==
  ASSUME NEW c \in Calls, c \notin InFlight, InFlight' = InFlight \cup {c}
  PROVE  Cardinality(InFlight') = Cardinality(InFlight) + 1
BY InFlightFinite, FS_AddElement

(* A step that takes the slot of c away counts one less.                    *)
LEMMA SlotGiven ==
  ASSUME NEW c \in Calls, c \in InFlight, InFlight' = InFlight \ {c}
  PROVE  /\ Cardinality(InFlight') = Cardinality(InFlight) - 1
         /\ Cardinality(InFlight) > 0
<1>1. Cardinality(InFlight') = Cardinality(InFlight) - 1
  BY InFlightFinite, FS_RemoveElement
<1>2. Cardinality(InFlight) \in Nat /\ Cardinality(InFlight') \in Nat
  BY InFlightFinite, FS_CardinalityType
<1> QED
  BY <1>1, <1>2

(* A call that moves outside the semaphore moves no slot.                   *)
LEMMA SlotsKept ==
  ASSUME BudgetInv, slots' = slots, InFlight' = InFlight
  PROVE  SlotsMatchCalls'
BY SlotLimit DEF BudgetInv, SlotsMatchCalls

(* Nothing was taken before the first call.                                 *)
LEMMA BudgetInit == Init => BudgetInv
<1> SUFFICES ASSUME Init PROVE BudgetInv
  OBVIOUS
<1>1. TypeOK
  BY BudgetAssumption, SlotLimit DEF Init, TypeOK, Days, Quotas
<1>2. Placed
  BY DEF Init, Placed
<1>3. InFlight = {}
  BY DEF Init, InFlight
<1>4. SlotsMatchCalls
  BY <1>3, FS_EmptySet, SlotLimit DEF Init, SlotsMatchCalls
<1> QED
  BY <1>1, <1>2, <1>4 DEF BudgetInv


(* What the locked section leaves in the counters is a natural number.      *)
LEMMA CountTypes ==
  ASSUME TypeOK, NEW c \in Calls
  PROVE  /\ Count(c) \in [Quotas -> Nat]
         /\ \A n \in Nat : CountAfter(c, n) \in [Quotas -> Nat]
<1>1. Count(c) \in [Quotas -> Nat]
  BY DEF Count, TypeOK
<1>2. op[c].quota \in Quotas
  BY DEF TypeOK
<1> QED
  BY <1>1, <1>2 DEF CountAfter

(* What checkBudget lets the call take of quota q.                          *)
Taken(c, q) ==
  IF op[c].quota = q /\ ~Overruns(Limit[q], Count(c)[q], op[c].n) THEN op[c].n ELSE 0

(* The locked section adds what it lets the call take to the counter and to *)
(* the day's account, and nothing to the rest.                              *)
LEMMA CheckTakes ==
  ASSUME BudgetInv, NEW c \in Calls, CheckBudget(c), NEW q \in Quotas
  PROVE  /\ used'[q] = Count(c)[q] + Taken(c, q)
         /\ \A t \in Days :
              admitted'[t][q] = admitted[t][q] + IF t = today[c] THEN Taken(c, q) ELSE 0
         /\ Taken(c, q) \in Nat /\ Count(c)[q] \in Nat
<1> DEFINE mine == op[c].quota
<1>1. mine \in Quotas /\ op[c].n \in Nat /\ Count(c)[q] \in Nat
  BY CountTypes DEF BudgetInv, TypeOK
<1>2. pc[c] = "budget" /\ today[c] \in Days
  <2>1. pc[c] = "budget"
    BY DEF CheckBudget
  <2> QED
    BY <2>1 DEF BudgetInv, Placed
<1>3. used'[q] = Count(c)[q] + Taken(c, q)
  <2>1. used' = CountAfter(c, op[c].n)
    BY DEF CheckBudget
  <2>2. Count(c) \in [Quotas -> Nat]
    BY CountTypes DEF BudgetInv
  <2>3. CASE mine = q
    BY <1>1, <2>1, <2>2, <2>3 DEF CountAfter, Taken
  <2>4. CASE mine # q
    BY <1>1, <2>1, <2>2, <2>4 DEF CountAfter, Taken
  <2> QED
    BY <2>3, <2>4
<1>4. ASSUME NEW t \in Days
      PROVE  admitted'[t][q] = admitted[t][q] + IF t = today[c] THEN Taken(c, q) ELSE 0
  <2>1. admitted' = [admitted EXCEPT ![today[c]][mine] =
                       @ + IF Overruns(Limit[mine], Count(c)[mine], op[c].n) THEN 0 ELSE op[c].n]
    BY DEF CheckBudget
  <2>2. admitted \in [Days -> [Quotas -> Nat]]
    BY DEF BudgetInv, TypeOK
  <2>3. CASE mine = q
    BY <1>1, <1>2, <2>1, <2>2, <2>3 DEF Taken
  <2>4. CASE mine # q
    BY <1>1, <1>2, <2>1, <2>2, <2>4 DEF Taken
  <2> QED
    BY <2>3, <2>4
<1> QED
  BY <1>1, <1>3, <1>4 DEF Taken

(* Types and slots survive the critical section of checkBudget.             *)
LEMMA BudgetStepCheck ==
  ASSUME BudgetInv, NEW c \in Calls, CheckBudget(c)
  PROVE  BudgetInv'
<1> DEFINE q == op[c].quota
           n == op[c].n
           refused == Overruns(Limit[q], Count(c)[q], n)
<1>1. pc[c] = "budget" /\ q \in Quotas /\ n \in Nat /\ today[c] \in Days
  <2>1. pc[c] = "budget"
    BY DEF CheckBudget
  <2> QED
    BY <2>1 DEF BudgetInv, TypeOK, Placed
<1>2. PICK l \in {"done", "slot", "post"} :
        /\ pc' = [pc EXCEPT ![c] = l]
        /\ l = "post" => q # "sim"
        /\ l = "slot" => q = "sim"
  BY DEF CheckBudget, Return, GoTo
<1>3. result' \in [Calls -> {"none", "invalid", "budget", "ctx", "refused", "ok", "location", "error"}]
  BY DEF CheckBudget, Return, GoTo, BudgetInv, TypeOK
<1>4. used' \in [Quotas -> Nat]
  BY <1>1, CountTypes DEF CheckBudget, BudgetInv
<1>5. admitted' \in [Days -> [Quotas -> Nat]]
  <2>1. admitted' = [admitted EXCEPT ![today[c]][q] = @ + IF refused THEN 0 ELSE n]
    BY DEF CheckBudget
  <2>2. admitted[today[c]][q] + (IF refused THEN 0 ELSE n) \in Nat
    BY <1>1 DEF BudgetInv, TypeOK
  <2> QED
    BY <1>1, <2>1, <2>2 DEF BudgetInv, TypeOK
<1>6. late' \in Nat /\ budgetDay' \in Days \cup {0} /\ charged' \subseteq Calls
  BY <1>1 DEF CheckBudget, BudgetInv, TypeOK
<1>7. TypeOK'
  BY <1>2, <1>3, <1>4, <1>5, <1>6 DEF CheckBudget, BudgetInv, TypeOK
<1>8. Placed'
  BY <1>2 DEF CheckBudget, BudgetInv, Placed, TypeOK
<1>9. InFlight' = InFlight
  BY <1>1, <1>2 DEF CheckBudget, InFlight, BudgetInv, TypeOK
<1>10. SlotsMatchCalls'
  BY <1>9, SlotsKept DEF CheckBudget
<1> QED
  BY <1>7, <1>8, <1>10 DEF BudgetInv

(* A return from the POST gives back the call's slot, if it has one.        *)
LEMMA SlotReleased ==
  ASSUME BudgetInv, NEW c \in Calls, pc[c] = "post",
         pc' = [pc EXCEPT ![c] = "done"], op' = op, slots' = Released(c)
  PROVE  /\ slots' \in 0 .. MaxConcurrentSims
         /\ SlotsMatchCalls'
<1>1. CASE op[c].quota = "sim"
  <2>1. c \in InFlight /\ InFlight' = InFlight \ {c}
    BY <1>1 DEF InFlight, BudgetInv, TypeOK
  <2>2. slots' = slots - 1
    BY <1>1 DEF Released
  <2>3. /\ Cardinality(InFlight') = Cardinality(InFlight) - 1
        /\ Cardinality(InFlight) > 0
    BY <2>1, SlotGiven
  <2>4. slots = Cardinality(InFlight) /\ slots \in 0 .. MaxConcurrentSims
    BY DEF BudgetInv, TypeOK, SlotsMatchCalls
  <2>5. slots' \in 0 .. MaxConcurrentSims /\ slots' = Cardinality(InFlight')
    BY <2>2, <2>3, <2>4, SlotLimit
  <2> QED
    BY <2>5, SlotLimit DEF SlotsMatchCalls
<1>2. CASE op[c].quota # "sim"
  <2>1. InFlight' = InFlight
    BY <1>2 DEF InFlight, BudgetInv, TypeOK
  <2>2. slots' = slots
    BY <1>2 DEF Released
  <2> QED
    BY <2>1, <2>2, SlotsKept DEF BudgetInv, TypeOK
<1> QED
  BY <1>1, <1>2

(* Every step keeps the types and the count of the semaphore.               *)
LEMMA BudgetStep == BudgetInv /\ [Next]_vars => BudgetInv'
<1> SUFFICES ASSUME BudgetInv, [Next]_vars PROVE BudgetInv'
  OBVIOUS
<1> USE DEF calls, budget, history
<1>a. ASSUME NEW c \in Calls, NEW q \in Quotas, NEW n \in Nat, Begin(c, q, n)
      PROVE  BudgetInv'
  <2>1. TypeOK' /\ Placed'
    BY <1>a, SlotLimit DEF Begin, GoTo, BudgetInv, TypeOK, Placed
  <2>2. InFlight' = InFlight
    BY <1>a DEF Begin, GoTo, InFlight, BudgetInv, TypeOK
  <2> QED
    BY <1>a, <2>1, <2>2, SlotsKept DEF Begin, BudgetInv
<1>b. ASSUME NEW c \in Calls, InvalidArgument(c) \/ ReadDay(c) \/ AbandonSlot(c)
      PROVE  BudgetInv'
  <2>1. TypeOK' /\ Placed'
    <3>1. CASE InvalidArgument(c)
      BY <3>1, SlotLimit DEF InvalidArgument, Return, BudgetInv, TypeOK, Placed
    <3>2. CASE ReadDay(c)
      BY <3>2, SlotLimit DEF ReadDay, GoTo, BudgetInv, TypeOK, Placed
    <3>3. CASE AbandonSlot(c)
      BY <3>3, SlotLimit DEF AbandonSlot, Return, BudgetInv, TypeOK, Placed
    <3> QED
      BY <1>b, <3>1, <3>2, <3>3
  <2>2. InFlight' = InFlight
    BY <1>b DEF InvalidArgument, ReadDay, AbandonSlot, Return, GoTo, InFlight, BudgetInv, TypeOK
  <2>3. slots' = slots
    BY <1>b DEF InvalidArgument, ReadDay, AbandonSlot
  <2> QED
    BY <2>1, <2>2, <2>3, SlotsKept DEF BudgetInv
<1>c. ASSUME NEW c \in Calls, ReserveSimSlot(c) PROVE BudgetInv'
  <2>0. slots' \in 0 .. MaxConcurrentSims
    BY <1>c, SlotLimit DEF ReserveSimSlot, SlotFree, BudgetInv, TypeOK
  <2>1. TypeOK' /\ Placed'
    BY <1>c, <2>0, SlotLimit DEF ReserveSimSlot, SlotFree, GoTo, BudgetInv, TypeOK, Placed
  <2>2. c \notin InFlight /\ InFlight' = InFlight \cup {c}
    BY <1>c DEF ReserveSimSlot, SlotFree, GoTo, InFlight, BudgetInv, TypeOK, Placed
  <2>3. Cardinality(InFlight') = Cardinality(InFlight) + 1
    BY <2>2, SlotTaken
  <2> QED
    BY <1>c, <2>0, <2>1, <2>3, SlotLimit
    DEF ReserveSimSlot, SlotFree, SlotsMatchCalls, BudgetInv
<1>d. ASSUME NEW c \in Calls, Refused(c) PROVE BudgetInv'
  <2>1. slots' \in 0 .. MaxConcurrentSims /\ SlotsMatchCalls'
    BY <1>d, SlotReleased DEF Refused, Return
  <2>2. TypeOK' /\ Placed'
    BY <1>d, <2>1, SlotLimit DEF Refused, Return, BudgetInv, TypeOK, Placed
  <2> QED
    BY <2>1, <2>2 DEF BudgetInv
<1>e. ASSUME NEW c \in Calls, Attempt(c) PROVE BudgetInv'
  <2>1. /\ executed' \in [Calls -> Nat] /\ attempts' \in [Calls -> Nat]
        /\ pc[c] = "post" /\ UNCHANGED <<clock, op, today, cancelled, budget, history>>
    BY <1>e DEF Attempt, BudgetInv, TypeOK
  <2>2. CASE GoTo(c, "post") /\ UNCHANGED slots
    <3>1. TypeOK' /\ Placed'
      BY <2>1, <2>2, SlotLimit DEF GoTo, BudgetInv, TypeOK, Placed
    <3>2. InFlight' = InFlight
      BY <2>1, <2>2 DEF GoTo, InFlight, BudgetInv, TypeOK
    <3> QED
      BY <2>2, <3>1, <3>2, SlotsKept DEF BudgetInv
  <2>3. ASSUME NEW r \in {"ok", "location", "error"}, Return(c, r), slots' = Released(c)
        PROVE  BudgetInv'
    <3>1. slots' \in 0 .. MaxConcurrentSims /\ SlotsMatchCalls'
      BY <2>1, <2>3, SlotReleased DEF Return
    <3>2. TypeOK' /\ Placed'
      BY <2>1, <2>3, <3>1, SlotLimit DEF Return, BudgetInv, TypeOK, Placed
    <3> QED
      BY <3>1, <3>2 DEF BudgetInv
  <2> QED
    BY <1>e, <2>2, <2>3 DEF Attempt
<1>f. ASSUME NEW c \in Calls, CancelContext(c) PROVE BudgetInv'
  <2>1. TypeOK' /\ Placed'
    BY <1>f, SlotLimit DEF CancelContext, BudgetInv, TypeOK, Placed
  <2>2. InFlight' = InFlight
    BY <1>f DEF CancelContext, InFlight
  <2> QED
    BY <1>f, <2>1, <2>2, SlotsKept DEF CancelContext, BudgetInv
<1>g. ASSUME Midnight \/ UNCHANGED vars PROVE BudgetInv'
  <2>1. TypeOK' /\ Placed'
    <3>1. CASE Midnight
      BY <3>1, BudgetAssumption, SlotLimit DEF Midnight, BudgetInv, TypeOK, Placed, Days
    <3>2. CASE UNCHANGED vars
      BY <3>2, SlotLimit DEF vars, BudgetInv, TypeOK, Placed, Days
    <3> QED
      BY <1>g, <3>1, <3>2
  <2>2. InFlight' = InFlight /\ slots' = slots
    BY <1>g DEF Midnight, vars, InFlight
  <2> QED
    BY <2>1, <2>2, SlotsKept DEF BudgetInv
<1> QED
  BY <1>a, <1>b, <1>c, <1>d, <1>e, <1>f, <1>g, BudgetStepCheck, BudgetAssumption
  DEF Next, Step, CreateSimulation, CreateMultiSimulation, SubmitAlpha, Quotas

-----------------------------------------------------------------------------
(* The rollover                                                             *)

(* One further budget for one further reset.                                *)
LEMMA OneMoreBudget ==
  \A k \in Nat, x \in Nat : k * (x + 1) = k * x + k /\ k * 0 = 0 /\ k * x \in Nat
OBVIOUS

(* Before the first call nothing was admitted.                              *)
LEMMA OverrunInit == Init => OverrunInv
<1> SUFFICES ASSUME Init, NEW q \in Quotas, Limit[q] > 0
             PROVE  used[q] <= Limit[q] /\ \A t \in Days : Granted(t, q)
  BY DEF OverrunInv
<1>1. Limit[q] \in Nat
  BY SlotLimit
<1>2. used[q] = 0 /\ late = 0 /\ budgetDay = 0
  BY DEF Init
<1>3. \A t \in Days : admitted[t][q] = 0 /\ t > budgetDay
  BY BudgetAssumption DEF Init, Days
<1> QED
  BY <1>1, <1>2, <1>3, OneMoreBudget DEF Granted

(* The locked section: a reset to an earlier day pays for one more budget   *)
(* under every later name, a reset to a later one uses up what was paid.    *)
LEMMA OverrunCheck ==
  ASSUME BudgetInv, OverrunInv, NEW c \in Calls, CheckBudget(c)
  PROVE  OverrunInv'
<1> SUFFICES ASSUME NEW q \in Quotas, Limit[q] > 0
             PROVE  used'[q] <= Limit[q] /\ \A t \in Days : Granted(t, q)'
  BY SlotLimit DEF OverrunInv
<1> DEFINE L == Limit[q]
           mine == op[c].quota
           start == Count(c)[q]
           more == Taken(c, q)
<1>1. /\ L \in Nat /\ late \in Nat /\ budgetDay \in Days \cup {0}
      /\ used[q] \in Nat /\ used[q] <= L
      /\ mine \in Quotas /\ op[c].n \in Nat
      /\ \A t \in Days : admitted[t][q] \in Nat /\ Granted(t, q)
      /\ \A t \in Days : t \in Nat /\ t > 0
      /\ budgetDay \in Nat
  <2>1. /\ L \in Nat /\ late \in Nat /\ budgetDay \in Days \cup {0}
        /\ used[q] \in Nat
        /\ mine \in Quotas /\ op[c].n \in Nat
    BY SlotLimit DEF BudgetInv, TypeOK
  <2>2. \A t \in Days : admitted[t][q] \in Nat
    BY DEF BudgetInv, TypeOK
  <2>3. used[q] <= L /\ \A t \in Days : Granted(t, q)
    BY DEF OverrunInv
  <2>4. \A t \in Days : t \in Nat /\ t > 0
    BY DEF Days
  <2> QED
    BY <2>1, <2>2, <2>3, <2>4
<1>2. pc[c] = "budget" /\ today[c] \in Days
  <2>1. pc[c] = "budget"
    BY DEF CheckBudget
  <2> QED
    BY <2>1 DEF BudgetInv, Placed
<1>3. /\ budgetDay' = today[c]
      /\ late' = late + IF today[c] < budgetDay THEN 1 ELSE 0
  BY DEF CheckBudget
<1>4. start = IF today[c] = budgetDay THEN used[q] ELSE 0
  BY DEF Count, Rolled
<1>5. used'[q] = start + more
  BY CheckTakes
<1>6. \A t \in Days :
        admitted'[t][q] = admitted[t][q] + IF t = today[c] THEN more ELSE 0
  BY CheckTakes
<1>7. start + more <= L /\ start \in Nat /\ more \in Nat
  BY <1>1, <1>4 DEF Overruns, Taken
<1>8. ASSUME NEW t \in Days PROVE Granted(t, q)'
  <2> DEFINE X == L * late
             X1 == L * late'
  <2>1. X \in Nat /\ X1 = X + IF today[c] < budgetDay THEN L ELSE 0
    BY <1>1, <1>3, OneMoreBudget
  <2>2. admitted[t][q] <= X + (IF t > budgetDay THEN 0 ELSE IF t = budgetDay THEN used[q] ELSE L)
    BY <1>1 DEF Granted
  <2>3. admitted'[t][q] <= X1 + (IF t > today[c] THEN 0
                                 ELSE IF t = today[c] THEN start + more ELSE L)
    <3> HIDE DEF X, X1, L, start, more
    <3>1. /\ admitted[t][q] \in Nat /\ t \in Nat /\ today[c] \in Nat /\ budgetDay \in Nat
          /\ admitted'[t][q] = admitted[t][q] + IF t = today[c] THEN more ELSE 0
      BY <1>1, <1>2, <1>6
    <3>2. CASE today[c] = budgetDay
      BY <1>1, <1>4, <1>7, <2>1, <2>2, <3>1, <3>2
    <3>3. CASE today[c] < budgetDay
      BY <1>1, <1>4, <1>7, <2>1, <2>2, <3>1, <3>3
    <3>4. CASE today[c] > budgetDay
      BY <1>1, <1>4, <1>7, <2>1, <2>2, <3>1, <3>4
    <3> QED
      BY <3>1, <3>2, <3>3, <3>4
  <2>5. Limit' = Limit
    BY DEF Limit
  <2> QED
    BY <1>3, <1>5, <2>3, <2>5 DEF Granted
<1> QED
  BY <1>5, <1>7, <1>8

(* No other step touches the counters.                                      *)
LEMMA OverrunStep == BudgetInv /\ OverrunInv /\ [Next]_vars => OverrunInv'
<1> SUFFICES ASSUME BudgetInv, OverrunInv, [Next]_vars PROVE OverrunInv'
  OBVIOUS
<1>1. CASE \E c \in Calls : CheckBudget(c)
  BY <1>1, OverrunCheck
<1>2. CASE UNCHANGED <<budgetDay, used, admitted, late>>
  <2>1. Limit' = Limit
    BY DEF Limit
  <2> QED
    BY <1>2, <2>1 DEF OverrunInv, Granted
<1>3. \/ \E c \in Calls : CheckBudget(c)
      \/ UNCHANGED <<budgetDay, used, admitted, late>>
  BY DEF Next, Step, CreateSimulation, CreateMultiSimulation, SubmitAlpha, Begin,
         InvalidArgument, ReadDay, ReserveSimSlot, AbandonSlot, Refused, Attempt,
         CancelContext, Midnight, vars, budget, history
<1> QED
  BY <1>1, <1>2, <1>3

-----------------------------------------------------------------------------
(* The account of the units                                                 *)

(* The calls the gates let through.                                         *)
Through ==
  {c \in Calls : \/ pc[c] \in {"slot", "post"}
                 \/ pc[c] = "done" /\ result[c] \notin {"invalid", "budget"}}

(* What is carried out was sent, by a call that was let through, and an     *)
(* attempt is left for a call that is to send.                              *)
Sent ==
  \A c \in Calls :
    /\ executed[c] <= attempts[c]
    /\ attempts[c] <= 1 + MaxRetries
    /\ pc[c] \notin {"post", "done"} => attempts[c] = 0
    /\ pc[c] = "post" => attempts[c] <= MaxRetries
    /\ executed[c] > 0 => c \in Through

(* The counters hold the units of the calls since the reset, and the days'  *)
(* accounts together those of all calls.                                    *)
Balanced ==
  \A q \in Quotas :
    /\ IsFiniteSet(Units(charged, q))
    /\ used[q] = Cardinality(Units(charged, q))
    /\ IsFiniteSet(Units(Through, q))
    /\ IsFiniteSet(Admitted(q))
    /\ Cardinality(Units(Through, q)) = Cardinality(Admitted(q))

AccountInv == charged \subseteq Through /\ Sent /\ Balanced

(* A set of units under one name has as many pairs as units.                *)
LEMMA Named ==
  ASSUME NEW x, NEW S, IsFiniteSet(S)
  PROVE  /\ IsFiniteSet({x} \X S)
         /\ Cardinality({x} \X S) = Cardinality(S)
<1>1. IsFiniteSet({x}) /\ Cardinality({x}) = 1
  BY FS_Singleton
<1>2. IsFiniteSet({x} \X S) /\ Cardinality({x} \X S) = Cardinality({x}) * Cardinality(S)
  BY <1>1, FS_Product
<1>3. Cardinality(S) \in Nat
  BY FS_CardinalityType
<1> QED
  BY <1>1, <1>2, <1>3

(* The units 1 .. n.                                                        *)
LEMMA FirstUnits ==
  ASSUME NEW n \in Nat
  PROVE  IsFiniteSet(1 .. n) /\ Cardinality(1 .. n) = n
<1>1. /\ IsFiniteSet(1 .. n)
      /\ Cardinality(1 .. n) = IF 1 > n THEN 0 ELSE n - 1 + 1
  BY FS_Interval
<1> QED
  BY <1>1

(* What is added to a finite set and not in it yet is counted on top.       *)
LEMMA Disjoint ==
  ASSUME NEW S, NEW T, IsFiniteSet(S), IsFiniteSet(T), S \cap T = {}
  PROVE  /\ IsFiniteSet(S \cup T)
         /\ Cardinality(S \cup T) = Cardinality(S) + Cardinality(T)
<1>1. Cardinality(S) \in Nat /\ Cardinality(T) \in Nat
  BY FS_CardinalityType
<1>2. Cardinality(S \cap T) = 0
  BY FS_EmptySet
<1>3. /\ IsFiniteSet(S \cup T)
      /\ Cardinality(S \cup T) = Cardinality(S) + Cardinality(T) - Cardinality(S \cap T)
  BY FS_Union
<1> QED
  BY <1>1, <1>2, <1>3

(* A further call brings the units it takes.                                *)
LEMMA UnitsGrow ==
  ASSUME TypeOK, NEW q \in Quotas, NEW S \in SUBSET Calls, NEW c \in Calls \ S,
         IsFiniteSet(Units(S, q))
  PROVE  /\ IsFiniteSet(Units(S \cup {c}, q))
         /\ Cardinality(Units(S \cup {c}, q)) =
              Cardinality(Units(S, q)) + IF op[c].quota = q THEN op[c].n ELSE 0
<1> DEFINE each == 1 .. op[c].n
           mine == {c} \X each
<1>1. op[c].n \in Nat
  BY DEF TypeOK
<1>2. CASE op[c].quota = q
  <2>1. IsFiniteSet(each) /\ Cardinality(each) = op[c].n
    BY <1>1, FirstUnits
  <2>2. Units(S \cup {c}, q) = Units(S, q) \cup mine
    BY <1>2 DEF Units
  <2>3. Units(S, q) \cap mine = {}
    BY DEF Units
  <2>4. IsFiniteSet(mine) /\ Cardinality(mine) = op[c].n
    <3> HIDE DEF each
    <3> QED
      BY <2>1, Named
  <2> HIDE DEF mine
  <2>5. /\ IsFiniteSet(Units(S, q) \cup mine)
        /\ Cardinality(Units(S, q) \cup mine) = Cardinality(Units(S, q)) + Cardinality(mine)
    BY <2>3, <2>4, Disjoint
  <2> QED
    BY <1>2, <2>2, <2>4, <2>5
<1>3. CASE op[c].quota # q
  <2>1. Units(S \cup {c}, q) = Units(S, q)
    BY <1>3 DEF Units
  <2>2. Cardinality(Units(S, q)) \in Nat
    BY FS_CardinalityType
  <2> QED
    BY <1>3, <2>1, <2>2
<1> QED
  BY <1>2, <1>3

(* A day's account grows by what a call takes.                              *)
LEMMA AdmittedGrows ==
  ASSUME BudgetInv, NEW q \in Quotas, IsFiniteSet(Admitted(q)), NEW d \in Days, NEW k \in Nat,
         \A t \in Days : admitted'[t][q] = admitted[t][q] + IF t = d THEN k ELSE 0
  PROVE  /\ IsFiniteSet(Admitted(q)')
         /\ Cardinality(Admitted(q)') = Cardinality(Admitted(q)) + k
<1> DEFINE a == admitted[d][q]
           more == a + 1 .. a + k
           new == {d} \X more
<1>1. \A t \in Days : admitted[t][q] \in Nat
  BY DEF BudgetInv, TypeOK
<1>2. \A t \in Days : t # d => admitted'[t][q] = admitted[t][q]
  BY <1>1
<1>3. 1 .. admitted'[d][q] = (1 .. a) \cup (a + 1 .. a + k)
  BY <1>1
<1>4. Admitted(q)' = Admitted(q) \cup new
  <2> HIDE DEF a
  <2>1. ASSUME NEW u PROVE u \in Admitted(q)' <=> u \in Admitted(q) \/ u \in new
    <3>1. u \in Admitted(q)' <=> \E t \in Days : u \in {t} \X (1 .. admitted'[t][q])
      BY DEF Admitted, Days
    <3>2. u \in Admitted(q) <=> \E t \in Days : u \in {t} \X (1 .. admitted[t][q])
      BY DEF Admitted
    <3>3. \A t \in Days : t # d =>
            (u \in {t} \X (1 .. admitted'[t][q]) <=> u \in {t} \X (1 .. admitted[t][q]))
      BY <1>2
    <3>4. u \in {d} \X (1 .. admitted'[d][q]) <=> u \in {d} \X (1 .. admitted[d][q]) \/ u \in new
      BY <1>3 DEF a
    <3> QED
      BY <3>1, <3>2, <3>3, <3>4
  <2> QED
    BY <2>1
<1>5. Admitted(q) \cap new = {}
  <2>1. a \in Nat
    BY <1>1
  <2>2. \A i \in 1 .. a : i \notin a + 1 .. a + k
    BY <2>1
  <2>3. ASSUME NEW t \in Days PROVE ({t} \X (1 .. admitted[t][q])) \cap new = {}
    BY <2>2
  <2> QED
    BY <2>3 DEF Admitted
<1>6. IsFiniteSet(new) /\ Cardinality(new) = k
  <2>1. a \in Nat
    BY <1>1
  <2>2. IsFiniteSet(more) /\ Cardinality(more) = k
    <3> HIDE DEF a
    <3> QED
      BY <2>1, FS_Interval
  <2> HIDE DEF more
  <2> QED
    BY <2>2, Named
<1> HIDE DEF new
<1> QED
  BY <1>4, <1>5, <1>6, Disjoint

(* Nothing was taken, let through or carried out at first.                  *)
LEMMA AccountInit == Init => AccountInv
<1> SUFFICES ASSUME Init PROVE AccountInv
  OBVIOUS
<1>1. Through = {} /\ charged = {}
  BY DEF Init, Through
<1>2. Sent
  BY BudgetAssumption DEF Init, Sent
<1>3. ASSUME NEW q \in Quotas
      PROVE  Units(charged, q) = {} /\ Units(Through, q) = {} /\ Admitted(q) = {} /\ used[q] = 0
  BY <1>1, <1>3 DEF Init, Units, Admitted
<1>4. Balanced
  BY <1>3, FS_EmptySet DEF Balanced
<1> QED
  BY <1>1, <1>2, <1>4 DEF AccountInv

(* The locked section takes from the counters, for the day it has read and  *)
(* for the call, one and the same number of units.                          *)
LEMMA AccountCheck ==
  ASSUME BudgetInv, AccountInv, NEW c \in Calls, CheckBudget(c)
  PROVE  AccountInv'
<1> DEFINE refused == Overruns(Limit[op[c].quota], Count(c)[op[c].quota], op[c].n)
           kept == IF Rolled(c) THEN {} ELSE charged
           taker == IF refused THEN {} ELSE {c}
<1>1. /\ pc[c] = "budget" /\ today[c] \in Days /\ TypeOK
      /\ UNCHANGED <<op, attempts, executed>>
  BY DEF CheckBudget, BudgetInv, Placed
<1>2. /\ charged' = kept \cup taker
      /\ kept \subseteq Through /\ kept \subseteq Calls /\ Through \subseteq Calls
      /\ c \notin Through
  BY <1>1 DEF CheckBudget, AccountInv, Through
<1>3. Through' = Through \cup taker
  <2>1. CASE refused
    BY <1>1, <2>1 DEF CheckBudget, Return, Through, TypeOK
  <2>2. CASE ~refused
    BY <1>1, <2>2 DEF CheckBudget, GoTo, Through, TypeOK
  <2> QED
    BY <2>1, <2>2
<1>4. Sent'
  <2>1. PICK l \in {"done", "slot", "post"} : pc' = [pc EXCEPT ![c] = l]
    BY DEF CheckBudget, Return, GoTo
  <2>2. attempts[c] = 0 /\ executed[c] = 0
    BY <1>1 DEF AccountInv, Sent, TypeOK
  <2> QED
    BY <1>1, <1>3, <2>1, <2>2, BudgetAssumption DEF AccountInv, Sent, TypeOK
<1>5. ASSUME NEW q \in Quotas, NEW S \in SUBSET Calls, c \notin S, IsFiniteSet(Units(S, q))
      PROVE  /\ IsFiniteSet(Units(S \cup taker, q))
             /\ Cardinality(Units(S \cup taker, q)) = Cardinality(Units(S, q)) + Taken(c, q)
  <2>1. CASE refused
    <3>1. S \cup taker = S /\ Taken(c, q) = 0
      BY <2>1 DEF Taken
    <3>2. Cardinality(Units(S, q)) \in Nat
      BY <1>5, FS_CardinalityType
    <3> HIDE DEF taker
    <3> QED
      BY <1>5, <3>1, <3>2
  <2>2. CASE ~refused
    <3>1. taker = {c} /\ Taken(c, q) = IF op[c].quota = q THEN op[c].n ELSE 0
      BY <2>2 DEF Taken
    <3> HIDE DEF taker
    <3> QED
      BY <1>1, <1>5, <3>1, UnitsGrow
  <2> QED
    BY <2>1, <2>2
<1>6. ASSUME NEW q \in Quotas, NEW S PROVE Units(S, q)' = Units(S, q)
  BY <1>1 DEF Units
<1>7. ASSUME NEW q \in Quotas
      PROVE  /\ IsFiniteSet(Units(charged, q)')
             /\ used'[q] = Cardinality(Units(charged, q)')
             /\ IsFiniteSet(Units(Through, q)')
             /\ IsFiniteSet(Admitted(q)')
             /\ Cardinality(Units(Through, q)') = Cardinality(Admitted(q)')
  <2>1. /\ IsFiniteSet(Units(charged, q)) /\ used[q] = Cardinality(Units(charged, q))
        /\ IsFiniteSet(Units(Through, q)) /\ IsFiniteSet(Admitted(q))
        /\ Cardinality(Units(Through, q)) = Cardinality(Admitted(q))
    BY <1>7 DEF AccountInv, Balanced
  <2>2. Units(charged, q)' = Units(kept \cup taker, q)
    BY <1>1, <1>2 DEF Units
  <2>3. Units(Through, q)' = Units(Through \cup taker, q)
    BY <1>1, <1>3 DEF Units
  <2>4. IsFiniteSet(Units(kept, q)) /\ Count(c)[q] = Cardinality(Units(kept, q))
    <3>1. CASE Rolled(c)
      <4>1. Units(kept, q) = {} /\ Count(c)[q] = 0
        BY <3>1 DEF Units, Count
      <4> QED
        BY <4>1, FS_EmptySet
    <3>2. CASE ~Rolled(c)
      BY <2>1, <3>2 DEF Count
    <3> QED
      BY <3>1, <3>2
  <2>5. /\ used'[q] = Count(c)[q] + Taken(c, q)
        /\ \A t \in Days :
             admitted'[t][q] = admitted[t][q] + IF t = today[c] THEN Taken(c, q) ELSE 0
        /\ Taken(c, q) \in Nat
    BY CheckTakes
  <2>6. /\ IsFiniteSet(Units(kept \cup taker, q))
        /\ Cardinality(Units(kept \cup taker, q)) = Cardinality(Units(kept, q)) + Taken(c, q)
    <3> HIDE DEF kept, taker
    <3> QED
      BY <1>2, <1>5, <2>4
  <2>7. /\ IsFiniteSet(Units(Through \cup taker, q))
        /\ Cardinality(Units(Through \cup taker, q)) = Cardinality(Units(Through, q)) + Taken(c, q)
    <3> HIDE DEF taker
    <3> QED
      BY <1>2, <1>5, <2>1
  <2>8. /\ IsFiniteSet(Admitted(q)')
        /\ Cardinality(Admitted(q)') = Cardinality(Admitted(q)) + Taken(c, q)
    BY <1>1, <2>1, <2>5, AdmittedGrows
  <2> QED
    BY <2>1, <2>2, <2>3, <2>4, <2>5, <2>6, <2>7, <2>8
<1>8. Balanced'
  BY <1>7 DEF Balanced, Quotas
<1> QED
  BY <1>2, <1>3, <1>4, <1>8 DEF AccountInv

(* A step that lets no call through, and changes no call that was, leaves   *)
(* the account as it is.                                                    *)
LEMMA AccountKept ==
  ASSUME AccountInv, UNCHANGED <<budgetDay, used, admitted, charged>>, Through' = Through,
         \A c \in Through : op'[c] = op[c], Sent'
  PROVE  AccountInv'
<1>1. ASSUME NEW q \in Quotas
      PROVE  /\ Units(charged, q)' = Units(charged, q)
             /\ Units(Through, q)' = Units(Through, q)
             /\ Admitted(q)' = Admitted(q)
  <2>1. \A S \in SUBSET Through : Units(S, q)' = Units(S, q)
    BY DEF Units
  <2>2. charged' = charged /\ charged \subseteq Through
    BY DEF AccountInv
  <2>3. {d \in charged' : op'[d].quota = q} = {d \in charged : op[d].quota = q}
    BY <2>2
  <2>4. {d \in Through' : op'[d].quota = q} = {d \in Through : op[d].quota = q}
    OBVIOUS
  <2>5. Units(charged, q)' = Units(charged, q)
    BY <2>2, <2>3 DEF Units
  <2>6. Units(Through, q)' = Units(Through, q)
    BY <2>4 DEF Units
  <2>7. Admitted(q)' = Admitted(q)
    BY DEF Admitted, Days
  <2> QED
    BY <2>5, <2>6, <2>7
<1>2. Balanced'
  BY <1>1 DEF Balanced, AccountInv, Quotas
<1> QED
  BY <1>2 DEF AccountInv

(* Only the locked section moves units.                                     *)
LEMMA AccountStep == BudgetInv /\ AccountInv /\ [Next]_vars => AccountInv'
<1> SUFFICES ASSUME BudgetInv, AccountInv, [Next]_vars PROVE AccountInv'
  OBVIOUS
<1>0. TypeOK /\ Sent
  BY DEF BudgetInv, AccountInv
<1> USE DEF calls, budget, history
<1>a. ASSUME NEW c \in Calls, NEW q \in Quotas, NEW n \in Nat, Begin(c, q, n)
      PROVE  AccountInv'
  <2>1. Through' = Through /\ c \notin Through
    BY <1>0, <1>a DEF Begin, GoTo, Through, TypeOK
  <2>2. Sent'
    BY <1>0, <1>a, <2>1 DEF Begin, GoTo, Sent, TypeOK
  <2>3. \A d \in Through : op'[d] = op[d]
    BY <1>0, <1>a, <2>1 DEF Begin, TypeOK
  <2> QED
    BY <1>a, <2>1, <2>2, <2>3, AccountKept DEF Begin
<1>b. ASSUME NEW c \in Calls,
             InvalidArgument(c) \/ ReadDay(c) \/ ReserveSimSlot(c) \/ AbandonSlot(c)
      PROVE  AccountInv'
  <2> USE DEF InvalidArgument, ReadDay, ReserveSimSlot, AbandonSlot, Return, GoTo
  <2>1. Through' = Through
    BY <1>0, <1>b DEF Through, TypeOK
  <2>2. Sent'
    BY <1>0, <1>b, <2>1, BudgetAssumption DEF Sent, TypeOK
  <2> QED
    BY <1>b, <2>1, <2>2, AccountKept
<1>c. ASSUME NEW c \in Calls, Refused(c) \/ CancelContext(c)
      PROVE  AccountInv'
  <2> USE DEF Refused, CancelContext, Return
  <2>1. Through' = Through
    BY <1>0, <1>c DEF Through, TypeOK
  <2>2. Sent'
    BY <1>0, <1>c, <2>1, BudgetAssumption DEF Sent, TypeOK
  <2> QED
    BY <1>c, <2>1, <2>2, AccountKept
<1>d. ASSUME NEW c \in Calls, Attempt(c) PROVE AccountInv'
  <2>1. /\ pc[c] = "post" /\ c \in Through
        /\ attempts' = [attempts EXCEPT ![c] = @ + 1]
        /\ \E k \in {0, 1} : executed' = [executed EXCEPT ![c] = @ + k]
        /\ UNCHANGED <<op, budgetDay, used, admitted, charged>>
    BY <1>d DEF Attempt, Through
  <2>2. \/ GoTo(c, "post") /\ attempts[c] < MaxRetries
        \/ \E r \in {"ok", "location", "error"} : Return(c, r)
    BY <1>d DEF Attempt, MayRepeat
  <2>3. Through' = Through
    BY <1>0, <2>1, <2>2 DEF GoTo, Return, Through, TypeOK
  <2>4. /\ attempts[c] \in Nat /\ executed[c] \in Nat /\ MaxRetries \in Nat
        /\ attempts[c] <= MaxRetries /\ executed[c] <= attempts[c]
    BY <1>0, <2>1, BudgetAssumption DEF Sent, TypeOK
  <2>5. Sent'
    <3> SUFFICES ASSUME NEW d \in Calls
                 PROVE  /\ executed'[d] <= attempts'[d]
                        /\ attempts'[d] <= 1 + MaxRetries
                        /\ pc'[d] \notin {"post", "done"} => attempts'[d] = 0
                        /\ pc'[d] = "post" => attempts'[d] <= MaxRetries
                        /\ executed'[d] > 0 => d \in Through'
      BY DEF Sent
    <3>1. CASE d = c
      BY <1>0, <2>1, <2>2, <2>3, <2>4, <3>1 DEF GoTo, Return, TypeOK
    <3>2. CASE d # c
      BY <1>0, <2>1, <2>2, <2>3, <3>2 DEF GoTo, Return, TypeOK, Sent
    <3> QED
      BY <3>1, <3>2
  <2> QED
    BY <2>1, <2>3, <2>5, AccountKept
<1>e. ASSUME Midnight \/ UNCHANGED vars PROVE AccountInv'
  <2>1. Through' = Through /\ Sent'
    BY <1>0, <1>e DEF Midnight, vars, Through, Sent
  <2> QED
    BY <1>e, <2>1, AccountKept DEF Midnight, vars
<1> QED
  BY <1>a, <1>b, <1>c, <1>d, <1>e, AccountCheck, BudgetAssumption
  DEF Next, Step, CreateSimulation, CreateMultiSimulation, SubmitAlpha, Quotas

-----------------------------------------------------------------------------
(* Theorems                                                                 *)

(* The inductive invariant of the gates: types, slots, and the account of   *)
(* admitted units against resets to an earlier day.                         *)
THEOREM BudgetInvariant == Spec => [](BudgetInv /\ OverrunInv)
<1>1. Init => BudgetInv /\ OverrunInv
  BY BudgetInit, OverrunInit
<1>2. (BudgetInv /\ OverrunInv) /\ [Next]_vars => (BudgetInv /\ OverrunInv)'
  BY BudgetStep, OverrunStep
<1> QED
  BY <1>1, <1>2, PTL DEF Spec

(* The types of SimBudget, for any number of calls, batches and days.       *)
THEOREM TypesHold == Spec => []TypeOK
<1>1. BudgetInv => TypeOK
  BY DEF BudgetInv
<1> QED
  BY <1>1, BudgetInvariant, PTL

(* No path through the three methods leaks a slot or gives one back twice:  *)
(* the semaphore counts the POST /simulations in flight exactly.            *)
THEOREM SlotsAreCounted == Spec => []SlotsMatchCalls
<1>1. BudgetInv => SlotsMatchCalls
  BY DEF BudgetInv
<1> QED
  BY <1>1, BudgetInvariant, PTL

(* A day's quota is overrun only by calls that straddle the rollover, each  *)
(* by at most one more budget.                                              *)
THEOREM OverrunIsBounded == Spec => []OverrunNeedsStraggler
<1>1. BudgetInv /\ OverrunInv => OverrunNeedsStraggler
  <2> SUFFICES ASSUME BudgetInv, OverrunInv, NEW t \in Days, NEW q \in Quotas, Limit[q] > 0
               PROVE  admitted[t][q] <= Limit[q] * (1 + late)
    BY DEF OverrunNeedsStraggler
  <2> DEFINE X == Limit[q] * late
  <2>1. /\ Limit[q] \in Nat /\ late \in Nat /\ used[q] \in Nat /\ used[q] <= Limit[q]
        /\ admitted[t][q] \in Nat
    BY SlotLimit DEF BudgetInv, TypeOK, OverrunInv
  <2>2. X \in Nat /\ Limit[q] * (late + 1) = X + Limit[q] /\ 1 + late = late + 1
    BY <2>1, OneMoreBudget
  <2>3. admitted[t][q] <= X + (IF t > budgetDay THEN 0 ELSE IF t = budgetDay THEN used[q] ELSE Limit[q])
    BY DEF OverrunInv, Granted
  <2>4. admitted[t][q] <= X + Limit[q]
    <3> HIDE DEF X
    <3> QED
      BY <2>1, <2>2, <2>3
  <2> QED
    BY <2>2, <2>4
<1> QED
  BY <1>1, BudgetInvariant, PTL

(* The account of the units: counters, days and calls agree.                *)
THEOREM AccountInvariant == Spec => [](BudgetInv /\ AccountInv)
<1>1. Init => BudgetInv /\ AccountInv
  BY BudgetInit, AccountInit
<1>2. (BudgetInv /\ AccountInv) /\ [Next]_vars => (BudgetInv /\ AccountInv)'
  BY BudgetStep, AccountStep
<1> QED
  BY <1>1, <1>2, PTL DEF Spec

(* A counter holds the units of the calls let through since its reset, no   *)
(* more and no fewer, for any number of calls and sizes of batches.         *)
THEOREM CountersAreExact == Spec => []CountersMatchCalls
<1>1. AccountInv => CountersMatchCalls
  BY DEF AccountInv, Balanced, CountersMatchCalls
<1> QED
  BY <1>1, AccountInvariant, PTL

(* BRAIN carries out at most 1 + MaxRetries times what the budget counted.  *)
THEOREM ExecutionsAreCovered == Spec => []ExecutionsWithinUnits
<1>1. BudgetInv /\ AccountInv => ExecutionsWithinUnits
  <2> SUFFICES ASSUME BudgetInv, AccountInv, NEW q \in Quotas
               PROVE  Cardinality(Executions(q)) <= Cardinality(Admitted(q)) * (1 + MaxRetries)
    BY DEF ExecutionsWithinUnits
  <2> DEFINE tries == 1 .. 1 + MaxRetries
             all == Units(Through, q) \X tries
  <2>1. /\ IsFiniteSet(Units(Through, q))
        /\ Cardinality(Units(Through, q)) = Cardinality(Admitted(q))
    BY DEF AccountInv, Balanced
  <2>2. IsFiniteSet(tries) /\ Cardinality(tries) = 1 + MaxRetries
    BY BudgetAssumption, FS_Interval
  <2>3. IsFiniteSet(all) /\ Cardinality(all) = Cardinality(Admitted(q)) * (1 + MaxRetries)
    <3> HIDE DEF tries
    <3>1. IsFiniteSet(all) /\ Cardinality(all) = Cardinality(Units(Through, q)) * Cardinality(tries)
      BY <2>1, <2>2, FS_Product
    <3> QED
      BY <2>1, <2>2, <3>1
  <2>4. ASSUME NEW c \in Calls
        PROVE  Units({c}, q) \X (1 .. executed[c]) \subseteq all
    <3>1. /\ executed[c] \in Nat /\ attempts[c] \in Nat /\ MaxRetries \in Nat
          /\ executed[c] <= attempts[c] /\ attempts[c] <= 1 + MaxRetries
          /\ executed[c] > 0 => c \in Through
      BY BudgetAssumption DEF BudgetInv, TypeOK, AccountInv, Sent
    <3>2. 1 .. executed[c] \subseteq 1 .. 1 + MaxRetries
      BY <3>1
    <3>0. executed[c] = 0 \/ executed[c] > 0
      BY <3>1
    <3>3. CASE executed[c] = 0
      <4>1. 1 .. executed[c] = {}
        BY <3>3
      <4> QED
        BY <4>1
    <3>4. CASE executed[c] > 0
      <4>1. Units({c}, q) \subseteq Units(Through, q)
        BY <3>1, <3>4 DEF Units
      <4> QED
        BY <3>2, <4>1
    <3> QED
      BY <3>0, <3>3, <3>4
  <2>5. Executions(q) \in SUBSET all
    <3> HIDE DEF all
    <3> QED
      BY <2>4 DEF Executions
  <2> QED
    BY <2>3, <2>5, FS_Subset
<1> QED
  BY <1>1, AccountInvariant, PTL

=============================================================================
