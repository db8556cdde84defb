----------------------------- MODULE SimBudget -----------------------------
(***************************************************************************)
(* The gates in front of BRAIN's quotas: checkBudget and checkBudgetN (the *)
(* in-process daily counters, kept per BRAIN day) and reserveSimSlot (the  *)
(* semaphore around POST /simulations), as CreateSimulation,               *)
(* CreateMultiSimulation and SubmitAlpha go through them, concurrently,    *)
(* while the clock passes from one BRAIN day to the next.                  *)
(*                                                                         *)
(* Client.do is what RequestLoop shows of it: at most one attempt and      *)
(* MaxRetries repetitions, refused before the first when the client is     *)
(* banned or the context done.  An attempt that fails may still have been  *)
(* executed by the server.                                                 *)
(***************************************************************************)
EXTENDS Integers, FiniteSets

CONSTANTS
  Calls,          \* concurrent calls of the three methods on one client
  Batches,        \* lengths of the slices given to CreateMultiSimulation
  OptSims,        \* Options.DailyBudget.Sims
  OptSubmits,     \* Options.DailyBudget.Submits
  OptMaxSims,     \* Options.MaxConcurrentSims
  MaxRetries,     \* Client.maxRetries
  LastDay         \* bound: the clock stops on this BRAIN day

ASSUME BudgetAssumption ==
  /\ IsFiniteSet(Calls)
  /\ Batches \subseteq Nat
  /\ OptSims \in Nat
  /\ OptSubmits \in Nat
  /\ OptMaxSims \in Nat
  /\ MaxRetries \in Nat
  /\ LastDay \in Nat \ {0}

VARIABLES
  clock,      \* challengeDayStr(c.now()), as the number of the BRAIN day
  pc,         \* where each call is
  op,         \* what it creates: a unit of which quota, and how many
  today,      \* the local variable day of checkBudget
  budgetDay,  \* Client.budgetDay, 0 for the empty string
  used,       \* Client.budgetSims and Client.budgetSubs
  slots,      \* len(Client.simSem)
  cancelled,  \* the call's ctx is done
  attempts,   \* requests the call's Client.do has sent
  result,     \* what the call returned
  executed,   \* history: times the server carried the call's request out
  admitted,   \* history: units granted under each day's name
  charged,    \* history: calls granted units since the counters were reset
  late        \* history: resets that turned the counters to an earlier day

calls == <<pc, op, today, cancelled, attempts, result>>
budget == <<budgetDay, used>>
history == <<admitted, charged, late>>
vars == <<clock, calls, budget, slots, executed, history>>

Quotas == {"sim", "submit"}
Days == 1 .. LastDay

Limit == [q \in Quotas |-> IF q = "sim" THEN OptSims ELSE OptSubmits]
MaxConcurrentSims == IF OptMaxSims = 0 THEN 2 ELSE OptMaxSims

-----------------------------------------------------------------------------

Init ==
  /\ clock = 1
  /\ pc = [d \in Calls |-> "idle"]
  /\ op = [d \in Calls |-> [quota |-> "sim", n |-> 1]]
  /\ today = [d \in Calls |-> 0]
  /\ budgetDay = 0
  /\ used = [q \in Quotas |-> 0]
  /\ slots = 0
  /\ cancelled = [d \in Calls |-> FALSE]
  /\ attempts = [d \in Calls |-> 0]
  /\ result = [d \in Calls |-> "none"]
  /\ executed = [d \in Calls |-> 0]
  /\ admitted = [t \in Days |-> [q \in Quotas |-> 0]]
  /\ charged = {}
  /\ late = 0

Return(c, r) ==
  /\ pc' = [pc EXCEPT ![c] = "done"]
  /\ result' = [result EXCEPT ![c] = r]

GoTo(c, label) ==
  /\ pc' = [pc EXCEPT ![c] = label]
  /\ UNCHANGED result

(* A method is called and checks its arguments: CreateSimulation and        *)
(* SubmitAlpha want a non-empty field, CreateMultiSimulation wants 2..10    *)
(* requests that agree with each other.                                     *)
Begin(c, q, n) ==
  /\ pc[c] = "idle"
  /\ op' = [op EXCEPT ![c] = [quota |-> q, n |-> n]]
  /\ GoTo(c, "day")
  /\ UNCHANGED <<clock, today, cancelled, attempts, budget, slots, executed, history>>

CreateSimulation(c) == Begin(c, "sim", 1)
CreateMultiSimulation(c) == \E n \in Batches \cap 2 .. 10 : Begin(c, "sim", n)
SubmitAlpha(c) == Begin(c, "submit", 1)

InvalidArgument(c) ==
  /\ pc[c] = "idle"
  /\ Return(c, "invalid")
  /\ UNCHANGED <<clock, op, today, cancelled, attempts, budget, slots, executed, history>>

(* day := challengeDayStr(c.now()), before the lock is taken.               *)
ReadDay(c) ==
  /\ pc[c] = "day"
  /\ today' = [today EXCEPT ![c] = clock]
  /\ GoTo(c, "budget")
  /\ UNCHANGED <<clock, op, cancelled, attempts, budget, slots, executed, history>>

Overruns_Single(limit, count, n) == limit > 0 /\ count >= limit

(* The gate.  checkBudget's test, count >= limit, is this one for n = 1.    *)
Overruns(limit, count, n) == limit > 0 /\ count + n > limit

(* The counters a call finds once the day has been compared.                *)
Rolled(c) == budgetDay # today[c]
Count(c) == IF Rolled(c) THEN [q \in Quotas |-> 0] ELSE used

CountAfter_Leaky(c, n) == [Count(c) EXCEPT ![op[c].quota] = @ + n]

(* A refused batch takes nothing.                                           *)
CountAfter(c, n) ==
  IF Overruns(Limit[op[c].quota], Count(c)[op[c].quota], n)
  THEN Count(c)
  ELSE [Count(c) EXCEPT ![op[c].quota] = @ + n]

(* checkBudget, checkBudgetN: the whole of it holds budgetMu.  Either       *)
(* quota's call resets both counters.                                       *)
CheckBudget(c) ==
  LET q == op[c].quota
      n == op[c].n
      refused == Overruns(Limit[q], Count(c)[q], n)
  IN
  /\ pc[c] = "budget"
  /\ budgetDay' = today[c]
  /\ used' = CountAfter(c, n)
  /\ late' = late + IF today[c] < budgetDay THEN 1 ELSE 0
  /\ charged' = (IF Rolled(c) THEN {} ELSE charged) \cup (IF refused THEN {} ELSE {c})
  /\ admitted' = [admitted EXCEPT ![today[c]][q] = @ + IF refused THEN 0 ELSE n]
  /\ IF refused THEN Return(c, "budget") ELSE GoTo(c, IF q = "sim" THEN "slot" ELSE "post")
  /\ UNCHANGED <<clock, op, today, cancelled, attempts, slots, executed>>

SlotFree_OffByOne == slots <= MaxConcurrentSims

(* The capacity of simSem.                                                  *)
SlotFree == slots < MaxConcurrentSims

(* reserveSimSlot: the send on simSem, ...                                  *)
ReserveSimSlot(c) ==
  /\ pc[c] = "slot"
  /\ SlotFree
  /\ slots' = slots + 1
  /\ GoTo(c, "post")
  /\ UNCHANGED <<clock, op, today, cancelled, attempts, budget, executed, history>>

(* ... or ctx.Done; select may take either when both are ready.             *)
AbandonSlot(c) ==
  /\ pc[c] = "slot"
  /\ cancelled[c]
  /\ Return(c, "ctx")
  /\ UNCHANGED <<clock, op, today, cancelled, attempts, budget, slots, executed, history>>

Released_OnSuccess(c) == IF result'[c] = "ok" THEN slots - 1 ELSE slots

(* defer release(): on every return after the slot was taken.               *)
Released(c) == IF op[c].quota = "sim" THEN slots - 1 ELSE slots

(* Client.do returns an error without sending (again): ctx or ban.          *)
Refused(c) ==
  /\ pc[c] = "post"
  /\ cancelled[c] \/ attempts[c] = 0
  /\ Return(c, "refused")
  /\ slots' = Released(c)
  /\ UNCHANGED <<clock, op, today, cancelled, attempts, budget, executed, history>>

MayRepeat_OffByOne(c) == attempts[c] <= MaxRetries

MayRepeat(c) == attempts[c] < MaxRetries

(* One POST.  The answer may be an error, or be lost, after the server has  *)
(* carried the request out; do then repeats it while retries are left.  A   *)
(* 201 without a usable Location is an error too.                           *)
Attempt(c) ==
  /\ pc[c] = "post"
  /\ ~cancelled[c]
  /\ attempts' = [attempts EXCEPT ![c] = @ + 1]
  /\ \E done \in BOOLEAN :
       /\ executed' = [executed EXCEPT ![c] = @ + IF done THEN 1 ELSE 0]
       /\ \/ /\ MayRepeat(c)
             /\ GoTo(c, "post")
             /\ UNCHANGED slots
          \/ /\ \E r \in IF done THEN {"ok", "location", "error"} ELSE {"error"} : Return(c, r)
             /\ slots' = Released(c)
  /\ UNCHANGED <<clock, op, today, cancelled, budget, history>>

Midnight ==
  /\ clock < LastDay
  /\ clock' = clock + 1
  /\ UNCHANGED <<calls, budget, slots, executed, history>>

CancelContext(c) ==
  /\ pc[c] # "done"
  /\ ~cancelled[c]
  /\ cancelled' = [cancelled EXCEPT ![c] = TRUE]
  /\ UNCHANGED <<clock, pc, op, today, attempts, result, budget, slots, executed, history>>

(* The steps of a call that has begun.                                      *)
Step(c) ==
  \/ ReadDay(c)
  \/ CheckBudget(c)
  \/ ReserveSimSlot(c)
  \/ AbandonSlot(c)
  \/ Refused(c)
  \/ Attempt(c)

Next ==
  \/ \E c \in Calls :
       \/ CreateSimulation(c)
       \/ CreateMultiSimulation(c)
       \/ SubmitAlpha(c)
       \/ InvalidArgument(c)
       \/ Step(c)
       \/ CancelContext(c)
  \/ Midnight

Spec == Init /\ [][Next]_vars

-----------------------------------------------------------------------------
(* Properties                                                               *)

TypeOK ==
  /\ clock \in Days
  /\ pc \in [Calls -> {"idle", "day", "budget", "slot", "post", "done"}]
  /\ op \in [Calls -> [quota : Quotas, n : Nat]]
  /\ today \in [Calls -> Days \cup {0}]
  /\ budgetDay \in Days \cup {0}
  /\ used \in [Quotas -> Nat]
  /\ slots \in 0 .. MaxConcurrentSims
  /\ cancelled \in [Calls -> BOOLEAN]
  /\ attempts \in [Calls -> Nat]
  /\ result \in [Calls -> {"none", "invalid", "budget", "ctx", "refused", "ok", "location", "error"}]
  /\ executed \in [Calls -> Nat]
  /\ admitted \in [Days -> [Quotas -> Nat]]
  /\ charged \subseteq Calls
  /\ late \in Nat

(* The calls that hold a slot: between reserveSimSlot and its release.      *)
InFlight == {c \in Calls : pc[c] = "post" /\ op[c].quota = "sim"}

(* The semaphore's count is the number of POST /simulations in flight, on   *)
(* every way in and out: no error path or cancellation leaks a slot or      *)
(* gives one back twice, so there are never more than MaxConcurrentSims.    *)
SlotsMatchCalls == slots = Cardinality(InFlight) /\ slots <= MaxConcurrentSims

(* The units of quota q that the calls of S take, one by one.               *)
Units(S, q) == UNION {{c} \X (1 .. op[c].n) : c \in {d \in S : op[d].quota = q}}

(* The counters hold exactly the units of the calls that were let through   *)
(* since they were reset: a batch refused at the gate leaves nothing        *)
(* behind, and a rollover drops both quotas, whoever notices it.            *)
CountersMatchCalls == \A q \in Quotas : used[q] = Cardinality(Units(charged, q))

(* A quota is exceeded under a day's name only because of calls that read   *)
(* their day before the rollover and reached the lock after it, and by at   *)
(* most one further budget for each of them.                                *)
OverrunNeedsStraggler ==
  \A t \in Days, q \in Quotas :
    Limit[q] > 0 => admitted[t][q] <= Limit[q] * (1 + late)

(* The units that were admitted under any day's name, and what the server   *)
(* carried out: each unit of a call as often as its request.                *)
Admitted(q) == UNION {{t} \X (1 .. admitted[t][q]) : t \in Days}
Executions(q) == UNION {Units({c}, q) \X (1 .. executed[c]) : c \in Calls}

(* What the server carries out stays within the units that were counted,    *)
(* times the attempts of Client.do: it repeats a POST it got no answer to,  *)
(* and nothing is sent for a call the gate refused.                         *)
ExecutionsWithinUnits ==
  \A q \in Quotas :
    Cardinality(Executions(q)) <= Cardinality(Admitted(q)) * (1 + MaxRetries)

(* DailyBudget: "enforces in-process quota gates per BRAIN challenge-day".  *)
(* The day is read before the lock, so a call that meets the rollover       *)
(* between the two turns the counters back and starts a new budget.         *)
BudgetPerDay ==
  \A t \in Days, q \in Quotas : Limit[q] > 0 => admitted[t][q] <= Limit[q]

=============================================================================
