------------------------- MODULE AltchaSolverProofs -------------------------
(***************************************************************************)
(* Proofs about AltchaSolver, for every range and every number of workers: *)
(* a number returned solves the challenge, and ErrNoSolution is returned   *)
(* only when nothing in the range does.                                    *)
(***************************************************************************)
EXTENDS Register, TLAPS

(* The numbers worker w visits.                                             *)
Stripe(w) == {w + k * NumWorkers : k \in Nat}

(* There is at least one worker, and at most one for each number.           *)
LEMMA WorkerCount == NumWorkers \in Nat \ {0} /\ Numbers \subseteq Nat
BY SolverAssumption DEF NumWorkers, Requested, Numbers

(* Division with remainder: which stripe a number is in.                    *)
LEMMA Division ==
  \A m \in Nat, d \in Nat \ {0} :
    /\ m % d \in 0 .. d - 1
    /\ m \div d \in Nat
    /\ m = (m % d) + (m \div d) * d
BY Z3

(* The stripes leave no gap.                                                *)
LEMMA StripesCover == \A m \in Numbers : \E w \in Workers : m \in Stripe(w)
<1> SUFFICES ASSUME NEW m \in Numbers PROVE \E w \in Workers : m \in Stripe(w)
  OBVIOUS
<1>1. m % NumWorkers \in Workers
  BY WorkerCount, Division DEF Workers
<1>2. m \in Stripe(m % NumWorkers)
  BY WorkerCount, Division DEF Stripe
<1> QED
  BY <1>1, <1>2

(* Between two visits of a worker its stripe has no number.                 *)
LEMMA StripeStep ==
  ASSUME NEW w \in Workers, NEW p \in Stripe(w), NEW m \in Stripe(w), m < p + NumWorkers
  PROVE  m <= p /\ p + NumWorkers \in Stripe(w)
<1>1. PICK j \in Nat : p = w + j * NumWorkers
  BY DEF Stripe
<1>2. PICK k \in Nat : m = w + k * NumWorkers
  BY DEF Stripe
<1>3. w \in Nat /\ NumWorkers \in Nat /\ NumWorkers > 0
  BY WorkerCount DEF Workers
<1>4. p + NumWorkers = w + (j + 1) * NumWorkers
  BY <1>1, <1>3
<1>5. k <= j
  <2>1. SUFFICES ASSUME k >= j + 1 PROVE FALSE
    BY <1>1, <1>2
  <2>2. (k - (j + 1)) * NumWorkers >= 0
    BY <1>3, <2>1
  <2>3. k * NumWorkers >= (j + 1) * NumWorkers
    BY <1>3, <2>2
  <2> QED
    BY <1>2, <1>3, <1>4, <2>3
<1>6. (j - k) * NumWorkers >= 0
  BY <1>3, <1>5
<1>7. m <= p
  BY <1>1, <1>2, <1>3, <1>6
<1> QED
  BY <1>4, <1>7 DEF Stripe

-----------------------------------------------------------------------------
(* The inductive invariant                                                  *)

(* Worker v stands on its stripe and has left no match behind it.           *)
Scanned(v) ==
  /\ n[v] \in Stripe(v)
  /\ \A m \in Stripe(v) : m < n[v] => m \notin matches

(* A worker at a step past the hash has a match; one that is done has       *)
(* exhausted its stripe, or there is a find or a done context to show.      *)
Justified(v) ==
  /\ pc[v] = "hash" => InRange(v)
  /\ pc[v] = "swap" => n[v] \in matches
  /\ pc[v] = "stop" => found # -1
  /\ pc[v] = "done" => ~InRange(v) \/ found # -1 \/ cancelled

Exhausted == \A v \in Workers : ~InRange(v)

SearchInv ==
  /\ TypeOK
  /\ \A v \in Workers : Scanned(v) /\ Justified(v)
  /\ found # -1 => found \in matches
  /\ stop => found # -1 \/ cancelled
  /\ watcher = "store" => cancelled
  /\ main # "wait" => \A v \in Workers : pc[v] = "done"
  /\ main = "found" => Exhausted \/ found # -1
  /\ result.err = "nil" => result.number \in matches
  /\ result.err = "no_solution" => matches = {}

(* Before the first hash nothing is scanned.                                *)
LEMMA SearchInit == Init => SearchInv
<1> SUFFICES ASSUME Init PROVE SearchInv
  OBVIOUS
<1>1. \A v \in Workers : v \in Stripe(v) /\ v \in Nat
  BY WorkerCount DEF Stripe, Workers
<1>2. TypeOK
  BY <1>1 DEF Init, TypeOK, NotFound, NoResult
<1>3. ASSUME NEW v \in Workers PROVE Scanned(v)
  <2>1. \A m \in Stripe(v) : ~(m < v)
    <3> SUFFICES ASSUME NEW k \in Nat PROVE ~(v + k * NumWorkers < v)
      BY DEF Stripe
    <3>1. k * NumWorkers >= 0
      BY WorkerCount
    <3> QED
      BY <1>1, <3>1, WorkerCount
  <2> QED
    BY <1>1, <2>1 DEF Init, Scanned
<1>4. \A v \in Workers : Justified(v)
  BY DEF Init, Justified
<1> QED
  BY <1>2, <1>3, <1>4 DEF Init, SearchInv, NotFound, NoResult

(* When every stripe is exhausted there is no match.                        *)
LEMMA NothingLeft ==
  ASSUME SearchInv, Exhausted PROVE matches = {}
<1> SUFFICES ASSUME NEW m \in matches PROVE FALSE
  OBVIOUS
<1>1. m \in Numbers
  BY DEF SearchInv, TypeOK
<1>2. PICK v \in Workers : m \in Stripe(v)
  BY <1>1, StripesCover
<1>3. n[v] > MaxNumber /\ n[v] \in Nat
  BY SolverAssumption DEF Exhausted, InRange, SearchInv, TypeOK
<1>4. m < n[v]
  BY <1>1, <1>3, SolverAssumption DEF Numbers
<1> QED
  BY <1>2, <1>4 DEF SearchInv, Scanned

(* A step of one worker keeps what the other workers have established.      *)
LEMMA OthersKept ==
  ASSUME SearchInv, NEW w \in Workers, NEW v \in Workers, v # w,
         \E l \in {"loop", "hash", "swap", "stop", "done"} : GoTo(w, l),
         n'[v] = n[v], found # -1 => found' # -1,
         UNCHANGED <<matches, cancelled>>
  PROVE  Scanned(v)' /\ Justified(v)'
<1>1. pc'[v] = pc[v]
  BY DEF GoTo, SearchInv, TypeOK
<1> QED
  BY <1>1 DEF SearchInv, Scanned, Justified, InRange, Stripe, NumWorkers, Requested

(* A worker advances only past a number that does not match.                *)
LEMMA HashStep ==
  ASSUME SearchInv, NEW w \in Workers, Hash(w)
  PROVE  /\ n' \in [Workers -> Nat] /\ \A v \in Workers : v # w => n'[v] = n[v]
         /\ Scanned(w)' /\ Justified(w)'
<1>0. NumWorkers' = NumWorkers /\ Stripe(w)' = Stripe(w)
  BY DEF NumWorkers, Requested, Stripe
<1>1. n[w] \in Nat /\ n[w] \in Stripe(w) /\ NumWorkers \in Nat
      /\ n \in [Workers -> Nat]
      /\ \A m \in Stripe(w) : m < n[w] => m \notin matches
  BY WorkerCount DEF SearchInv, TypeOK, Scanned
<1>2. CASE n[w] \in matches /\ GoTo(w, "swap") /\ UNCHANGED n
  BY <1>0, <1>1, <1>2 DEF Hash, GoTo, Scanned, Justified, SearchInv, TypeOK
<1>3. CASE /\ n[w] \notin matches
           /\ n' = [n EXCEPT ![w] = @ + NumWorkers]
           /\ GoTo(w, "loop")
  <2>1. n'[w] = n[w] + NumWorkers /\ pc'[w] = "loop" /\ matches' = matches
    BY <1>1, <1>3 DEF Hash, GoTo, SearchInv, TypeOK
  <2>2. n'[w] \in Stripe(w)
    BY <1>1, <2>1, StripeStep
  <2>3. ASSUME NEW m \in Stripe(w), m < n'[w] PROVE m \notin matches
    <3>1. m <= n[w] /\ m \in Int
      BY <1>1, <2>1, <2>3, StripeStep, WorkerCount DEF Stripe, Workers
    <3> QED
      BY <1>1, <1>3, <3>1
  <2> QED
    BY <1>0, <1>1, <1>3, <2>1, <2>2, <2>3 DEF Scanned, Justified
<1> QED
  BY <1>2, <1>3 DEF Hash

(* Every step keeps the invariant.                                          *)
LEMMA SearchStep == SearchInv /\ [Next]_vars => SearchInv'
<1> SUFFICES ASSUME SearchInv, [Next]_vars PROVE SearchInv'
  OBVIOUS
<1>0. /\ NumWorkers' = NumWorkers /\ Workers' = Workers
      /\ \A v \in Workers : Stripe(v)' = Stripe(v)
  BY DEF NumWorkers, Requested, Workers, Stripe
<1>1. ASSUME NEW w \in Workers, CheckStop(w) PROVE SearchInv'
  <2>1. \E l \in {"loop", "hash", "swap", "stop", "done"} : GoTo(w, l)
    BY <1>1 DEF CheckStop
  <2>2. \A v \in Workers : v # w => Scanned(v)' /\ Justified(v)'
    BY <1>1, <2>1, OthersKept DEF CheckStop
  <2>3. Scanned(w)' /\ Justified(w)'
    BY <1>0, <1>1 DEF CheckStop, GoTo, Scanned, Justified, InRange, SearchInv, TypeOK
  <2>4. TypeOK'
    BY <1>0, <1>1 DEF CheckStop, GoTo, SearchInv, TypeOK
  <2>5. main = "wait" /\ UNCHANGED <<main, n>>
    BY <1>1 DEF CheckStop, SearchInv
  <2> QED
    BY <1>1, <2>2, <2>3, <2>4, <2>5 DEF CheckStop, SearchInv
<1>2. ASSUME NEW w \in Workers, Hash(w) PROVE SearchInv'
  <2>1. \E l \in {"loop", "hash", "swap", "stop", "done"} : GoTo(w, l)
    BY <1>2 DEF Hash
  <2>2. n' \in [Workers -> Nat] /\ \A v \in Workers : v # w => n'[v] = n[v]
    BY <1>2, HashStep
  <2>3. \A v \in Workers : v # w => Scanned(v)' /\ Justified(v)'
    BY <1>2, <2>1, <2>2, OthersKept DEF Hash
  <2>4. Scanned(w)' /\ Justified(w)'
    BY <1>2, HashStep
  <2>5. TypeOK'
    BY <1>0, <1>2, <2>1, <2>2 DEF Hash, GoTo, SearchInv, TypeOK
  <2>6. main = "wait"
    BY <1>2 DEF Hash, SearchInv
  <2> QED
    BY <1>2, <2>3, <2>4, <2>5, <2>6 DEF Hash, SearchInv
<1>3. ASSUME NEW w \in Workers, CompareAndSwap(w) PROVE SearchInv'
  <2>1. \E l \in {"loop", "hash", "swap", "stop", "done"} : GoTo(w, l)
    BY <1>3 DEF CompareAndSwap
  <2>2. found' \in matches /\ found' # -1
    BY <1>3 DEF CompareAndSwap, Swap, Find, NotFound, SearchInv, Justified, TypeOK
  <2>3. \A v \in Workers : v # w => Scanned(v)' /\ Justified(v)'
    BY <1>3, <2>1, <2>2, OthersKept DEF CompareAndSwap
  <2>4. Scanned(w)' /\ Justified(w)'
    BY <1>0, <1>3, <2>2 DEF CompareAndSwap, GoTo, Scanned, Justified, SearchInv, TypeOK
  <2>5. TypeOK'
    BY <1>0, <1>3, <2>1, <2>2 DEF CompareAndSwap, GoTo, SearchInv, TypeOK
  <2>6. main = "wait"
    BY <1>3 DEF CompareAndSwap, SearchInv
  <2> QED
    BY <1>3, <2>2, <2>3, <2>4, <2>5, <2>6 DEF CompareAndSwap, SearchInv
<1>4. ASSUME NEW w \in Workers, StoreStop(w) PROVE SearchInv'
  <2>1. \E l \in {"loop", "hash", "swap", "stop", "done"} : GoTo(w, l)
    BY <1>4 DEF StoreStop
  <2>2. \A v \in Workers : v # w => Scanned(v)' /\ Justified(v)'
    BY <1>4, <2>1, OthersKept DEF StoreStop
  <2>3. found # -1
    BY <1>4 DEF StoreStop, SearchInv, Justified
  <2>4. Scanned(w)' /\ Justified(w)'
    BY <1>0, <1>4, <2>3 DEF StoreStop, GoTo, Scanned, Justified, SearchInv, TypeOK
  <2>5. TypeOK'
    BY <1>0, <1>4 DEF StoreStop, GoTo, SearchInv, TypeOK
  <2>6. main = "wait"
    BY <1>4 DEF StoreStop, SearchInv
  <2> QED
    BY <1>4, <2>2, <2>3, <2>4, <2>5, <2>6 DEF StoreStop, SearchInv
<1>5. CASE Watch \/ Cancel
  <2>1. \A v \in Workers : Scanned(v)' /\ Justified(v)'
    BY <1>0, <1>5 DEF Watch, WatchContext, WatchStore, WatchReturn, Cancel,
                      SearchInv, Scanned, Justified, InRange
  <2>2. TypeOK'
    BY <1>0, <1>5 DEF Watch, WatchContext, WatchStore, WatchReturn, Cancel, SearchInv, TypeOK
  <2> QED
    BY <1>0, <1>5, <2>1, <2>2
    DEF Watch, WatchContext, WatchStore, WatchReturn, Cancel, SearchInv, Exhausted, InRange
<1>6. CASE Wait \/ ReadContext
  <2>1. \A v \in Workers : Scanned(v)' /\ Justified(v)'
    BY <1>0, <1>6 DEF Wait, ReadContext, SearchInv, Scanned, Justified, InRange
  <2>2. TypeOK'
    BY <1>0, <1>6 DEF Wait, ReadContext, Return, NoResult, SearchInv, TypeOK
  <2>3. main' # "wait" => \A v \in Workers : pc'[v] = "done"
    BY <1>6 DEF Wait, ReadContext, SearchInv
  <2>4. main' = "found" => Exhausted' \/ found' # -1
    <3> SUFFICES ASSUME main' = "found" PROVE Exhausted' \/ found' # -1
      OBVIOUS
    <3>1. ~cancelled /\ UNCHANGED <<n, found>> /\ \A v \in Workers : pc[v] = "done"
      BY <1>6 DEF Wait, ReadContext, Return, CheckContext, SearchInv
    <3> QED
      BY <1>0, <3>1 DEF SearchInv, Justified, Exhausted, InRange
  <2>5. UNCHANGED <<matches, found, stop, watcher, cancelled>> /\ result'.err \in {result.err, "ctx"}
        /\ (result'.err # "ctx" => result' = result)
    BY <1>6 DEF Wait, ReadContext, Return, NoResult
  <2> QED
    BY <2>1, <2>2, <2>3, <2>4, <2>5 DEF SearchInv
<1>7. CASE ReadFound
  <2>1. \A v \in Workers : Scanned(v)' /\ Justified(v)'
    BY <1>0, <1>7 DEF ReadFound, SearchInv, Scanned, Justified, InRange
  <2>2. TypeOK'
    BY <1>0, <1>7 DEF ReadFound, Return, NoResult, SearchInv, TypeOK
  <2>3. result'.err = "no_solution" => matches = {}
    <3>1. result'.err = "no_solution" => found = -1
      BY <1>7, SolverAssumption DEF ReadFound, Return, NoResult, SearchInv, TypeOK, Numbers
    <3> QED
      BY <1>7, <3>1, NothingLeft DEF ReadFound, SearchInv
  <2>4. result'.err = "nil" => result'.number \in matches
    BY <1>7 DEF ReadFound, Return, NoResult, SearchInv, TypeOK
  <2> QED
    BY <1>7, <2>1, <2>2, <2>3, <2>4 DEF ReadFound, Return, SearchInv
<1>8. CASE UNCHANGED vars
  BY <1>0, <1>8 DEF vars, SearchInv, TypeOK, Scanned, Justified, InRange, Exhausted
<1> QED
  BY <1>1, <1>2, <1>3, <1>4, <1>5, <1>6, <1>7, <1>8 DEF Next, Work, Collect

-----------------------------------------------------------------------------
(* Theorems                                                                 *)

(* SearchInv is an invariant of the search.                                 *)
THEOREM SearchInvariant == Spec => []SearchInv
BY SearchInit, SearchStep, PTL DEF Spec

(* The types, for every range and number of workers.                        *)
THEOREM TypesHold == Spec => []TypeOK
<1>1. SearchInv => TypeOK
  BY DEF SearchInv
<1> QED
  BY <1>1, SearchInvariant, PTL

(* ErrNoSolution is returned only when no number of the range matches.      *)
THEOREM NoSolutionIsNeverAGuess == Spec => []NoSolutionIsTrue
<1>1. SearchInv => NoSolutionIsTrue
  BY DEF SearchInv, NoSolutionIsTrue
<1> QED
  BY <1>1, SearchInvariant, PTL

(* A number that is returned solves the challenge.                          *)
THEOREM SolutionsAreTrue == Spec => []SolutionIsTrue
<1>1. SearchInv => SolutionIsTrue
  BY DEF SearchInv, SolutionIsTrue
<1> QED
  BY <1>1, SearchInvariant, PTL

(* No step replaces a number once found.                                    *)
THEOREM FirstFindIsKept == Spec => FirstFindStays
<1>1. [Next]_vars => [found # NotFound => found' = found]_vars
  BY DEF Next, Work, CheckStop, Hash, CompareAndSwap, Swap, StoreStop, Watch, WatchContext,
         WatchStore, WatchReturn, Collect, Wait, ReadContext, ReadFound, Cancel, vars
<1> QED
  BY <1>1, PTL DEF Spec, FirstFindStays

-----------------------------------------------------------------------------
(* The registration around the search                                       *)

(* Before the reply an account means a lost answer; a POST without a        *)
(* captcha of the caller's carries a solution of the search.                *)
RegisterInv ==
  /\ stage = "over" <=> reply # "none"
  /\ reply \in {"user", "nil_user"} => account
  /\ reply \notin {"user", "nil_user"} /\ account => lost
  /\ stage = "post" /\ ~input.captcha => result.err = "nil"
  /\ ~forged

(* A step of the registration is a step of the search, or none.             *)
LEMMA RegisterStepsSearch == [RegisterNext]_registration => [Next]_vars
BY DEF RegisterNext, RegisterStep, registration, Validate, FetchCaptcha, Solved, BrainAnswers,
       AnswerLost, Blocked, Aborted, Search, WatchSearch, CancelRegister, Next

(* The types of the registration's own variables, and of its two bounds.    *)
RegisterTypes ==
  /\ stage \in {"validate", "fetch", "solve", "post", "over"}
  /\ reply \in {"none", "user", "nil_user", "error"}
  /\ errAttempt \in 0 .. MaxRetries
  /\ input \in [complete : BOOLEAN, captcha : BOOLEAN]
  /\ solver \in BOOLEAN
  /\ forged \in BOOLEAN /\ account \in BOOLEAN /\ spent \in BOOLEAN /\ lost \in BOOLEAN

(* What ends a call, or repeats it, has a place in the types.               *)
LEMMA RepliesHaveTypes ==
  ASSUME RegisterTypes, NEW s,
         \/ Answered(s) /\ UNCHANGED errAttempt
         \/ Fail
         \/ Repeat
  PROVE  /\ stage' \in {"validate", "fetch", "solve", "post", "over"}
         /\ reply' \in {"none", "user", "nil_user", "error"}
         /\ errAttempt' \in 0 .. MaxRetries
<1>1. CASE Answered(s) /\ UNCHANGED errAttempt
  BY <1>1 DEF Answered, Reply, RegisterTypes
<1>2. CASE Fail
  BY <1>2 DEF Fail, Reply, RegisterTypes
<1>3. CASE Repeat
  BY <1>3, RegisterAssumption DEF Repeat, MayRepeat, RegisterTypes
<1> QED
  BY <1>1, <1>2, <1>3

(* The steps keep them.                                                     *)
LEMMA RegisterTypesStep == RegisterTypes /\ [RegisterNext]_registration => RegisterTypes'
<1> SUFFICES ASSUME RegisterTypes, [RegisterNext]_registration PROVE RegisterTypes'
  OBVIOUS
<1>1. CASE BrainAnswers
  <2>1. forged' \in BOOLEAN
    BY <1>1 DEF BrainAnswers, RegisterTypes
  <2>2. account' \in BOOLEAN /\ spent' \in BOOLEAN
    BY <1>1 DEF BrainAnswers, Created, RegisterTypes
  <2>3. \E s : Answered(s) \/ Fail
    BY <1>1 DEF BrainAnswers, Fail
  <2>4. UNCHANGED errAttempt
    BY <1>1 DEF BrainAnswers
  <2>5. /\ stage' \in {"validate", "fetch", "solve", "post", "over"}
        /\ reply' \in {"none", "user", "nil_user", "error"}
    BY <2>3, <2>4, RepliesHaveTypes
  <2> QED
    BY <1>1, <2>1, <2>2, <2>5 DEF BrainAnswers, RegisterTypes
<1>2. CASE AnswerLost
  <2>1. /\ stage' \in {"validate", "fetch", "solve", "post", "over"}
        /\ reply' \in {"none", "user", "nil_user", "error"}
        /\ errAttempt' \in 0 .. MaxRetries
    BY <1>2, RepliesHaveTypes DEF AnswerLost
  <2>2. account' \in BOOLEAN /\ spent' \in BOOLEAN /\ lost' \in BOOLEAN
    BY <1>2 DEF AnswerLost, Created, RegisterTypes
  <2> QED
    BY <1>2, <2>1, <2>2 DEF AnswerLost, RegisterTypes
<1>3. CASE Blocked \/ Aborted
  <2>1. /\ stage' \in {"validate", "fetch", "solve", "post", "over"}
        /\ reply' \in {"none", "user", "nil_user", "error"}
        /\ errAttempt' \in 0 .. MaxRetries
    BY <1>3, RepliesHaveTypes DEF Blocked, Aborted
  <2> QED
    BY <1>3, <2>1 DEF Blocked, Aborted, brain, RegisterTypes
<1>4. CASE Validate \/ FetchCaptcha \/ Solved
  BY <1>4 DEF Validate, FetchCaptcha, Solved, Enter, Reply, brain, RegisterTypes
<1>5. CASE Search \/ WatchSearch \/ CancelRegister \/ UNCHANGED registration
  BY <1>5 DEF Search, WatchSearch, CancelRegister, registration, registerVars, RegisterTypes
<1> QED
  BY <1>1, <1>2, <1>3, <1>4, <1>5 DEF RegisterNext, RegisterStep

(* Every step keeps the invariant, given that solutions are true.           *)
LEMMA RegisterInvStep ==
  ASSUME RegisterInv, RegisterTypes, SolutionIsTrue, TypeOK, [RegisterNext]_registration
  PROVE  RegisterInv'
<1> USE DEF RegisterInv, RegisterTypes
<1>1. CASE Validate
  BY <1>1 DEF Validate, Reply, Enter, brain, vars
<1>2. CASE FetchCaptcha
  BY <1>2 DEF FetchCaptcha, Reply, Enter, brain, vars
<1>3. CASE Search
  BY <1>3 DEF Search, registerVars
<1>4. CASE Solved
  BY <1>4 DEF Solved, Reply, Enter, brain, vars
<1>5. CASE BrainAnswers
  <2>1. CASE Created /\ (\E s \in {"200", "201"} : Answered(s)) /\ UNCHANGED forged
    BY <1>5, <2>1 DEF BrainAnswers, Created, Answered, Status, Reply, vars
  <2>2. CASE Reply("error") /\ UNCHANGED <<account, spent>> /\ forged' = (forged \/ ~Payload)
    <3>1. stage = "post" /\ UNCHANGED <<input, lost, result>>
      BY <1>5 DEF BrainAnswers, Posting, vars
    <3>2. Payload
      BY <3>1 DEF Payload, SolutionIsTrue
    <3> QED
      BY <2>2, <3>1, <3>2 DEF Reply
  <2> QED
    BY <1>5, <2>1, <2>2 DEF BrainAnswers
<1>6. CASE AnswerLost
  <2>1. /\ stage = "post" /\ UNCHANGED <<input, result, forged>>
        /\ account' => account \/ lost'
        /\ lost => lost'
        /\ \/ UNCHANGED <<stage, reply>>
           \/ stage' = "over" /\ reply' = "error"
    BY <1>6 DEF AnswerLost, Posting, Created, Repeat, Fail, Reply, vars
  <2> QED
    BY <2>1
<1>7. CASE Blocked
  BY <1>7 DEF Blocked, Posting, Repeat, Fail, Answered, Status, Reply, brain, vars
<1>8. CASE Aborted
  BY <1>8 DEF Aborted, Fail, Reply, brain, vars
<1>9. CASE WatchSearch
  BY <1>9 DEF WatchSearch, Watch, WatchContext, WatchStore, WatchReturn, registerVars
<1>10. CASE CancelRegister \/ UNCHANGED registration
  BY <1>10 DEF CancelRegister, Cancel, registration, registerVars, vars
<1> QED
  BY <1>1, <1>2, <1>3, <1>4, <1>5, <1>6, <1>7, <1>8, <1>9, <1>10 DEF RegisterNext, RegisterStep

(* Registration implements the search, whatever it does around it.          *)
THEOREM RegisterRunsSolve == RegisterSpec => Spec
<1>1. RegisterInit => Init
  BY DEF RegisterInit
<1> QED
  BY <1>1, RegisterStepsSearch, PTL DEF RegisterSpec, Spec

(* They hold at first.                                                      *)
LEMMA RegisterTypesInit == RegisterInit => RegisterTypes
<1> SUFFICES ASSUME RegisterInit PROVE RegisterTypes
  OBVIOUS
<1>1. errAttempt \in 0 .. MaxRetries
  BY RegisterAssumption DEF RegisterInit
<1>2. /\ solver \in BOOLEAN /\ forged \in BOOLEAN
      /\ account \in BOOLEAN /\ spent \in BOOLEAN /\ lost \in BOOLEAN
  BY DEF RegisterInit
<1> QED
  BY <1>1, <1>2 DEF RegisterInit, RegisterTypes

(* The registration's types: among them that the POST is never sent more    *)
(* than once and MaxRetries times again.                                    *)
THEOREM RegisterTypesHold == RegisterSpec => []RegisterTypeOK
<1>1. RegisterTypes /\ TypeOK => RegisterTypeOK
  BY DEF RegisterTypes, RegisterTypeOK
<1>2. RegisterSpec => []TypeOK
  BY RegisterRunsSolve, TypesHold, PTL
<1> QED
  BY <1>1, <1>2, RegisterTypesInit, RegisterTypesStep, PTL DEF RegisterSpec

(* An invariant of the registration, for every range, number of workers and *)
(* number of retries.                                                       *)
THEOREM RegisterInvariant == RegisterSpec => []RegisterInv
<1>1. RegisterInit => RegisterInv
  BY DEF RegisterInit, RegisterInv
<1>2. RegisterInv /\ RegisterTypes /\ SolutionIsTrue /\ TypeOK /\ [RegisterNext]_registration
        => RegisterInv'
  BY RegisterInvStep
<1>3. RegisterSpec => [](SolutionIsTrue /\ TypeOK)
  BY RegisterRunsSolve, SolutionsAreTrue, TypesHold, PTL
<1> QED
  BY <1>1, <1>2, <1>3, RegisterTypesInit, RegisterTypesStep, PTL DEF RegisterSpec

(* Register without an error means an account, and BRAIN never has cause to *)
(* refuse a number the search returned.                                     *)
THEOREM RegistrationsAreTrue == RegisterSpec => []RegisteredIsTrue
<1>1. RegisterInv => RegisteredIsTrue
  BY DEF RegisterInv, RegisteredIsTrue
<1> QED
  BY <1>1, RegisterInvariant, PTL

(* Only a lost answer leaves an account behind an error.                    *)
THEOREM ErrorsLeaveNoAccount == RegisterSpec => []ErrorMeansLost
<1>1. RegisterInv => ErrorMeansLost
  BY DEF RegisterInv, ErrorMeansLost
<1> QED
  BY <1>1, RegisterInvariant, PTL

-----------------------------------------------------------------------------
(* The search and the registration run out of steps                         *)

(* The numbers worker w may still reach, its own included.                  *)
Room(w) == IF InRange(w) THEN MaxNumber + 1 - n[w] ELSE 0

(* The measure of a worker: two steps for each of them, and those it takes  *)
(* before the next number, or before it ends.                               *)
WorkFuel(w) ==
  CASE pc[w] = "loop" -> 2 * Room(w) + 4
    [] pc[w] = "hash" -> 2 * Room(w) + 3
    [] pc[w] = "swap" -> 2
    [] pc[w] = "stop" -> 1
    [] pc[w] = "done" -> 0

WatchFuel == CASE watcher = "select" -> 2 [] watcher = "store" -> 1 [] watcher = "done" -> 0

CollectFuel ==
  CASE main = "wait" -> 3 [] main = "ctx" -> 2 [] main = "found" -> 1 [] main = "returned" -> 0

(* What a step of the search may do to the three measures: each goroutine   *)
(* lowers its own, and no one else touches it.                              *)
SearchBurns ==
  /\ \A w \in Workers : IF Work(w) THEN WorkFuel(w)' < WorkFuel(w) ELSE WorkFuel(w)' = WorkFuel(w)
  /\ IF Watch THEN WatchFuel' < WatchFuel ELSE WatchFuel' = WatchFuel
  /\ IF Collect THEN CollectFuel' < CollectFuel ELSE CollectFuel' = CollectFuel

(* The measures are numbers, bounded by the range alone, and spent exactly  *)
(* when their goroutine has ended.                                          *)
SearchBounded ==
  /\ \A w \in Workers : /\ WorkFuel(w) \in 0 .. 2 * MaxNumber + 6
                        /\ WorkFuel(w) = 0 <=> pc[w] = "done"
  /\ WatchFuel \in 0 .. 2 /\ (WatchFuel = 0 <=> watcher = "done")
  /\ CollectFuel \in 0 .. 3 /\ (CollectFuel = 0 <=> main = "returned")

(* A worker has finitely many numbers ahead of it.                          *)
LEMMA RoomType == ASSUME TypeOK, NEW w \in Workers PROVE Room(w) \in 0 .. MaxNumber + 1
BY SolverAssumption DEF Room, InRange, TypeOK

(* They are, in every state of the types.                                   *)
LEMMA SearchFuelTypes == ASSUME TypeOK PROVE SearchBounded
<1>1. ASSUME NEW w \in Workers
      PROVE  WorkFuel(w) \in 0 .. 2 * MaxNumber + 6 /\ (WorkFuel(w) = 0 <=> pc[w] = "done")
  <2>1. pc[w] \in {"loop", "hash", "swap", "stop", "done"}
    BY DEF TypeOK
  <2> QED
    BY <2>1, RoomType, SolverAssumption DEF WorkFuel
<1> QED
  BY <1>1 DEF SearchBounded, WatchFuel, CollectFuel, TypeOK

(* A worker that steps lowers its measure, and leaves the others alone.     *)
LEMMA WorkBurns ==
  ASSUME SearchInv, NEW w \in Workers, Work(w)
  PROVE  /\ WorkFuel(w)' < WorkFuel(w)
         /\ \A v \in Workers : v # w => WorkFuel(v)' = WorkFuel(v) /\ ~Work(v)
         /\ UNCHANGED <<watcher, main>>
<1> USE DEF SearchInv
<1>0. /\ pc[w] \in {"loop", "hash", "swap", "stop"} /\ n[w] \in Nat
      /\ Room(w) \in 0 .. MaxNumber + 1 /\ MaxNumber \in Nat
      /\ NumWorkers \in Nat \ {0} /\ NumWorkers' = NumWorkers
  BY RoomType, WorkerCount, SolverAssumption
  DEF TypeOK, Work, CheckStop, Hash, CompareAndSwap, StoreStop, NumWorkers, Requested
<1>1. \A v \in Workers : v # w => pc'[v] = pc[v] /\ n'[v] = n[v]
  BY DEF TypeOK, Work, CheckStop, Hash, CompareAndSwap, StoreStop, GoTo
<1>2. pc'[w] # pc[w]
  BY DEF TypeOK, Work, CheckStop, Hash, CompareAndSwap, StoreStop, GoTo
<1>3. \A v \in Workers : v # w => ~Work(v)
  <2> SUFFICES ASSUME NEW v \in Workers, v # w, Work(v) PROVE FALSE
    OBVIOUS
  <2>1. pc'[w] = pc[w]
    BY DEF TypeOK, Work, CheckStop, Hash, CompareAndSwap, StoreStop, GoTo
  <2> QED
    BY <1>2, <2>1
<1>4. \A v \in Workers : v # w => WorkFuel(v)' = WorkFuel(v)
  BY <1>1 DEF WorkFuel, Room, InRange
<1>5. WorkFuel(w)' < WorkFuel(w)
  <2>1. CASE CheckStop(w)
    <3>1. pc[w] = "loop" /\ pc'[w] \in {"hash", "done"} /\ n'[w] = n[w]
      BY <2>1 DEF CheckStop, GoTo, TypeOK
    <3>2. Room(w)' = Room(w)
      BY <3>1 DEF Room, InRange
    <3> QED
      BY <1>0, <3>1, <3>2 DEF WorkFuel
  <2>2. CASE Hash(w) /\ pc'[w] = "swap"
    <3>1. pc[w] = "hash"
      BY <2>2 DEF Hash
    <3> QED
      BY <1>0, <2>2, <3>1 DEF WorkFuel
  <2>3. CASE Hash(w) /\ pc'[w] = "loop" /\ InRange(w)
    <3>1. pc[w] = "hash" /\ n'[w] = n[w] + NumWorkers
      BY <2>3 DEF Hash, GoTo, TypeOK
    <3>2. Room(w) = MaxNumber + 1 - n[w]
      BY <2>3 DEF Room
    <3>3. Room(w)' = IF n'[w] <= MaxNumber THEN MaxNumber + 1 - n'[w] ELSE 0
      BY DEF Room, InRange
    <3>4. Room(w)' \in Nat /\ Room(w)' < Room(w)
      BY <1>0, <2>3, <3>1, <3>2, <3>3 DEF InRange
    <3> QED
      BY <1>0, <2>3, <3>1, <3>4 DEF WorkFuel
  <2>4. CASE CompareAndSwap(w)
    <3>1. pc[w] = "swap" /\ pc'[w] \in {"stop", "done"}
      BY <2>4 DEF CompareAndSwap, GoTo, TypeOK
    <3> QED
      BY <3>1 DEF WorkFuel
  <2>5. CASE StoreStop(w)
    <3>1. pc[w] = "stop" /\ pc'[w] = "done"
      BY <2>5 DEF StoreStop, GoTo, TypeOK
    <3> QED
      BY <3>1 DEF WorkFuel
  <2> QED
    BY <2>1, <2>2, <2>3, <2>4, <2>5 DEF Work, Hash, GoTo, TypeOK, Justified
<1> QED
  BY <1>3, <1>4, <1>5 DEF Work, CheckStop, Hash, CompareAndSwap, StoreStop

(* Every step of the search burns what it should.                           *)
LEMMA SearchStepBurns == SearchInv /\ [Next]_vars => SearchBurns
<1> SUFFICES ASSUME SearchInv, [Next]_vars PROVE SearchBurns
  OBVIOUS
<1>1. ASSUME NEW w \in Workers, Work(w) PROVE SearchBurns
  <2>1. watcher' = watcher /\ main' = main /\ ~Watch /\ ~Collect
    BY <1>1, WorkBurns
    DEF Watch, WatchContext, WatchStore, WatchReturn, Collect, Wait, ReadContext, ReadFound, Return
  <2>2. WatchFuel' = WatchFuel /\ CollectFuel' = CollectFuel
    BY <2>1 DEF WatchFuel, CollectFuel
  <2>3. \A v \in Workers : IF Work(v) THEN WorkFuel(v)' < WorkFuel(v) ELSE WorkFuel(v)' = WorkFuel(v)
    BY <1>1, WorkBurns
  <2> QED
    BY <2>1, <2>2, <2>3 DEF SearchBurns
<1>2. ASSUME UNCHANGED <<pc, n>>
      PROVE  \A w \in Workers : ~Work(w) /\ WorkFuel(w)' = WorkFuel(w)
  <2>1. \A w \in Workers : ~Work(w)
    BY <1>2 DEF Work, CheckStop, Hash, CompareAndSwap, StoreStop, GoTo, SearchInv, TypeOK
  <2>2. \A w \in Workers : WorkFuel(w)' = WorkFuel(w)
    BY <1>2 DEF WorkFuel, Room, InRange
  <2> QED
    BY <2>1, <2>2
<1>3. CASE Watch
  <2>1. UNCHANGED <<pc, n, main>> /\ ~Collect
    BY <1>3 DEF Watch, WatchContext, WatchStore, WatchReturn, Collect, Wait, ReadContext, ReadFound,
                Return
  <2>2. WatchFuel' < WatchFuel /\ CollectFuel' = CollectFuel
    BY <1>3, <2>1 DEF Watch, WatchContext, WatchStore, WatchReturn, WatchFuel, CollectFuel
  <2> QED
    BY <1>2, <1>3, <2>1, <2>2 DEF SearchBurns
<1>4. CASE Collect
  <2>1. UNCHANGED <<pc, n, watcher>> /\ ~Watch
    BY <1>4 DEF Watch, WatchContext, WatchStore, WatchReturn, Collect, Wait, ReadContext, ReadFound
  <2>2. CollectFuel' < CollectFuel /\ WatchFuel' = WatchFuel
    BY <1>4, <2>1 DEF Collect, Wait, ReadContext, ReadFound, Return, WatchFuel, CollectFuel
  <2> QED
    BY <1>2, <1>4, <2>1, <2>2 DEF SearchBurns
<1>5. CASE Cancel \/ UNCHANGED vars
  <2>1. UNCHANGED <<pc, n, watcher, main>>
    BY <1>5 DEF Cancel, vars
  <2>2. /\ ~Watch /\ ~Collect /\ WatchFuel' = WatchFuel /\ CollectFuel' = CollectFuel
    BY <2>1 DEF Watch, WatchContext, WatchStore, WatchReturn, Collect, Wait, ReadContext, ReadFound,
                Return, WatchFuel, CollectFuel
  <2> QED
    BY <1>2, <2>1, <2>2 DEF SearchBurns
<1> QED
  BY <1>1, <1>3, <1>4, <1>5 DEF Next

(* The registration: its stages, and the repetitions of the POST.           *)
RegisterFuel ==
  CASE stage = "validate" -> MaxRetries + 4
    [] stage = "fetch" -> MaxRetries + 3
    [] stage = "solve" -> MaxRetries + 2
    [] stage = "post" -> MaxRetries - errAttempt + 1
    [] stage = "over" -> 0

RegisterBounded ==
  /\ SearchBounded
  /\ RegisterFuel \in 0 .. MaxRetries + 4 /\ (RegisterFuel = 0 <=> stage = "over")

RegisterBurns ==
  /\ SearchBurns
  /\ IF RegisterStep THEN RegisterFuel' < RegisterFuel ELSE RegisterFuel' = RegisterFuel

(* The measure of the registration itself.                                  *)
LEMMA RegisterFuelType ==
  RegisterTypes => RegisterFuel \in 0 .. MaxRetries + 4 /\ (RegisterFuel = 0 <=> stage = "over")
BY RegisterAssumption DEF RegisterTypes, RegisterFuel

(* A step of Register goes on to a later stage, or pays with a repetition.  *)
LEMMA RegisterStepBurns ==
  ASSUME RegisterTypes, RegisterStep
  PROVE  RegisterFuel' < RegisterFuel
<1> USE DEF Reply, Enter
<1>0. MaxRetries \in Nat /\ errAttempt \in 0 .. MaxRetries
  BY RegisterAssumption DEF RegisterTypes
<1>1. ASSUME stage # "over", stage' = "over", stage \in {"validate", "fetch", "solve", "post"}
      PROVE  RegisterFuel' < RegisterFuel
  BY <1>0, <1>1 DEF RegisterFuel
<1>2. ASSUME stage = "post", Repeat PROVE RegisterFuel' < RegisterFuel
  <2>1. stage' = "post" /\ errAttempt' = errAttempt + 1 /\ errAttempt < MaxRetries
    BY <1>2 DEF Repeat, MayRepeat
  <2> QED
    BY <1>0, <1>2, <2>1 DEF RegisterFuel
<1>3. CASE Validate
  <2>1. stage = "validate" /\ stage' \in {"fetch", "post", "over"} /\ errAttempt' = errAttempt
    BY <1>3 DEF Validate
  <2> QED
    BY <1>0, <2>1 DEF RegisterFuel
<1>4. CASE FetchCaptcha
  <2>1. stage = "fetch" /\ stage' \in {"solve", "over"} /\ errAttempt' = errAttempt
    BY <1>4 DEF FetchCaptcha
  <2> QED
    BY <1>0, <2>1 DEF RegisterFuel
<1>5. CASE Solved
  <2>1. stage = "solve" /\ stage' \in {"post", "over"} /\ errAttempt' = errAttempt
    BY <1>5 DEF Solved
  <2> QED
    BY <1>0, <2>1 DEF RegisterFuel
<1>6. CASE BrainAnswers \/ Aborted
  <2>1. stage = "post" /\ stage' = "over"
    BY <1>6 DEF BrainAnswers, Aborted, Posting, Answered, Fail
  <2> QED
    BY <1>1, <2>1
<1>7. CASE AnswerLost \/ Blocked
  <2>1. stage = "post" /\ (Repeat \/ stage' = "over")
    BY <1>7 DEF AnswerLost, Blocked, Posting, Answered, Fail
  <2> QED
    BY <1>1, <1>2, <2>1
<1> QED
  BY <1>3, <1>4, <1>5, <1>6, <1>7 DEF RegisterStep

(* Solve leaves no goroutine running and Register does not go on for ever:  *)
(* each worker, the watcher, the collecting caller and the registration     *)
(* around them lowers a measure of its own with every step it takes, no     *)
(* other step changes it, and it is spent exactly when that one has ended.  *)
(* The bounds are those of the range and the retries, whatever matches.     *)
THEOREM RegisterRunsOut == RegisterSpec => []RegisterBounded /\ [][RegisterBurns]_registration
<1>1. RegisterTypes /\ SearchInv => RegisterBounded
  BY SearchFuelTypes, RegisterFuelType DEF SearchInv, RegisterBounded
<1>2. RegisterTypes /\ SearchInv /\ [RegisterNext]_registration => [RegisterBurns]_registration
  <2> SUFFICES ASSUME RegisterTypes, SearchInv, RegisterNext PROVE RegisterBurns
    OBVIOUS
  <2>1. SearchBurns
    BY RegisterStepsSearch, SearchStepBurns
  <2>2. CASE RegisterStep
    BY <2>1, <2>2, RegisterStepBurns DEF RegisterBurns
  <2>3. CASE ~RegisterStep
    <3>1. UNCHANGED <<stage, errAttempt>>
      BY <2>3 DEF RegisterNext, Search, WatchSearch, CancelRegister, registerVars
    <3>2. RegisterFuel' = RegisterFuel
      BY <3>1 DEF RegisterFuel
    <3> QED
      BY <2>1, <2>3, <3>2 DEF RegisterBurns
  <2> QED
    BY <2>2, <2>3
<1>3. RegisterSpec => []SearchInv
  BY RegisterRunsSolve, SearchInvariant, PTL
<1>4. RegisterSpec => []RegisterBounded
  BY <1>1, <1>3, RegisterTypesInit, RegisterTypesStep, PTL DEF RegisterSpec
<1>5. RegisterSpec => [][RegisterBurns]_registration
  BY <1>2, <1>3, RegisterTypesInit, RegisterTypesStep, PTL DEF RegisterSpec
<1> QED
  BY <1>4, <1>5

=============================================================================
