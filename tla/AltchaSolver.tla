---------------------------- MODULE AltchaSolver ----------------------------
(***************************************************************************)
(* Solve of pkg/captcha/altcha: the proof-of-work search that several      *)
(* goroutines race through, each along its own stripe of 0 .. MaxNumber,   *)
(* with a stop flag, a compare-and-swap on the number found, a goroutine   *)
(* that turns the context's end into the stop flag, and the caller waiting *)
(* for them all.                                                           *)
(*                                                                         *)
(* SHA-256 is abstracted to the set of the numbers whose hash is the       *)
(* challenge: any subset, empty for a tampered challenge.  The 64-bit      *)
(* counter does not wrap: MaxNumber plus the stride fits in an int64.      *)
(***************************************************************************)
EXTENDS Integers

CONSTANTS
  MaxNumber,   \* Challenge.MaxNumber
  OptWorkers,  \* the workers argument
  NumCPU       \* runtime.NumCPU

ASSUME SolverAssumption ==
  /\ MaxNumber \in Nat
  /\ OptWorkers \in Int
  /\ NumCPU \in Nat \ {0}

VARIABLES
  matches,    \* the n with hex(sha256(salt + n)) = challenge
  pc,         \* where each worker is
  n,          \* the worker's loop variable
  found,      \* the number found, -1 before
  stop,       \* the stop flag
  watcher,    \* the goroutine that watches ctx: "select", "store", "done"
  cancelled,  \* ctx.Err() # nil
  main,       \* the caller of Solve: "wait", "ctx", "found", "returned"
  result      \* what Solve returned

vars == <<matches, pc, n, found, stop, watcher, cancelled, main, result>>

(* workers <= 0 means NumCPU, and never more than there are numbers.        *)
Requested == IF OptWorkers <= 0 THEN NumCPU ELSE OptWorkers
NumWorkers == IF Requested > MaxNumber + 1 THEN MaxNumber + 1 ELSE Requested
Workers == 0 .. NumWorkers - 1

Numbers == 0 .. MaxNumber

NotFound_Zero == 0

(* The initial value of found: no number of the range.                      *)
NotFound == -1

NoResult == [err |-> "none", number |-> -1]

-----------------------------------------------------------------------------

Init ==
  /\ matches \in SUBSET Numbers
  /\ pc = [v \in Workers |-> "loop"]
  /\ n = [v \in Workers |-> v]
  /\ found = NotFound
  /\ stop = FALSE
  /\ watcher = "select"
  /\ cancelled = FALSE
  /\ main = "wait"
  /\ result = NoResult

GoTo(w, label) == pc' = [pc EXCEPT ![w] = label]

(* The loop condition of worker w.                                          *)
InRange(w) == n[w] <= MaxNumber

(* The head of the loop: the range is exhausted, or stop is set, or hash.   *)
CheckStop(w) ==
  /\ pc[w] = "loop"
  /\ GoTo(w, IF InRange(w) /\ ~stop THEN "hash" ELSE "done")
  /\ UNCHANGED <<matches, n, found, stop, watcher, cancelled, main, result>>

Hash(w) ==
  /\ pc[w] = "hash"
  /\ \/ /\ n[w] \in matches
        /\ GoTo(w, "swap")
        /\ UNCHANGED n
     \/ /\ n[w] \notin matches
        /\ n' = [n EXCEPT ![w] = @ + NumWorkers]
        /\ GoTo(w, "loop")
  /\ UNCHANGED <<matches, found, stop, watcher, cancelled, main, result>>

(* CompareAndSwap succeeds.                                                 *)
Swap(w) == found = NotFound

Find_Advanced(w) == n[w] + NumWorkers

Find(w) == n[w]

(* First writer wins; a later find is ignored.                              *)
CompareAndSwap(w) ==
  /\ pc[w] = "swap"
  /\ \/ Swap(w) /\ found' = Find(w) /\ GoTo(w, "stop")
     \/ ~Swap(w) /\ UNCHANGED found /\ GoTo(w, "done")
  /\ UNCHANGED <<matches, n, stop, watcher, cancelled, main, result>>

StoreStop(w) ==
  /\ pc[w] = "stop"
  /\ stop' = TRUE
  /\ GoTo(w, "done")
  /\ UNCHANGED <<matches, n, found, watcher, cancelled, main, result>>

(* The watcher: ctx.Done, or doneCh closed by Solve's return.               *)
WatchContext ==
  /\ watcher = "select"
  /\ cancelled
  /\ watcher' = "store"
  /\ UNCHANGED <<matches, pc, n, found, stop, cancelled, main, result>>

WatchStore ==
  /\ watcher = "store"
  /\ stop' = TRUE
  /\ watcher' = "done"
  /\ UNCHANGED <<matches, pc, n, found, cancelled, main, result>>

Released_Never == FALSE

(* defer close(doneCh).                                                     *)
Released == main = "returned"

WatchReturn ==
  /\ watcher = "select"
  /\ Released
  /\ watcher' = "done"
  /\ UNCHANGED <<matches, pc, n, found, stop, cancelled, main, result>>

(* wg.Wait.                                                                 *)
Wait ==
  /\ main = "wait"
  /\ \A w \in Workers : pc[w] = "done"
  /\ main' = "ctx"
  /\ UNCHANGED <<matches, pc, n, found, stop, watcher, cancelled, result>>

Return(r) ==
  /\ main' = "returned"
  /\ result' = r

CheckContext_Skipped == FALSE

(* The context is looked at before the number found.                        *)
CheckContext == cancelled

ReadContext ==
  /\ main = "ctx"
  /\ \/ CheckContext /\ Return([NoResult EXCEPT !.err = "ctx"])
     \/ ~CheckContext /\ main' = "found" /\ UNCHANGED result
  /\ UNCHANGED <<matches, pc, n, found, stop, watcher, cancelled>>

ReadFound ==
  /\ main = "found"
  /\ Return(IF found < 0 THEN [NoResult EXCEPT !.err = "no_solution"]
                         ELSE [err |-> "nil", number |-> found])
  /\ UNCHANGED <<matches, pc, n, found, stop, watcher, cancelled>>

Cancel ==
  /\ ~cancelled
  /\ cancelled' = TRUE
  /\ UNCHANGED <<matches, pc, n, found, stop, watcher, main, result>>

Work(w) == CheckStop(w) \/ Hash(w) \/ CompareAndSwap(w) \/ StoreStop(w)
Watch == WatchContext \/ WatchStore \/ WatchReturn
Collect == Wait \/ ReadContext \/ ReadFound

Next == (\E w \in Workers : Work(w)) \/ Watch \/ Collect \/ Cancel

Spec == Init /\ [][Next]_vars

FairSpec ==
  /\ Spec
  /\ \A w \in Workers : WF_vars(Work(w))
  /\ WF_vars(Watch)
  /\ WF_vars(Collect)

-----------------------------------------------------------------------------
(* Properties                                                               *)

TypeOK ==
  /\ matches \subseteq Numbers
  /\ pc \in [Workers -> {"loop", "hash", "swap", "stop", "done"}]
  /\ n \in [Workers -> Nat]
  /\ found \in Numbers \cup {-1}
  /\ stop \in BOOLEAN
  /\ watcher \in {"select", "store", "done"}
  /\ cancelled \in BOOLEAN
  /\ main \in {"wait", "ctx", "found", "returned"}
  /\ result \in [err : {"none", "ctx", "no_solution", "nil"}, number : Numbers \cup {-1}]

(* ErrNoSolution is never a guess: it is returned only when no number of    *)
(* the whole range matches, for any number of workers.  The stripes leave   *)
(* no gap, a worker stopped early has someone else's number or a done       *)
(* context to answer for it, and the context is read before the number.     *)
NoSolutionIsTrue == result.err = "no_solution" => matches = {}

(* A number returned solves the challenge.                                  *)
SolutionIsTrue == result.err = "nil" => result.number \in matches

(* First writer wins: a number once found is not replaced, and the number   *)
(* returned is the one found first.                                         *)
FirstFindStays == [][found # NotFound => found' = found]_vars

(* Solve returns, and leaves no goroutine behind: the watcher ends too,     *)
(* whether or not the context is ever cancelled.                            *)
SolveReturns == <>(main = "returned" /\ watcher = "done")

=============================================================================
