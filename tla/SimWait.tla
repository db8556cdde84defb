------------------------------ MODULE SimWait ------------------------------
(***************************************************************************)
(* WaitForSimulation and WaitForMultiSimulation: polling a simulation to   *)
(* its end, and the children of a multi-simulation one after the other,    *)
(* best effort.  The parent is simulation 0, its children are 1 .. kids in *)
(* the order of Children.                                                  *)
(*                                                                         *)
(* A poll is one Client.do: it gives a snapshot of the simulation, or an   *)
(* error (retries spent, not found, a body that does not decode, the       *)
(* context done).                                                          *)
(***************************************************************************)
EXTENDS Integers, Sequences, SequencesExt

CONSTANTS
  MaxChildren,   \* bound: children of a multi-simulation
  MaxLongPolls   \* Client.maxLongPolls

ASSUME SimWaitAssumption ==
  /\ MaxChildren \in Nat
  /\ MaxLongPolls \in Nat

VARIABLES
  kids,       \* len(Children) once the parent is terminal
  finished,   \* server: the simulations that have reached a terminal state
  cancelled,  \* ctx is done
  pc,         \* "get", "sleep", "next", "returned"
  current,    \* the simulation WaitForSimulation is polling
  polls,      \* i of its loop
  err,        \* the error WaitForSimulation returned, "nil" for none
  children,   \* children resolved so far
  firstErr,   \* the first child's error, "nil" for none
  parent,     \* the parent was returned
  tried       \* history: simulations that have been polled

vars == <<kids, finished, cancelled, pc, current, polls, err, children, firstErr, parent, tried>>

Sims == 0 .. MaxChildren
Children == [i \in 1 .. kids |-> i]

-----------------------------------------------------------------------------

Init ==
  /\ kids \in 0 .. MaxChildren
  /\ finished = {}
  /\ cancelled = FALSE
  /\ pc = "get"
  /\ current = 0
  /\ polls = 0
  /\ err = "nil"
  /\ children = <<>>
  /\ firstErr = "nil"
  /\ parent = FALSE
  /\ tried = {}

MorePolls_OffByOne == polls <= MaxLongPolls

(* i < c.maxLongPolls                                                       *)
MorePolls == polls < MaxLongPolls

Unanswered == <<kids, finished, cancelled, current, children, firstErr, parent>>

(* WaitForSimulation returns to its caller.                                 *)
Resolve(e) ==
  /\ pc' = "next"
  /\ err' = e

Terminal_Last == current \in finished \/ polls + 1 = MaxLongPolls

(* The snapshot shows an alpha, children, or a terminal status.             *)
Terminal == current \in finished

PollAgain ==
  /\ pc' = "sleep"
  /\ polls' = polls + 1
  /\ UNCHANGED err

(* A snapshot of the simulation: terminal, or sleep until the next poll.    *)
PollAnswers ==
  /\ pc = "get"
  /\ MorePolls
  /\ ~cancelled
  /\ tried' = tried \cup {current}
  /\ IF Terminal THEN Resolve("nil") /\ UNCHANGED polls ELSE PollAgain
  /\ UNCHANGED Unanswered

(* The edge's 403, when its body is JSON: it decodes to a simulation with   *)
(* no alpha, no children and no status, whatever BRAIN's has.               *)
PollBlocked ==
  /\ pc = "get"
  /\ MorePolls
  /\ ~cancelled
  /\ tried' = tried \cup {current}
  /\ PollAgain
  /\ UNCHANGED Unanswered

(* getSimulationRaw fails.                                                  *)
PollFails ==
  /\ pc = "get"
  /\ MorePolls
  /\ Resolve(IF cancelled THEN "ctx" ELSE "poll")
  /\ tried' = tried \cup {current}
  /\ UNCHANGED <<Unanswered, polls>>

(* ErrLongPollExceeded, after the sleep that follows the last poll.         *)
Exceeded ==
  /\ pc = "get"
  /\ ~MorePolls
  /\ Resolve("long_poll_exceeded")
  /\ UNCHANGED <<Unanswered, polls, tried>>

Wake ==
  /\ pc = "sleep"
  /\ pc' = "get"
  /\ UNCHANGED <<Unanswered, polls, err, tried>>

SleepCancelled ==
  /\ pc = "sleep"
  /\ cancelled
  /\ Resolve("ctx")
  /\ UNCHANGED <<Unanswered, polls, tried>>

-----------------------------------------------------------------------------
(* WaitForMultiSimulation                                                   *)

WaitFor(s) ==
  /\ current' = s
  /\ polls' = 0
  /\ pc' = "get"

(* The range over Children goes on, or ends.                                *)
NextChild ==
  IF current < kids
  THEN WaitFor(current + 1)
  ELSE pc' = "returned" /\ UNCHANGED <<current, polls>>

(* The parent's error is the call's.                                        *)
ParentFails ==
  /\ pc = "next"
  /\ current = 0
  /\ err # "nil"
  /\ pc' = "returned"
  /\ firstErr' = err
  /\ UNCHANGED <<kids, finished, cancelled, current, polls, err, children, parent, tried>>

ParentResolves ==
  /\ pc = "next"
  /\ current = 0
  /\ err = "nil"
  /\ parent' = TRUE
  /\ NextChild
  /\ UNCHANGED <<kids, finished, cancelled, err, children, firstErr, tried>>

ChildResolves ==
  /\ pc = "next"
  /\ current > 0
  /\ err = "nil"
  /\ children' = Append(children, current)
  /\ NextChild
  /\ UNCHANGED <<kids, finished, cancelled, err, firstErr, parent, tried>>

FirstErr_Cancelled == IF cancelled THEN firstErr ELSE err

(* The first error is kept.                                                 *)
FirstErr == IF firstErr = "nil" THEN err ELSE firstErr

(* A failed child does not stop the others, unless the context is done.     *)
Continues == ~cancelled

ChildFails ==
  /\ pc = "next"
  /\ current > 0
  /\ err # "nil"
  /\ firstErr' = FirstErr
  /\ err' = "nil"
  /\ IF Continues THEN NextChild ELSE pc' = "returned" /\ UNCHANGED <<current, polls>>
  /\ UNCHANGED <<kids, finished, cancelled, children, parent, tried>>

-----------------------------------------------------------------------------

(* BRAIN finishes a simulation; the children run under their parent, which  *)
(* need not be the last to end.                                             *)
Finish(s) ==
  /\ s \notin finished
  /\ finished' = finished \cup {s}
  /\ UNCHANGED <<kids, cancelled, pc, current, polls, err, children, firstErr, parent, tried>>

Cancel ==
  /\ ~cancelled
  /\ cancelled' = TRUE
  /\ UNCHANGED <<kids, finished, pc, current, polls, err, children, firstErr, parent, tried>>

Step ==
  \/ PollAnswers
  \/ PollBlocked
  \/ PollFails
  \/ Exceeded
  \/ Wake
  \/ SleepCancelled
  \/ ParentFails
  \/ ParentResolves
  \/ ChildResolves
  \/ ChildFails

Next == Step \/ Cancel \/ \E s \in Sims : Finish(s)

Spec == Init /\ [][Next]_vars

-----------------------------------------------------------------------------
(* Properties                                                               *)

Errors == {"nil", "poll", "ctx", "long_poll_exceeded"}

TypeOK ==
  /\ kids \in 0 .. MaxChildren
  /\ finished \subseteq Sims
  /\ cancelled \in BOOLEAN
  /\ pc \in {"get", "sleep", "next", "returned"}
  /\ current \in 0 .. kids
  /\ polls \in 0 .. MaxLongPolls
  /\ err \in Errors
  /\ children \in Seq(1 .. kids)
  /\ firstErr \in Errors
  /\ parent \in BOOLEAN
  /\ tried \subseteq 0 .. kids

(* The children that are returned are those that reached a terminal state,  *)
(* in the parent's order and each once.                                     *)
ChildrenAreResolved ==
  /\ \A i \in DOMAIN children : children[i] \in finished
  /\ \A i, j \in DOMAIN children : i < j => children[i] < children[j]

(* "A non-nil error with a non-nil parent means incomplete": no error means *)
(* that every child of the parent is there, and an error that one is not.   *)
(* "Best effort": without a cancellation every child is tried, however many *)
(* of them fail, and however the polls of its siblings were spent.          *)
BestEffort ==
  pc = "returned" /\ parent =>
    /\ firstErr = "nil" <=> children = Children
    /\ ~cancelled /\ MaxLongPolls > 0 => 1 .. kids \subseteq tried

=============================================================================
