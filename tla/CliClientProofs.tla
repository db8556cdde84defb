-------------------------- MODULE CliClientProofs --------------------------
(***************************************************************************)
(* Proofs about the waits of SimWait as CliClient runs them and about the  *)
(* promises of CliClient, for any command, any number of children and any  *)
(* cap on the polls: how far a wait gets, and what a fulfilled promise, a  *)
(* rejected one and the answer of the MCP tool say of the world.           *)
(***************************************************************************)
EXTENDS CliClient, SelfCorrProofs

-----------------------------------------------------------------------------
(* The waits                                                                *)

(* The children handed over so far come before the one that is waited for,  *)
(* and all of them are there unless an error says otherwise.                *)
Progress ==
  pc # "returned" =>
    /\ parent <=> current > 0
    /\ \A i \in DOMAIN children : children[i] < current
    /\ current = 0 => firstErr = "nil" /\ children = <<>>
    /\ current > 0 /\ firstErr = "nil" => children = [i \in 1 .. current - 1 |-> i]
    /\ current > 0 /\ firstErr # "nil" => Len(children) < current - 1

(* What was waited for has been polled, and is resolved without an error    *)
(* only if it has ended.                                                    *)
Polled ==
  MaxLongPolls > 0 =>
    /\ pc # "returned" => 1 .. current - 1 \subseteq tried
    /\ pc \in {"sleep", "next"} \/ polls > 0 => current \in tried

Ended == pc = "next" /\ err = "nil" => current \in finished

(* A call that returned early was cancelled, or has no children.            *)
Returned ==
  pc = "returned" /\ parent =>
    /\ firstErr = "nil" <=> children = Children
    /\ \/ cancelled
       \/ MaxLongPolls = 0
       \/ 1 .. kids \subseteq tried

WaitInv ==
  /\ TypeOK
  /\ ChildrenAreResolved
  /\ Progress
  /\ Polled
  /\ Ended
  /\ Returned

(* A backtest waits for a single simulation.                                *)
IInv == WaitInv /\ (backtest => kids = 0)

-----------------------------------------------------------------------------

(* The sequence 1, 2, .. k: its length, and how it grows.                   *)
LEMMA SequenceOfNumbers ==
  ASSUME NEW k \in Nat
  PROVE  /\ Len([i \in 1 .. k |-> i]) = k
         /\ k > 0 => Append([i \in 1 .. k - 1 |-> i], k) = [i \in 1 .. k |-> i]
<1> DEFINE s(n) == [i \in 1 .. n |-> i]
<1>1. \A n \in Nat : s(n) \in Seq(Nat) /\ Len(s(n)) = n
  OBVIOUS
<1>2. ASSUME k > 0 PROVE Append(s(k - 1), k) = s(k)
  <2>1. k - 1 \in Nat
    BY <1>2
  <2>2. Append(s(k - 1), k) = [i \in 1 .. k |-> IF i \in 1 .. k - 1 THEN s(k - 1)[i] ELSE k]
    BY <1>1, <2>1
  <2>3. QED
    BY <2>1, <2>2
<1>3. QED
  BY <1>1, <1>2

(* Every step of a wait, and of BRAIN or a signal beside it, keeps the      *)
(* invariant.                                                               *)
LEMMA WaitStepInv == WaitInv /\ (Step \/ Cancel \/ \E s \in Sims : Finish(s)) => WaitInv'
<1> SUFFICES ASSUME WaitInv, Step \/ Cancel \/ \E s \in Sims : Finish(s) PROVE WaitInv'
  OBVIOUS
<1> USE SimWaitAssumption DEF WaitInv, TypeOK, Sims, Errors
<1>1. CASE PollAnswers
  <2>1. TypeOK'
    BY <1>1 DEF PollAnswers, MorePolls, Terminal, Resolve, PollAgain, Unanswered
  <2>2. ChildrenAreResolved'
    BY <1>1 DEF PollAnswers, MorePolls, Terminal, Resolve, PollAgain, Unanswered, ChildrenAreResolved
  <2>3. Progress'
    BY <1>1 DEF PollAnswers, MorePolls, Terminal, Resolve, PollAgain, Unanswered, Progress
  <2>4. Polled'
    BY <1>1 DEF PollAnswers, MorePolls, Terminal, Resolve, PollAgain, Unanswered, Polled
  <2>5. Ended'
    BY <1>1 DEF PollAnswers, MorePolls, Terminal, Resolve, PollAgain, Unanswered, Ended
  <2>6. Returned'
    BY <1>1 DEF PollAnswers, MorePolls, Terminal, Resolve, PollAgain, Unanswered, Returned
  <2>7. QED
    BY <2>1, <2>2, <2>3, <2>4, <2>5, <2>6 DEF WaitInv
<1>2. CASE PollBlocked
  <2>1. TypeOK'
    BY <1>2 DEF PollBlocked, MorePolls, PollAgain, Unanswered
  <2>2. ChildrenAreResolved'
    BY <1>2 DEF PollBlocked, MorePolls, PollAgain, Unanswered, ChildrenAreResolved
  <2>3. Progress'
    BY <1>2 DEF PollBlocked, MorePolls, PollAgain, Unanswered, Progress
  <2>4. Polled'
    BY <1>2 DEF PollBlocked, MorePolls, PollAgain, Unanswered, Polled
  <2>5. Ended'
    BY <1>2 DEF PollBlocked, MorePolls, PollAgain, Unanswered, Ended
  <2>6. Returned'
    BY <1>2 DEF PollBlocked, MorePolls, PollAgain, Unanswered, Returned
  <2>7. QED
    BY <2>1, <2>2, <2>3, <2>4, <2>5, <2>6 DEF WaitInv
<1>3. CASE PollFails
  <2>1. TypeOK'
    BY <1>3 DEF PollFails, MorePolls, Resolve, Unanswered
  <2>2. ChildrenAreResolved'
    BY <1>3 DEF PollFails, MorePolls, Resolve, Unanswered, ChildrenAreResolved
  <2>3. Progress'
    BY <1>3 DEF PollFails, MorePolls, Resolve, Unanswered, Progress
  <2>4. Polled'
    BY <1>3 DEF PollFails, MorePolls, Resolve, Unanswered, Polled
  <2>5. Ended'
    BY <1>3 DEF PollFails, MorePolls, Resolve, Unanswered, Ended
  <2>6. Returned'
    BY <1>3 DEF PollFails, MorePolls, Resolve, Unanswered, Returned
  <2>7. QED
    BY <2>1, <2>2, <2>3, <2>4, <2>5, <2>6 DEF WaitInv
<1>4. CASE Exceeded
  <2>1. TypeOK'
    BY <1>4 DEF Exceeded, MorePolls, Resolve, Unanswered
  <2>2. ChildrenAreResolved'
    BY <1>4 DEF Exceeded, MorePolls, Resolve, Unanswered, ChildrenAreResolved
  <2>3. Progress'
    BY <1>4 DEF Exceeded, MorePolls, Resolve, Unanswered, Progress
  <2>4. Polled'
    BY <1>4 DEF Exceeded, MorePolls, Resolve, Unanswered, Polled
  <2>5. Ended'
    BY <1>4 DEF Exceeded, MorePolls, Resolve, Unanswered, Ended
  <2>6. Returned'
    BY <1>4 DEF Exceeded, MorePolls, Resolve, Unanswered, Returned
  <2>7. QED
    BY <2>1, <2>2, <2>3, <2>4, <2>5, <2>6 DEF WaitInv
<1>5. CASE Wake
  <2>1. TypeOK'
    BY <1>5 DEF Wake, Unanswered
  <2>2. ChildrenAreResolved'
    BY <1>5 DEF Wake, Unanswered, ChildrenAreResolved
  <2>3. Progress'
    BY <1>5 DEF Wake, Unanswered, Progress
  <2>4. Polled'
    BY <1>5 DEF Wake, Unanswered, Polled
  <2>5. Ended'
    BY <1>5 DEF Wake, Unanswered, Ended
  <2>6. Returned'
    BY <1>5 DEF Wake, Unanswered, Returned
  <2>7. QED
    BY <2>1, <2>2, <2>3, <2>4, <2>5, <2>6 DEF WaitInv
<1>6. CASE SleepCancelled
  <2>1. TypeOK'
    BY <1>6 DEF SleepCancelled, Resolve, Unanswered
  <2>2. ChildrenAreResolved'
    BY <1>6 DEF SleepCancelled, Resolve, Unanswered, ChildrenAreResolved
  <2>3. Progress'
    BY <1>6 DEF SleepCancelled, Resolve, Unanswered, Progress
  <2>4. Polled'
    BY <1>6 DEF SleepCancelled, Resolve, Unanswered, Polled
  <2>5. Ended'
    BY <1>6 DEF SleepCancelled, Resolve, Unanswered, Ended
  <2>6. Returned'
    BY <1>6 DEF SleepCancelled, Resolve, Unanswered, Returned
  <2>7. QED
    BY <2>1, <2>2, <2>3, <2>4, <2>5, <2>6 DEF WaitInv
<1>7. CASE ParentFails
  <2>1. TypeOK'
    BY <1>7 DEF ParentFails
  <2>2. ChildrenAreResolved'
    BY <1>7 DEF ParentFails, ChildrenAreResolved
  <2>3. Progress'
    BY <1>7 DEF ParentFails, Progress
  <2>4. Polled'
    BY <1>7 DEF ParentFails, Polled
  <2>5. Ended'
    BY <1>7 DEF ParentFails, Ended
  <2>6. Returned'
    BY <1>7 DEF ParentFails, Returned, Progress
  <2>7. QED
    BY <2>1, <2>2, <2>3, <2>4, <2>5, <2>6 DEF WaitInv
<1>8. CASE ParentResolves
  <2>1. TypeOK'
    BY <1>8 DEF ParentResolves, NextChild, WaitFor
  <2>2. ChildrenAreResolved'
    BY <1>8 DEF ParentResolves, NextChild, WaitFor, ChildrenAreResolved
  <2>3. Progress'
    BY <1>8 DEF ParentResolves, NextChild, WaitFor, Progress
  <2>4. Polled'
    BY <1>8 DEF ParentResolves, NextChild, WaitFor, Polled
  <2>5. Ended'
    BY <1>8 DEF ParentResolves, NextChild, WaitFor, Ended
  <2>6. Returned'
    BY <1>8 DEF ParentResolves, NextChild, WaitFor, Returned, Progress, Children
  <2>7. QED
    BY <2>1, <2>2, <2>3, <2>4, <2>5, <2>6 DEF WaitInv
<1>9. CASE ChildResolves
  <2>1. TypeOK'
    BY <1>9 DEF ChildResolves, NextChild, WaitFor
  <2>2. ChildrenAreResolved'
    <3>1. /\ children' = Append(children, current)
          /\ current \in finished
          /\ finished' = finished
          /\ \A i \in DOMAIN children : children[i] < current
      BY <1>9 DEF ChildResolves, Ended, Progress
    <3>2. /\ DOMAIN children' = 1 .. Len(children) + 1
          /\ DOMAIN children = 1 .. Len(children)
          /\ \A i \in 1 .. Len(children) : children'[i] = children[i]
          /\ children'[Len(children) + 1] = current
      BY <3>1
    <3>3. QED
      BY <3>1, <3>2 DEF ChildrenAreResolved
  <2>3. Progress'
    <3>1. /\ children' = Append(children, current)
          /\ \A i \in DOMAIN children : children[i] < current
          /\ parent /\ parent' /\ firstErr' = firstErr
          /\ current > 0 /\ (pc' # "returned" => current' = current + 1)
      BY <1>9 DEF ChildResolves, Progress, NextChild, WaitFor
    <3>2. /\ DOMAIN children' = 1 .. Len(children) + 1
          /\ DOMAIN children = 1 .. Len(children)
          /\ Len(children') = Len(children) + 1
          /\ \A i \in 1 .. Len(children) : children'[i] = children[i]
          /\ children'[Len(children) + 1] = current
      BY <3>1
    <3>3. firstErr = "nil" => children' = [i \in 1 .. current |-> i]
      <4>1. firstErr = "nil" => children = [i \in 1 .. current - 1 |-> i]
        BY <1>9 DEF ChildResolves, Progress
      <4>2. current \in Nat
        OBVIOUS
      <4>3. QED
        BY ONLY <3>1, <4>1, <4>2, SequenceOfNumbers
    <3>4. firstErr # "nil" => Len(children') < current
      BY <1>9, <3>2 DEF ChildResolves, Progress
    <3>5. pc' # "returned" => \A i \in DOMAIN children' : children'[i] < current'
      BY <3>1, <3>2
    <3>6. QED
      BY <3>1, <3>3, <3>4, <3>5 DEF Progress
  <2>4. Polled'
    BY <1>9 DEF ChildResolves, NextChild, WaitFor, Polled
  <2>5. Ended'
    BY <1>9 DEF ChildResolves, NextChild, WaitFor, Ended
  <2>6. Returned'
    <3> SUFFICES ASSUME pc' = "returned" PROVE Returned'
      BY DEF Returned
    <3>1. current = kids /\ kids' = kids /\ firstErr' = firstErr /\ tried' = tried
      BY <1>9 DEF ChildResolves, NextChild, WaitFor
    <3>2. firstErr = "nil" => children' = Children'
      <4>1. /\ current \in Nat /\ current > 0
            /\ children' = Append(children, current)
            /\ firstErr = "nil" => children = [i \in 1 .. current - 1 |-> i]
        BY <1>9 DEF ChildResolves, Progress
      <4>2. firstErr = "nil" => children' = [i \in 1 .. current |-> i]
        BY ONLY <4>1, SequenceOfNumbers
      <4>3. QED
        BY <3>1, <4>2 DEF Children
    <3>3. firstErr # "nil" => Len(children') < kids
      BY <1>9, <3>1 DEF ChildResolves, Progress
    <3>4. MaxLongPolls > 0 => 1 .. kids \subseteq tried
      BY <1>9, <3>1 DEF ChildResolves, Polled
    <3>5. Len(Children') = kids
      BY <3>1, SequenceOfNumbers DEF Children
    <3>6. QED
      BY <3>1, <3>2, <3>3, <3>4, <3>5 DEF Returned
  <2>7. QED
    BY <2>1, <2>2, <2>3, <2>4, <2>5, <2>6 DEF WaitInv
<1>10. CASE ChildFails
  <2>1. TypeOK'
    BY <1>10 DEF ChildFails, FirstErr, Continues, NextChild, WaitFor
  <2>2. ChildrenAreResolved'
    BY <1>10 DEF ChildFails, FirstErr, Continues, NextChild, WaitFor, ChildrenAreResolved
  <2>3. Progress'
    BY <1>10 DEF ChildFails, FirstErr, Continues, NextChild, WaitFor, Progress
  <2>4. Polled'
    BY <1>10 DEF ChildFails, FirstErr, Continues, NextChild, WaitFor, Polled
  <2>5. Ended'
    BY <1>10 DEF ChildFails, FirstErr, Continues, NextChild, WaitFor, Ended
  <2>6. Returned'
    <3> SUFFICES ASSUME pc' = "returned" PROVE Returned'
      BY DEF Returned
    <3>1. /\ current \in 1 .. kids
          /\ kids' = kids /\ tried' = tried /\ children' = children /\ cancelled' = cancelled
          /\ firstErr' # "nil"
          /\ ~cancelled => current = kids
      BY <1>10 DEF ChildFails, FirstErr, Continues, NextChild, WaitFor
    <3>2. Len(children) < kids
      <4>1. CASE firstErr = "nil"
        BY <1>10, <3>1, <4>1, SequenceOfNumbers DEF ChildFails, Progress
      <4>2. CASE firstErr # "nil"
        BY <1>10, <3>1, <4>2 DEF ChildFails, Progress
      <4>3. QED
        BY <4>1, <4>2
    <3>3. ~cancelled /\ MaxLongPolls > 0 => 1 .. kids \subseteq tried
      BY <1>10, <3>1 DEF ChildFails, Polled
    <3>4. Len(Children') = kids
      BY <3>1, SequenceOfNumbers DEF Children
    <3>5. QED
      BY <3>1, <3>2, <3>3, <3>4 DEF Returned
  <2>7. QED
    BY <2>1, <2>2, <2>3, <2>4, <2>5, <2>6 DEF WaitInv
<1>11. ASSUME NEW s \in Sims, Finish(s)
      PROVE  WaitInv'
  <2>1. TypeOK'
    BY <1>11 DEF Finish
  <2>2. ChildrenAreResolved'
    BY <1>11 DEF Finish, ChildrenAreResolved
  <2>3. Progress'
    BY <1>11 DEF Finish, Progress
  <2>4. Polled'
    BY <1>11 DEF Finish, Polled
  <2>5. Ended'
    BY <1>11 DEF Finish, Ended
  <2>6. Returned'
    BY <1>11 DEF Finish, Returned, Children
  <2>7. QED
    BY <2>1, <2>2, <2>3, <2>4, <2>5, <2>6 DEF WaitInv
<1>12. CASE Cancel
  <2>1. TypeOK'
    BY <1>12 DEF Cancel
  <2>2. ChildrenAreResolved'
    BY <1>12 DEF Cancel, ChildrenAreResolved
  <2>3. Progress'
    BY <1>12 DEF Cancel, Progress
  <2>4. Polled'
    BY <1>12 DEF Cancel, Polled
  <2>5. Ended'
    BY <1>12 DEF Cancel, Ended
  <2>6. Returned'
    BY <1>12 DEF Cancel, Returned, Children
  <2>7. QED
    BY <2>1, <2>2, <2>3, <2>4, <2>5, <2>6 DEF WaitInv
<1>13. QED
  BY <1>1, <1>2, <1>3, <1>4, <1>5, <1>6, <1>7, <1>8, <1>9, <1>10, <1>11, <1>12 DEF Step

-----------------------------------------------------------------------------
(* The client                                                               *)

(* What a step of the client and its processes is to the wait: a step of    *)
(* it, one beside it, none, or the start of the next process of a backtest, *)
(* to which no signal was sent.                                             *)
LEMMA CliStepsWait ==
  ASSUME [CliNext]_cliVars, kids \in 0 .. MaxChildren
  PROVE  \/ Step \/ Cancel \/ \E s \in Sims : Finish(s)
         \/ UNCHANGED vars
         \/ /\ backtest /\ cancelled' = FALSE
            /\ UNCHANGED <<kids, finished, pc, current, polls, err, children, firstErr, parent,
                           tried>>
<1>1. CASE ProcStep
  BY <1>1 DEF ProcStep, ParseArgs, CallMethod, WaitStep, WaitEnds, FileReport, CorrLocal
<1>2. ASSUME Terminated PROVE Cancel \/ UNCHANGED vars
  BY <1>2 DEF Terminated, Dies
<1>3. CASE ClientStep
  <2>1. ASSUME Close, ~UNCHANGED vars
        PROVE  /\ backtest /\ cancelled' = FALSE
               /\ UNCHANGED <<kids, finished, pc, current, polls, err, children, firstErr,
                              parent, tried>>
    BY <2>1 DEF Close, Settle, Continue
  <2>2. QED
    BY <1>2, <1>3, <2>1 DEF ClientStep, Spawn, SpawnFails, TimerFires, GraceEnds, Dies
<1>4. CASE Interrupt
  BY <1>2, <1>4 DEF Interrupt
<1>5. CASE FinishSim
  <2>1. PICK s \in 0 .. kids : Finish(s)
    BY <1>5 DEF FinishSim
  <2>2. s \in Sims
    BY SimWaitAssumption DEF Sims
  <2>3. QED
    BY <2>1, <2>2
<1>6. CASE UNCHANGED cliVars
  BY <1>6 DEF cliVars
<1>7. QED
  BY <1>1, <1>3, <1>4, <1>5, <1>6 DEF CliNext

(* Nothing makes a backtest of a call that is none, or gives it children.   *)
LEMMA BacktestStays == [CliNext]_cliVars => UNCHANGED <<backtest, kids>>
<1> SUFFICES ASSUME [CliNext]_cliVars PROVE UNCHANGED <<backtest, kids>>
  OBVIOUS
<1> USE DEF node, vars
<1>1. CASE ProcStep
  BY <1>1 DEF ProcStep, ParseArgs, CallMethod, WaitStep, WaitEnds, FileReport, CorrLocal,
    Step, PollAnswers, PollBlocked, PollFails, Exceeded, Wake, SleepCancelled, ParentFails,
    ParentResolves, ChildResolves, ChildFails, Unanswered
<1>2. ASSUME Terminated PROVE kids' = kids
  BY <1>2 DEF Terminated, Dies, Cancel
<1>3. CASE ClientStep
  BY <1>2, <1>3 DEF ClientStep, Spawn, SpawnFails, TimerFires, GraceEnds, Dies, Close, Settle,
    Continue
<1>4. CASE Interrupt
  BY <1>2, <1>4 DEF Interrupt
<1>5. CASE FinishSim
  BY <1>5 DEF FinishSim, Finish
<1>6. CASE UNCHANGED cliVars
  BY <1>6 DEF cliVars
<1>7. QED
  BY <1>1, <1>3, <1>4, <1>5, <1>6 DEF CliNext

(* A new process of a backtest starts without a cancellation, and has no    *)
(* children to have skipped.                                                *)
LEMMA ContinueKeepsWait ==
  ASSUME WaitInv, kids = 0, cancelled' = FALSE,
         UNCHANGED <<kids, finished, pc, current, polls, err, children, firstErr, parent, tried>>
  PROVE  WaitInv'
<1>1. TypeOK'
  BY DEF WaitInv, TypeOK
<1>2. ChildrenAreResolved' /\ Progress' /\ Polled' /\ Ended'
  BY DEF WaitInv, ChildrenAreResolved, Progress, Polled, Ended
<1>3. Returned'
  BY DEF WaitInv, Returned, Children
<1>4. QED
  BY <1>1, <1>2, <1>3 DEF WaitInv

(* The invariant of the wait holds in every process a client runs.          *)
THEOREM WaitInvariant == CliSpec => []IInv
<1>1. CliInit => IInv
  <2> SUFFICES ASSUME CliInit PROVE IInv
    OBVIOUS
  <2>1. Init
    BY Zenon DEF CliInit
  <2>2. WaitInv
    <3>1. TypeOK
      <4>1. kids \in 0 .. MaxChildren /\ kids \in Nat /\ current = 0 /\ polls = 0
        BY <2>1, SimWaitAssumption DEF Init
      <4>2. children \in Seq(1 .. kids) /\ pc \in {"get", "sleep", "next", "returned"}
        BY <2>1 DEF Init
      <4>3. err \in Errors /\ firstErr \in Errors /\ cancelled \in BOOLEAN /\ parent \in BOOLEAN
        BY <2>1 DEF Init, Errors
      <4>4. finished \subseteq Sims /\ tried \subseteq 0 .. kids
        BY <2>1 DEF Init
      <4>5. QED
        BY <4>1, <4>2, <4>3, <4>4, SimWaitAssumption DEF TypeOK
    <3>2. ChildrenAreResolved /\ Progress /\ Polled /\ Ended /\ Returned
      BY <2>1, <3>1 DEF Init, TypeOK, ChildrenAreResolved, Progress, Polled, Ended, Returned
    <3>3. QED
      BY <3>1, <3>2 DEF WaitInv
  <2>3. backtest => kids = 0
    <3>1. CallOf("simulations create", "fit") # CallOf("simulations wait-multi", "fit")
      BY DEF CallOf
    <3>2. /\ backtest => call = CallOf("simulations create", "fit")
          /\ call # CallOf("simulations wait-multi", "fit") => kids = 0
      BY Zenon DEF CliInit
    <3>3. QED
      BY ONLY <3>1, <3>2
  <2>4. QED
    BY <2>2, <2>3 DEF IInv
<1>2. IInv /\ [CliNext]_cliVars => IInv'
  <2> SUFFICES ASSUME IInv, [CliNext]_cliVars PROVE IInv'
    OBVIOUS
  <2>1. WaitInv /\ kids \in 0 .. MaxChildren
    BY DEF IInv, WaitInv, TypeOK
  <2>2. ASSUME UNCHANGED vars PROVE WaitInv'
    BY <2>1, <2>2 DEF vars, WaitInv, TypeOK, ChildrenAreResolved, Progress, Polled, Ended,
      Returned, Children
  <2>3. WaitInv'
    BY <2>1, <2>2, CliStepsWait, WaitStepInv, ContinueKeepsWait DEF IInv
  <2>4. QED
    BY <2>3, BacktestStays DEF IInv
<1>3. QED
  BY <1>1, <1>2, PTL DEF CliSpec

(* The types of a wait, in particular that no wait polls past the cap.      *)
THEOREM WaitTypesHold == CliSpec => []TypeOK
<1>1. IInv => TypeOK
  BY DEF IInv, WaitInv
<1>2. QED
  BY <1>1, WaitInvariant, PTL

(* The children handed over have ended, each once and in their order, for   *)
(* every number of children.                                                *)
THEOREM ChildrenStayResolved == CliSpec => []ChildrenAreResolved
<1>1. IInv => ChildrenAreResolved
  BY DEF IInv, WaitInv
<1>2. QED
  BY <1>1, WaitInvariant, PTL

(* A wait with an error lacks a child, one without has them all, and no     *)
(* failure of a child keeps another from being tried.                       *)
THEOREM WaitsAreBestEffort == CliSpec => []BestEffort
<1>1. IInv => BestEffort
  BY DEF IInv, WaitInv, Returned, BestEffort
<1>2. QED
  BY <1>1, WaitInvariant, PTL

-----------------------------------------------------------------------------
(* A wait runs out of steps                                                 *)

(* One simulation: its polls, a sleep after each, and the return.           *)
SimCost == 2 * MaxLongPolls + 3

(* The steps to the next poll, or to the caller.                            *)
BeforeNext == CASE pc = "sleep" -> 3 [] pc = "get" -> 2 [] pc = "next" -> 1

(* The measure of a wait: the simulations that come after the current one,  *)
(* and the polls this one has left.                                         *)
WaitFuel ==
  IF pc = "returned" THEN 0
  ELSE (kids - current) * SimCost + 2 * (MaxLongPolls - polls) + BeforeNext

MostWaitSteps == MaxChildren * SimCost + SimCost

(* The children left cost a number, and one child less one SimCost less.    *)
LEMMA SimsLeft ==
  ASSUME NEW k \in 0 .. MaxChildren, NEW i \in 0 .. k
  PROVE  /\ (k - i) * SimCost \in Nat
         /\ (k - i) * SimCost <= MaxChildren * SimCost
         /\ (k - (i + 1)) * SimCost = (k - i) * SimCost - SimCost
<1>1. k \in Nat /\ i \in Nat /\ k - i \in Nat /\ SimCost \in Nat /\ MaxChildren - (k - i) \in Nat
      /\ MaxChildren \in Nat
  BY SimWaitAssumption DEF SimCost
<1>2. (k - i) * SimCost \in Nat /\ (MaxChildren - (k - i)) * SimCost \in Nat
  BY <1>1
<1>3. (MaxChildren - (k - i)) * SimCost = MaxChildren * SimCost - (k - i) * SimCost
  BY <1>1
<1>4. (k - (i + 1)) * SimCost = (k - i) * SimCost - SimCost
  BY <1>1
<1>5. MaxChildren * SimCost \in Nat
  BY <1>1
<1> QED
  BY <1>2, <1>3, <1>4, <1>5

(* The measure is a number, bounded by the children and the cap.            *)
LEMMA WaitFuelType == TypeOK => WaitFuel \in 0 .. MostWaitSteps
<1> SUFFICES ASSUME TypeOK PROVE WaitFuel \in 0 .. MostWaitSteps
  OBVIOUS
<1>1. /\ (kids - current) * SimCost \in Nat
      /\ (kids - current) * SimCost <= MaxChildren * SimCost
  BY SimsLeft DEF TypeOK
<1>2. MaxChildren * SimCost \in Nat /\ SimCost = 2 * MaxLongPolls + 3 /\ SimCost \in Nat
  BY SimWaitAssumption DEF SimCost
<1>3. pc = "returned" \/ BeforeNext \in 1 .. 3
  BY DEF BeforeNext, TypeOK
<1>4. 2 * (MaxLongPolls - polls) \in 0 .. 2 * MaxLongPolls
  BY SimWaitAssumption DEF TypeOK
<1>5. \A x, y \in Nat : x <= y => \A a \in 0 .. 2 * MaxLongPolls, b \in 1 .. 3 :
        x + a + b \in 0 .. y + (2 * MaxLongPolls + 3)
  BY SimWaitAssumption
<1>6. CASE pc = "returned"
  BY <1>2, <1>6 DEF WaitFuel, MostWaitSteps
<1>7. CASE pc # "returned"
  <2>1. (kids - current) * SimCost + 2 * (MaxLongPolls - polls) + BeforeNext
          \in 0 .. MaxChildren * SimCost + (2 * MaxLongPolls + 3)
    BY <1>1, <1>2, <1>3, <1>4, <1>5, <1>7, Zenon
  <2> QED
    BY <1>2, <1>7, <2>1, Zenon DEF WaitFuel, MostWaitSteps
<1> QED
  BY <1>6, <1>7

(* Every step of a wait burns some of it: a poll, a sleep, a child.         *)
LEMMA WaitStepBurns == ASSUME TypeOK, Step PROVE WaitFuel' < WaitFuel
<1>0. /\ MaxLongPolls \in Nat /\ polls \in 0 .. MaxLongPolls
      /\ kids \in Nat /\ current \in 0 .. kids /\ kids' = kids
      /\ pc \in {"get", "sleep", "next"}
  BY SimWaitAssumption
  DEF TypeOK, Step, PollAnswers, PollBlocked, PollFails, Exceeded, Wake, SleepCancelled,
      ParentFails, ParentResolves, ChildResolves, ChildFails, Unanswered
<1>1. /\ (kids - current) * SimCost \in Nat
      /\ (kids - (current + 1)) * SimCost = (kids - current) * SimCost - SimCost
      /\ SimCost = 2 * MaxLongPolls + 3
  BY SimsLeft DEF TypeOK, SimCost
<1> DEFINE rest == (kids - current) * SimCost
<1>2. WaitFuel = rest + 2 * (MaxLongPolls - polls) + BeforeNext
  BY <1>0 DEF WaitFuel
<1>3. \A x \in Nat, a, b \in Int : a < b => x + a < x + b
  OBVIOUS
<1>4. CASE pc' = "returned"
  <2>1. \A x \in Nat, a \in Nat, b \in 1 .. 3 : 0 < x + a + b
    OBVIOUS
  <2>2. 2 * (MaxLongPolls - polls) \in Nat /\ BeforeNext \in 1 .. 3
    BY <1>0 DEF BeforeNext
  <2>3. 0 < WaitFuel
    BY <1>1, <1>2, <2>1, <2>2, Zenon
  <2> QED
    BY <1>4, <2>3 DEF WaitFuel
<1>5. ASSUME current' = current, pc' # "returned", polls' \in Int,
             2 * (MaxLongPolls - polls') + BeforeNext' < 2 * (MaxLongPolls - polls) + BeforeNext,
             BeforeNext \in Int, BeforeNext' \in Int
      PROVE  WaitFuel' < WaitFuel
  <2>1. WaitFuel' = rest + 2 * (MaxLongPolls - polls') + BeforeNext'
    BY <1>0, <1>5 DEF WaitFuel, SimCost
  <2>2. \A x \in Nat, a, b, c, d \in Int : a + b < c + d => x + a + b < x + c + d
    OBVIOUS
  <2>3. 2 * (MaxLongPolls - polls') \in Int /\ 2 * (MaxLongPolls - polls) \in Int
    BY <1>0, <1>5
  <2>4. rest + 2 * (MaxLongPolls - polls') + BeforeNext' < rest + 2 * (MaxLongPolls - polls) + BeforeNext
    BY <1>1, <1>5, <2>2, <2>3, Zenon
  <2> QED
    BY <1>2, <2>1, <2>4, Zenon
<1>6. CASE PollAnswers \/ PollBlocked
  <2>1. /\ current' = current /\ pc = "get"
        /\ \/ pc' = "next" /\ polls' = polls
           \/ pc' = "sleep" /\ polls' = polls + 1
    BY <1>6 DEF PollAnswers, PollBlocked, PollAgain, Resolve, Unanswered
  <2>2. BeforeNext = 2 /\ BeforeNext' = IF pc' = "next" THEN 1 ELSE 3
    BY <2>1 DEF BeforeNext
  <2> QED
    BY <1>0, <1>5, <2>1, <2>2
<1>7. CASE PollFails \/ Exceeded \/ SleepCancelled
  <2>1. current' = current /\ pc \in {"get", "sleep"} /\ pc' = "next" /\ polls' = polls
    BY <1>7 DEF PollFails, Exceeded, SleepCancelled, Resolve, Unanswered
  <2>2. BeforeNext \in {2, 3} /\ BeforeNext' = 1
    BY <2>1 DEF BeforeNext
  <2> QED
    BY <1>0, <1>5, <2>1, <2>2
<1>8. CASE Wake
  <2>1. current' = current /\ pc = "sleep" /\ pc' = "get" /\ polls' = polls
    BY <1>8 DEF Wake, Unanswered
  <2>2. BeforeNext = 3 /\ BeforeNext' = 2
    BY <2>1 DEF BeforeNext
  <2> QED
    BY <1>0, <1>5, <2>1, <2>2
<1>9. CASE pc = "next" /\ pc' # "returned"
  <2>1. /\ current < kids /\ current' = current + 1 /\ polls' = 0 /\ pc' = "get"
    BY <1>9 DEF Step, PollAnswers, PollBlocked, PollFails, Exceeded, Wake, SleepCancelled,
      ParentFails, ParentResolves, ChildResolves, ChildFails, NextChild, WaitFor
  <2>2. BeforeNext = 1 /\ BeforeNext' = 2
    BY <1>9, <2>1 DEF BeforeNext
  <2>3. WaitFuel' = (kids - (current + 1)) * SimCost + 2 * (MaxLongPolls - 0) + 2
    BY <1>0, <2>1, <2>2 DEF WaitFuel, SimCost
  <2>4. \A x \in Nat, a \in Nat :
          (x - (2 * MaxLongPolls + 3)) + 2 * (MaxLongPolls - 0) + 2 < x + a + 1
    BY <1>0
  <2>5. 2 * (MaxLongPolls - polls) \in Nat
    BY <1>0
  <2>6. rest - SimCost + 2 * (MaxLongPolls - 0) + 2 < rest + 2 * (MaxLongPolls - polls) + 1
    BY <1>1, <2>4, <2>5, Zenon
  <2> QED
    BY <1>1, <1>2, <2>2, <2>3, <2>6, Zenon
<1> QED
  BY <1>4, <1>6, <1>7, <1>8, <1>9
  DEF Step, ParentFails, ParentResolves, ChildResolves, ChildFails

-----------------------------------------------------------------------------
(* The inductive invariant                                                  *)

(* A backtest creates a simulation, waits for it and gets its alpha, and    *)
(* each of the three starts from the success of the one before.             *)
CallInv ==
  /\ call \in Calls
  /\ backtest \in BOOLEAN
  /\ backtest =>
       /\ \E cmd \in {"simulations create", "simulations wait", "alphas get"} :
            call = CallOf(cmd, "fit")
       /\ call.cmd # "simulations create" => carried
       /\ call.cmd = "alphas get" => 0 \in finished
       /\ promise.state = "fulfilled" => call.cmd # "simulations create"
  /\ proc = "work" => call.args \notin RefusedEarly

(* The promise is settled by the close of the process, by its timer or      *)
(* because there is none; nothing runs after that.                          *)
RunInv ==
  /\ timer \in {"off", "armed", "fired", "killed"}
  /\ proc \in {"none", "start", "work", "exited"}
  /\ proc = "none" => timer = "off"
  /\ proc # "exited" => exit = NotExited /\ twin = NoAnswer
  /\ promise # Pending => timer = "off" /\ proc \in {"none", "exited"}
  /\ \/ promise = Pending
     \/ promise = Rejected("TransportError", "none")
     \/ proc = "exited" /\ promise = ParseEnvelope(exit)

(* What has been done to the world at which point of the process.           *)
WorldInv ==
  /\ {sent, carried, issue, lost} \subseteq BOOLEAN
  /\ sent /\ ~backtest =>
       /\ Given(call.args)
       /\ \/ proc = "exited"
          \/ proc = "work" /\ call.cmd \in WaitCmds
  /\ parent => sent /\ 0 \in finished
  /\ pc = "returned" /\ ~parent => firstErr # "nil"
  /\ carried /\ ~backtest => proc = "exited"
  /\ issue => proc = "exited" /\ call.cmd = "feedback" /\ call.token /\ call.confirm

(* What an exit with a payload tells.                                       *)
GoodExit ==
  /\ call.cmd \in Mutations /\ ~carried =>
       \/ call.cmd = "auth logout"
       \/ /\ call.cmd \in {"alphas set-osmosis-points", "alphas set-properties"}
          /\ exit.data = "zero"
  /\ call.cmd \in WaitCmds => parent
  /\ call.cmd = "simulations wait-multi" => (exit.data = "incomplete" <=> children # Children)
  /\ call.cmd = "feedback" => IF exit.data = "filed" THEN issue ELSE issue => lost

(* What an exit without one hides.                                          *)
BadExit ==
  ~backtest =>
    /\ carried => lost
    /\ parent => exit = Signalled
    /\ exit.code = 2 => ~sent /\ ~issue

ExitInv ==
  /\ exit.out \in {"nothing", "ok"} \cup Kinds
  /\ exit.data \in Payloads \cup {"none"}
  /\ exit.out \in Kinds => exit.code = ExitCodeForKind(exit.out)
  /\ proc = "exited" => IF exit.out = "ok" THEN exit.code = 0 /\ GoodExit ELSE BadExit
  /\ SurfacesAgree

CliInv == CallInv /\ RunInv /\ WorldInv /\ ExitInv

-----------------------------------------------------------------------------
(* Classification                                                           *)

(* A set of indices of KindOrder that is not empty has a least element.     *)
LEMMA LeastOf ==
  ASSUME NEW S \in SUBSET (1 .. 14), S # {}
  PROVE  Min(S) \in S
<1>1. \E n \in S : \A m \in S : n <= m
  <2> SUFFICES ASSUME \A n \in S : \E m \in S : m < n PROVE FALSE
    OBVIOUS
  <2>1. \A n \in S : n \in 1 .. 14
    OBVIOUS
  <2>2. \A n \in S : n > 5
    BY <2>1
  <2>3. \A n \in S : n > 10
    BY <2>1, <2>2
  <2>4. \A n \in S : n > 14
    BY <2>1, <2>3
  <2>5. PICK n \in S : TRUE
    OBVIOUS
  <2> QED
    BY ONLY <2>1, <2>4, <2>5
<1> QED
  BY <1>1 DEF Min

(* A kind is "error", or the name of a type or sentinel in the chain.       *)
LEMMA Classified ==
  ASSUME NEW chain
  PROVE  /\ Classify(chain) \in Kinds
         /\ Classify(chain) # "error" => Classify(chain) \in chain
<1> DEFINE I == {j \in 1 .. Len(KindOrder) : KindOrder[j] \in chain}
           i == SelectInSeq(KindOrder, LAMBDA k : k \in chain)
<1>1. Len(KindOrder) = 14 /\ DOMAIN KindOrder = 1 .. 14
  BY DEF KindOrder
<1>2. i = IF I # {} THEN Min(I) ELSE 0
  BY DEF SelectInSeq
<1>3. I \in SUBSET (1 .. 14)
  BY <1>1
<1>4. CASE I = {}
  <2>1. Classify(chain) = "error"
    BY <1>2, <1>4 DEF Classify
  <2> QED
    BY <2>1 DEF Kinds
<1>5. CASE I # {}
  <2>1. i \in I
    BY <1>2, <1>3, <1>5, LeastOf
  <2>2. i # 0 /\ i \in DOMAIN KindOrder /\ KindOrder[i] \in chain
    BY <1>1, <1>3, <2>1
  <2>3. Classify(chain) = KindOrder[i]
    BY <2>2 DEF Classify
  <2> QED
    BY <2>2, <2>3 DEF Kinds, ToSet
<1> QED
  BY <1>4, <1>5

(* The kinds, as a list.                                                    *)
LEMMA KindsListed ==
  Kinds = {"api", "rate_limit", "banned", "permission_denied", "drf_validation",
           "not_verified", "persona_inquiry", "budget", "not_authenticated", "cooldown",
           "long_poll_exceeded", "context", "invalid_argument", "network", "error"}
<1>1. ToSet(KindOrder) =
        {"api", "rate_limit", "banned", "permission_denied", "drf_validation",
         "not_verified", "persona_inquiry", "budget", "not_authenticated", "cooldown",
         "long_poll_exceeded", "context", "invalid_argument", "network"}
  BY DEF ToSet, KindOrder
<1> QED
  BY <1>1 DEF Kinds

(* Every kind has an exit code, and the published table has a row for it.   *)
LEMMA ExitCodes ==
  ASSUME NEW kind \in Kinds
  PROVE  /\ ExitCodeForKind(kind) \in {2, 3, 4, 5, 6, 7, 8, 10}
         /\ ExitCodeForKind(kind) = 2 => kind = "invalid_argument"
         /\ \E row \in StaticExitCodes :
              kind \in row.kinds /\ row.code = ExitCodeForKind(kind)
         /\ kind \notin {"ok", "nothing", "none", "no_output", "unstructured"}
BY KindsListed DEF ExitCodeForKind, StaticErrorKinds, StaticExitCodes, ExitAPI

-----------------------------------------------------------------------------
(* What a method can return                                                 *)

Datas == {"own", "zero", "done", "verdict", "unprintable"}

(* A payload, or an error that blames the arguments only if they are to     *)
(* blame.                                                                   *)
Sound(r, given) ==
  \/ \E d \in Datas : r = Ok(d)
  \/ \E chain : chain # NoError /\ ("invalid_argument" \in chain => ~given) /\ r = Err(chain)

Answers == Outcomes \cup {Failed(chain) : chain \in CtxFailures}

(* An outcome of do is a response, or an error that is not about arguments. *)
LEMMA Answered ==
  ASSUME NEW o \in Answers
  PROVE  \/ /\ o.err = NoError
            /\ o.status \in {"2xx", "403"}
            /\ o.body \in Bodies
            /\ o.status = "403" => o.body # "own"
         \/ /\ o.err # NoError
            /\ "invalid_argument" \notin o.err
            /\ o.status = "none"
            /\ o.body = "none"
<1>1. CASE o \in Responses
  BY <1>1 DEF Responses
<1>2. ASSUME NEW chain \in Failures \cup CtxFailures, o = Failed(chain)
      PROVE  /\ o.err # NoError
             /\ "invalid_argument" \notin o.err
             /\ o.status = "none"
             /\ o.body = "none"
  <2>1. "nil" \notin chain /\ "invalid_argument" \notin chain
    BY DEF Failures, CtxFailures
  <2>2. chain # NoError
    BY <2>1 DEF NoError
  <2> QED
    BY <1>2, <2>1, <2>2 DEF Failed
<1> QED
  BY <1>1, <1>2 DEF Answers, Outcomes

(* requireNonEmpty comes before the request, and its error of do before     *)
(* what is made of the response.                                            *)
LEMMA CallIsSound ==
  ASSUME NEW o \in Answers, NEW given \in BOOLEAN, NEW parsed, Sound(parsed, TRUE)
  PROVE  /\ Sound(Call(given, o, parsed), given)
         /\ Good(Call(given, o, parsed)) =>
              given /\ o.err = NoError /\ Call(given, o, parsed) = parsed
         /\ ~Good(Call(given, o, parsed)) /\ given /\ o.err = NoError =>
              Call(given, o, parsed) = parsed
<1>1. {"invalid_argument"} # NoError
  BY DEF NoError
<1>2. ~Good(Err({"invalid_argument"})) /\ (o.err # NoError => ~Good(Err(o.err)))
  BY <1>1 DEF Good, Err
<1>3. CASE ~given
  BY <1>1, <1>2, <1>3 DEF Call, Sound
<1>4. CASE given /\ o.err # NoError
  BY <1>2, <1>4, Answered DEF Call, Sound
<1>5. CASE given /\ o.err = NoError
  BY <1>5 DEF Call, Sound
<1> QED
  BY <1>3, <1>4, <1>5

(* The decodings of a response.                                             *)
LEMMA DecodingsAreSound ==
  ASSUME NEW o \in Answers
  PROVE  /\ Sound(DecodeBody(o), TRUE)
         /\ Sound(CheckStatus(o), TRUE)
         /\ Sound(LongPolled(o), TRUE)
         /\ Sound(DecodeArray(o), TRUE)
         /\ Sound(ArrayOrEnvelope(o), TRUE)
         /\ Sound(SimLocation(o), TRUE)
         /\ \A d \in Datas : Sound(Ok(d), TRUE)
         /\ Good(CheckStatus(o)) <=> o.status = "2xx"
         /\ Good(DecodeBody(o)) => DecodeBody(o).data \in {"own", "zero"}
         /\ Good(DecodeBody(o)) /\ DecodeBody(o).data = "own" => o.body = "own"
         /\ o.body = "own" => Good(DecodeBody(o))
         /\ Good(CheckStatus(o)) => CheckStatus(o).data = "done"
         /\ Good(SimLocation(o)) <=> o.body = "own"
         /\ "unprintable" \notin {DecodeBody(o).data, CheckStatus(o).data, SimLocation(o).data}
<1>1. {} # NoError /\ {"long_poll_exceeded"} # NoError /\ {"api"} \cup ({o.body} \cap {"broken"}) # NoError
  BY DEF NoError
<1>2. \A chain : chain # NoError => ~Good(Err(chain))
  BY DEF Good, Err
<1>3. /\ \A d : Good(Ok(d)) /\ Ok(d).data = d
      /\ \A chain : Err(chain).data = "none"
  BY DEF Good, Ok, Err
<1>4. \A d \in Datas : Sound(Ok(d), TRUE)
  BY DEF Sound
<1>5. \A chain : chain # NoError /\ "invalid_argument" \notin chain => Sound(Err(chain), TRUE)
  BY DEF Sound
<1>6. {"own", "zero", "done"} \subseteq Datas
  BY DEF Datas
<1>7. /\ "invalid_argument" \notin {}
      /\ "invalid_argument" \notin {"long_poll_exceeded"}
      /\ "invalid_argument" \notin {"api"} \cup ({o.body} \cap {"broken"})
  OBVIOUS
<1>8. /\ Sound(DecodeBody(o), TRUE)
      /\ Good(DecodeBody(o)) => DecodeBody(o).data \in {"own", "zero"}
      /\ Good(DecodeBody(o)) /\ DecodeBody(o).data = "own" => o.body = "own"
      /\ o.body = "own" => Good(DecodeBody(o))
      /\ DecodeBody(o).data # "unprintable"
  BY <1>1, <1>2, <1>3, <1>4, <1>5, <1>6, <1>7 DEF DecodeBody
<1>9. /\ Sound(CheckStatus(o), TRUE)
      /\ Good(CheckStatus(o)) <=> o.status = "2xx"
      /\ Good(CheckStatus(o)) => CheckStatus(o).data = "done"
      /\ CheckStatus(o).data # "unprintable"
  BY <1>1, <1>2, <1>3, <1>4, <1>5, <1>6, <1>7 DEF CheckStatus
<1>10. Sound(LongPolled(o), TRUE)
  BY <1>1, <1>5, <1>7, <1>8 DEF LongPolled
<1>11. Sound(DecodeArray(o), TRUE)
  BY <1>1, <1>4, <1>5, <1>6, <1>7 DEF DecodeArray
<1>12. Sound(ArrayOrEnvelope(o), TRUE)
  BY <1>8, <1>11 DEF ArrayOrEnvelope
<1>13. /\ Sound(SimLocation(o), TRUE)
       /\ Good(SimLocation(o)) <=> o.body = "own"
       /\ SimLocation(o).data # "unprintable"
  BY <1>1, <1>2, <1>3, <1>4, <1>5, <1>6, <1>7 DEF SimLocation
<1> QED
  BY <1>4, <1>8, <1>9, <1>10, <1>11, <1>12, <1>13

-----------------------------------------------------------------------------
(* What is printed                                                          *)

(* An error prints its kind, or nothing, and exits with the code of it.     *)
LEMMA WrittenErr ==
  ASSUME NEW chain
  PROVE  /\ WriteErr(chain).out \in {"nothing"} \cup Kinds
         /\ WriteErr(chain).out # "ok"
         /\ WriteErr(chain).data = "none"
         /\ WriteErr(chain).out \in Kinds =>
              WriteErr(chain).code = ExitCodeForKind(WriteErr(chain).out)
         /\ WriteErr(chain).code = 2 => "invalid_argument" \in chain
<1> DEFINE kind == Classify(chain)
<1>1. /\ kind \in Kinds
      /\ kind # "error" => kind \in chain
  BY Classified
<1>2. /\ WriteErr(chain).code = ExitCodeForKind(kind)
      /\ WriteErr(chain).out \in {"nothing", kind}
      /\ WriteErr(chain).data = "none"
  BY DEF WriteErr, Exited
<1> HIDE DEF kind
<1>3. /\ kind # "ok" /\ "nothing" \notin Kinds
      /\ ExitCodeForKind(kind) = 2 => kind = "invalid_argument"
  BY <1>1, ExitCodes
<1> QED
  BY <1>1, <1>2, <1>3

(* What RunE prints of a result; the MCP tool answers the same, but for     *)
(* what cannot be printed or encoded.                                       *)
LEMMA Printed ==
  ASSUME NEW args, args \notin RefusedEarly, NEW r, Sound(r, Given(args))
  PROVE  /\ RunE(args, r).out \in {"nothing", "ok"} \cup Kinds
         /\ RunE(args, r).data \in Payloads \cup {"none"}
         /\ RunE(args, r).out = "ok" <=> Good(r) /\ r.data # "unprintable"
         /\ RunE(args, r).out = "ok" => RunE(args, r).code = 0 /\ RunE(args, r).data = r.data
         /\ RunE(args, r).out \in Kinds =>
              RunE(args, r).code = ExitCodeForKind(RunE(args, r).out)
         /\ RunE(args, r).code = 2 => ~Given(args)
         /\ r.data # "unprintable" /\ AddTool(r).kind # "unstructured" =>
              AddTool(r) = Answer(RunE(args, r).out, RunE(args, r).data)
<1>1. ASSUME NEW d \in Datas, r = Ok(d)
      PROVE  /\ Good(r) /\ r.data = d /\ RunE(args, r) = WriteOK(d)
             /\ AddTool(r) = Answer("ok", d)
  BY <1>1 DEF Good, Ok, RunE, AddTool
<1>2. ASSUME NEW chain, chain # NoError, r = Err(chain)
      PROVE  /\ ~Good(r) /\ RunE(args, r) = WriteErr(chain)
             /\ AddTool(r) = ClassifyErr(chain)
  BY <1>2 DEF Good, Err, RunE, AddTool
<1>3. CASE \E d \in Datas : r = Ok(d)
  <2>1. PICK d \in Datas : r = Ok(d)
    BY <1>3
  <2>2. d = "unprintable" => WriteOK(d) = [code |-> 8, out |-> "nothing", data |-> "none"]
    BY DEF WriteOK, Exited, ExitNetwork
  <2>3. d # "unprintable" => WriteOK(d) = [code |-> 0, out |-> "ok", data |-> d]
    BY DEF WriteOK, Exited, ExitOK
  <2>4. d # "unprintable" => d \in Payloads
    BY DEF Datas, Payloads
  <2>5. "ok" \notin Kinds /\ "nothing" \notin Kinds
    BY ExitCodes
  <2> QED
    BY <1>1, <2>1, <2>2, <2>3, <2>4, <2>5
<1>4. CASE \E chain : /\ chain # NoError
                      /\ "invalid_argument" \in chain => ~Given(args)
                      /\ r = Err(chain)
  <2>1. PICK chain : /\ chain # NoError
                     /\ "invalid_argument" \in chain => ~Given(args)
                     /\ r = Err(chain)
    BY <1>4
  <2>2. ClassifyErr(chain).kind # "unstructured" =>
          ClassifyErr(chain) = Answer(WriteErr(chain).out, WriteErr(chain).data)
    BY DEF ClassifyErr, Answer, WriteErr, Exited
  <2> QED
    BY <1>2, <2>1, <2>2, WrittenErr
<1> QED
  BY <1>3, <1>4 DEF Sound

-----------------------------------------------------------------------------
(* The commands and the tools                                               *)

Reads ==
  {"alphas get", "users activities", "users diversity", "schema datasets",
   "schema data-fields", "simulations get"}
Sets == {"alphas set-properties", "alphas set-osmosis-points"}
Polls ==
  {"alphas check", "alphas pnl", "alphas corr", "alphas recordset"} \cup PerformanceCmds
Lists ==
  {"alphas list", "messages list", "users self", "users competitions",
   "schema simulation-options"}
Posts == EmailCmds \cup PasswordCmds \cup {"register"}

(* The method of a command, whose result both surfaces pass on.             *)
Method(cmd, given, detail, o) ==
  CASE cmd \in Reads \cup Sets -> Call(given, o, DecodeBody(o))
    [] cmd \in Polls -> Call(given, o, LongPolled(o))
    [] cmd \in Lists -> Call(TRUE, o, DecodeBody(o))
    [] cmd \in Posts -> Call(given, o, CheckStatus(o))
    [] cmd \in {"schema data-categories", "schema themes"} -> Call(TRUE, o, ArrayOrEnvelope(o))
    [] cmd = "schema operators" -> Call(TRUE, o, DecodeArray(o))
    [] cmd = "alphas submit" -> Verdict(given, o)
    [] cmd = "alphas recordsets" -> AlphaRecordSets(given, o)
    [] cmd = "auth login" -> Login(given, detail, o)
    [] cmd = "auth probe" -> Probe(o)
    [] cmd = "auth logout" -> Logout(o)
    [] cmd = "users activities --decode" -> DecodeActivities(Activities(given, o), ~detail)
    [] cmd = "simulations create" -> CreateSimulation(given, o)

(* Every command is one of these.                                           *)
LEMMA CommandsListed ==
  MethodCmds =
    Reads \cup Sets \cup Polls \cup Lists \cup Posts
      \cup {"schema data-categories", "schema themes", "schema operators", "alphas submit",
            "alphas recordsets", "auth login", "auth probe", "auth logout",
            "users activities --decode", "simulations create"}
BY DEF MethodCmds, Reads, Sets, Polls, Lists, Posts, AlphaReadCmds, CorrelationCmds,
  PerformanceCmds, AuthCmds, EmailCmds, PasswordCmds, UserCmds, SchemaCmds

(* What r is when it is the result of the method: a call by its class.      *)
IsResult(cmd, given, detail, o, r) ==
  /\ cmd \in Reads \cup Sets => r = Call(given, o, DecodeBody(o))
  /\ cmd \in Polls => r = Call(given, o, LongPolled(o))
  /\ cmd \in Lists => r = Call(TRUE, o, DecodeBody(o))
  /\ cmd \in Posts => r = Call(given, o, CheckStatus(o))
  /\ cmd \in {"schema data-categories", "schema themes"} => r = Call(TRUE, o, ArrayOrEnvelope(o))
  /\ cmd = "schema operators" => r = Call(TRUE, o, DecodeArray(o))
  /\ cmd = "alphas submit" => r = Verdict(given, o)
  /\ cmd = "alphas recordsets" => r = AlphaRecordSets(given, o)
  /\ cmd = "auth login" => r = Login(given, detail, o)
  /\ cmd = "auth probe" => r = Probe(o)
  /\ cmd = "auth logout" => r = Logout(o)
  /\ cmd = "users activities --decode" => r = DecodeActivities(Activities(given, o), ~detail)
  /\ cmd = "simulations create" => r = CreateSimulation(given, o)

(* Method takes one case at a time, as its classes are disjoint.            *)
LEMMA MethodOf ==
  ASSUME NEW cmd, NEW given, NEW detail, NEW o
  PROVE  IsResult(cmd, given, detail, o, Method(cmd, given, detail, o))
<1> SUFFICES ASSUME NEW r, r = Method(cmd, given, detail, o)
             PROVE  IsResult(cmd, given, detail, o, r)
  OBVIOUS
<1> USE DEF Method, Reads, Sets, Polls, Lists, Posts, EmailCmds, PasswordCmds, PerformanceCmds
<1>1. cmd \in Reads \cup Sets => r = Call(given, o, DecodeBody(o))
  OBVIOUS
<1>2. cmd \in Polls => r = Call(given, o, LongPolled(o))
  OBVIOUS
<1>3. cmd \in Lists => r = Call(TRUE, o, DecodeBody(o))
  OBVIOUS
<1>4. cmd \in Posts => r = Call(given, o, CheckStatus(o))
  OBVIOUS
<1>5. /\ cmd \in {"schema data-categories", "schema themes"} =>
           r = Call(TRUE, o, ArrayOrEnvelope(o))
      /\ cmd = "schema operators" => r = Call(TRUE, o, DecodeArray(o))
  OBVIOUS
<1>6. /\ cmd = "alphas submit" => r = Verdict(given, o)
      /\ cmd = "alphas recordsets" => r = AlphaRecordSets(given, o)
  OBVIOUS
<1>7. /\ cmd = "auth login" => r = Login(given, detail, o)
      /\ cmd = "auth probe" => r = Probe(o)
      /\ cmd = "auth logout" => r = Logout(o)
  OBVIOUS
<1>8. /\ cmd = "users activities --decode" =>
           r = DecodeActivities(Activities(given, o), ~detail)
      /\ cmd = "simulations create" => r = CreateSimulation(given, o)
  OBVIOUS
<1> HIDE DEF Method, Reads, Sets, Polls, Lists, Posts
<1> QED
  BY <1>1, <1>2, <1>3, <1>4, <1>5, <1>6, <1>7, <1>8 DEF IsResult

(* A command prints the result of its method.                               *)
LEMMA CommandsRunMethods ==
  ASSUME NEW cmd \in MethodCmds, NEW args, NEW detail \in BOOLEAN, NEW o
  PROVE  Command(cmd, args, detail, o) = RunE(args, Method(cmd, Given(args), detail, o))
<1> USE DEF Command, Method, Reads, Sets, Polls, Lists, Posts, AlphaReadCmds, CorrelationCmds,
      PerformanceCmds, AuthCmds, EmailCmds, PasswordCmds, UserCmds, SchemaCmds
<1>1. CASE cmd \in Reads
  BY <1>1 DEF AlphaReads, Users, Schema, SimGet, GetAlpha, Activities, Diversity, Datasets,
    DataFields, GetSimulation
<1>2. CASE cmd \in Sets
  BY <1>2 DEF SetProperties, SetOsmosisPoints, SetAlphaProperties, SetAlphaOsmosisPoints
<1>3. CASE cmd \in Polls
  BY <1>3 DEF AlphaReads, Correlations, Performance, AlphaPnL, CheckAlpha, RecordSet,
    Correlation, BeforeAndAfterPerformance, SelfBeforeAndAfterPerformance
<1>4. CASE cmd \in Lists
  BY <1>4 DEF AlphaList, MessagesList, Users, Schema, ListAlphas, Messages, Self, Competitions,
    SimulationOptions
<1>5. CASE cmd \in Posts
  BY <1>5 DEF Email, Password, RegisterUser, VerifyEmail, ReverifyEmail, ForgotPassword,
    ResetPassword
<1>6. CASE cmd \in {"schema data-categories", "schema themes", "schema operators"}
  BY <1>6 DEF Schema, DataCategories, Themes, Operators
<1>7. CASE cmd \in {"auth login", "auth probe", "auth logout"}
  BY <1>7 DEF Auth
<1>8. CASE cmd \in {"alphas submit", "alphas recordsets", "users activities --decode",
                    "simulations create"}
  BY <1>8 DEF AlphaReads, Correlations, Users, SimCreate
<1> QED
  BY <1>1, <1>2, <1>3, <1>4, <1>5, <1>6, <1>7, <1>8, CommandsListed

(* A tool that works answers with the result of the same method, and never  *)
(* with one that cannot be printed.                                         *)
LEMMA ToolsRunMethods ==
  ASSUME NEW cmd \in Tools(TRUE) \ {"alphas performance"}, NEW given \in BOOLEAN,
         NEW detail \in BOOLEAN, NEW o \in Answers
  PROVE  /\ Tool(cmd, given, detail, o) = AddTool(Method(cmd, given, detail, o))
         /\ cmd # "alphas recordsets"
<1> USE DEF Tools, Tool, Method, ReadTools, WriteTools, ReadTool, WriteTool, Reads, Sets, Polls,
      Lists, Posts, EmailCmds, PasswordCmds, PerformanceCmds
<1>1. CASE cmd \in ReadTools
  BY <1>1 DEF GetAlpha, Activities, DataFields, GetSimulation, CheckAlpha, Correlation,
    RecordSet, BeforeAndAfterPerformance, ListAlphas, Messages, Self, Competitions, Operators
<1>2. CASE cmd \in {"simulations create", "register", "auth login"}
  BY <1>2
<1>3. CASE cmd = "auth logout"
  <2>1. OkWrap(Logout(o)) = Logout(o)
    BY DEF OkWrap, Logout, Call, Good, Ok, Err
  <2> QED
    BY <1>3, <2>1
<1>4. CASE cmd \in EmailCmds \cup PasswordCmds
  <2>1. OkWrap(Call(given, o, CheckStatus(o))) = Call(given, o, CheckStatus(o))
    <3>1. Good(CheckStatus(o)) => CheckStatus(o) = Ok("done")
      <4>1. {"api"} \cup ({o.body} \cap {"broken"}) # NoError
        BY DEF NoError
      <4> QED
        BY <4>1 DEF CheckStatus, Good, Err
    <3> QED
      BY <3>1, CallIsSound, DecodingsAreSound DEF OkWrap
  <2> QED
    BY <1>4, <2>1 DEF VerifyEmail, ReverifyEmail, ForgotPassword, ResetPassword
<1> QED
  BY <1>1, <1>2, <1>3, <1>4

(* No method blames arguments that were given.                              *)
LEMMA MethodsAreSound ==
  ASSUME NEW cmd \in MethodCmds, NEW given \in BOOLEAN, NEW detail \in BOOLEAN, NEW o \in Answers
  PROVE  Sound(Method(cmd, given, detail, o), given)
<1> SUFFICES ASSUME NEW r, r = Method(cmd, given, detail, o)
             PROVE  Sound(r, given)
  OBVIOUS
<1>0. IsResult(cmd, given, detail, o, r)
  BY MethodOf
<1> USE CallIsSound, DecodingsAreSound
<1>1. \A res : Sound(res, TRUE) => Sound(res, given)
  BY DEF Sound
<1>2. CASE cmd \in Reads \cup Sets \cup Polls \cup Posts
  <2>1. \/ r = Call(given, o, DecodeBody(o))
        \/ r = Call(given, o, LongPolled(o))
        \/ r = Call(given, o, CheckStatus(o))
    BY ONLY <1>0, <1>2 DEF IsResult
  <2> QED
    BY <2>1
<1>3. CASE cmd \in Lists \cup {"schema data-categories", "schema themes", "schema operators"}
  <2>1. \/ r = Call(TRUE, o, DecodeBody(o))
        \/ r = Call(TRUE, o, ArrayOrEnvelope(o))
        \/ r = Call(TRUE, o, DecodeArray(o))
    BY ONLY <1>0, <1>3 DEF IsResult
  <2>2. Sound(r, TRUE)
    BY <2>1
  <2> QED
    BY <1>1, <2>2
<1>4. CASE cmd = "alphas submit"
  <2>1. r = Call(given, o, Ok("verdict"))
    BY ONLY <1>0, <1>4 DEF IsResult, Verdict
  <2>2. Sound(Ok("verdict"), TRUE)
    BY DEF Datas
  <2> QED
    BY <2>1, <2>2
<1>5. CASE cmd = "alphas recordsets"
  <2>1. r = AlphaRecordSets(given, o)
    BY <1>0, <1>5 DEF IsResult
  <2> QED
    BY <2>1 DEF AlphaRecordSets, Datas
<1>6. CASE cmd = "auth login"
  <2>1. Sound(Err({"persona_inquiry"}), TRUE) /\ Sound(Ok("zero"), TRUE)
    BY DEF Sound, NoError, Datas
  <2>2. r = Login(given, detail, o)
    BY <1>0, <1>6 DEF IsResult
  <2> QED
    BY <2>1, <2>2 DEF Login
<1>7. CASE cmd = "auth probe"
  <2>1. Sound(Err({"not_authenticated"}), TRUE)
    BY DEF Sound, NoError
  <2>2. r = Probe(o)
    BY <1>0, <1>7 DEF IsResult
  <2> QED
    BY <1>1, <2>1, <2>2 DEF Probe
<1>8. CASE cmd = "auth logout"
  <2>1. r = Logout(o)
    BY <1>0, <1>8 DEF IsResult
  <2> QED
    BY <1>1, <2>1 DEF Logout, Datas
<1>9. CASE cmd = "users activities --decode"
  <2>1. Sound(Err({}), given)
    BY DEF Sound, NoError
  <2>2. r = DecodeActivities(Activities(given, o), ~detail)
    BY <1>0, <1>9 DEF IsResult
  <2> QED
    BY <2>1, <2>2 DEF DecodeActivities, Activities
<1>10. CASE cmd = "simulations create"
  <2>1. r = CreateSimulation(given, o)
    BY <1>0, <1>10 DEF IsResult
  <2> QED
    BY <2>1 DEF CreateSimulation
<1> QED
  BY <1>2, <1>3, <1>4, <1>5, <1>6, <1>7, <1>8, <1>9, <1>10, CommandsListed

(* Only record sets are passed through unread.                              *)
LEMMA OnlyRecordSetsAreUnprintable ==
  ASSUME NEW cmd \in MethodCmds, cmd # "alphas recordsets",
         NEW given \in BOOLEAN, NEW detail \in BOOLEAN, NEW o \in Answers
  PROVE  Method(cmd, given, detail, o).data # "unprintable"
<1> SUFFICES ASSUME NEW r, r = Method(cmd, given, detail, o)
             PROVE  r.data # "unprintable"
  OBVIOUS
<1>0. IsResult(cmd, given, detail, o, r)
  BY MethodOf
<1>1. /\ \A chain : Err(chain).data # "unprintable"
      /\ \A d : Ok(d).data = d
  BY DEF Err, Ok
<1>2. /\ DecodeBody(o).data # "unprintable"
      /\ CheckStatus(o).data # "unprintable"
      /\ SimLocation(o).data # "unprintable"
      /\ LongPolled(o).data # "unprintable"
      /\ DecodeArray(o).data # "unprintable"
      /\ ArrayOrEnvelope(o).data # "unprintable"
  BY <1>1, DecodingsAreSound DEF LongPolled, DecodeArray, ArrayOrEnvelope
<1>3. CASE cmd \in Reads \cup Sets \cup Polls \cup Posts
  BY <1>0, <1>1, <1>2, <1>3 DEF IsResult, Call
<1>4. CASE cmd \in Lists \cup {"schema data-categories", "schema themes", "schema operators"}
  BY <1>0, <1>1, <1>2, <1>4 DEF IsResult, Call
<1>5. CASE cmd = "alphas submit"
  BY <1>0, <1>1, <1>5 DEF IsResult, Verdict, Call
<1>6. CASE cmd = "auth login"
  <2>1. r = Login(given, detail, o)
    BY <1>0, <1>6 DEF IsResult
  <2> QED
    BY <1>1, <1>2, <2>1 DEF Login, Call
<1>7. CASE cmd = "auth probe"
  <2>1. r = Probe(o)
    BY <1>0, <1>7 DEF IsResult
  <2> QED
    BY <1>1, <1>2, <2>1 DEF Probe, Call
<1>8. CASE cmd = "auth logout"
  BY <1>0, <1>1, <1>8 DEF IsResult, Logout, Call
<1>9. CASE cmd = "users activities --decode"
  <2>1. r = DecodeActivities(Activities(given, o), ~detail)
    BY <1>0, <1>9 DEF IsResult
  <2> QED
    BY <1>1, <1>2, <2>1 DEF DecodeActivities, Activities, Call
<1>10. CASE cmd = "simulations create"
  BY <1>0, <1>1, <1>2, <1>10 DEF IsResult, CreateSimulation, Call
<1> QED
  BY <1>3, <1>4, <1>5, <1>6, <1>7, <1>8, <1>9, <1>10, CommandsListed

(* A mutation that succeeds was heard of from BRAIN itself, but for logout  *)
(* and the setters of an alpha; what BRAIN confirms in full is a success,   *)
(* but for a session that asks for an inquiry.                              *)
IsHeard(cmd, given, detail, o, r) ==
  /\ Good(r) =>
       \/ cmd = "auth logout"
       \/ given /\ o.status = "2xx" /\ ~(cmd = "auth login" /\ detail /\ o.body = "own")
       \/ given /\ cmd \in Sets /\ r.data = "zero"
  /\ ~Good(r) /\ given /\ o.status = "2xx" /\ o.body = "own" => cmd = "auth login" /\ detail

(* The mutations by their classes.                                          *)
LEMMA MutationsListed ==
  ASSUME NEW cmd \in MethodCmds, cmd \in Mutations
  PROVE  /\ \/ cmd \in Sets \/ cmd \in Posts
            \/ cmd \in {"auth login", "auth logout", "simulations create"}
         /\ cmd \in Sets \cup Posts => cmd # "auth login"
         /\ cmd # "alphas recordsets"
BY DEF Mutations, Sets, Posts, EmailCmds, PasswordCmds

(* Every mutation is heard of in that sense.                                *)
LEMMA MutationsAreHeard ==
  ASSUME NEW cmd \in MethodCmds, cmd \in Mutations, NEW given \in BOOLEAN, NEW detail \in BOOLEAN,
         NEW o \in Answers
  PROVE  IsHeard(cmd, given, detail, o, Method(cmd, given, detail, o))
<1> SUFFICES ASSUME NEW r, r = Method(cmd, given, detail, o)
             PROVE  IsHeard(cmd, given, detail, o, r)
  OBVIOUS
<1>0. IsResult(cmd, given, detail, o, r)
  BY MethodOf
<1>1. Good(Ok("done")) /\ Good(Ok("zero"))
  BY DEF Ok, Good
<1>2. o.err = NoError /\ o.body = "own" => o.status = "2xx"
  BY Answered
<1>3. o.status = "2xx" => o.err = NoError
  BY Answered
<1>4. ASSUME NEW parsed, Sound(parsed, TRUE), r = Call(given, o, parsed)
      PROVE  /\ Good(r) => given /\ o.err = NoError /\ r = parsed
             /\ ~Good(r) /\ given /\ o.err = NoError => r = parsed
  <2>1. /\ Good(Call(given, o, parsed)) =>
             given /\ o.err = NoError /\ Call(given, o, parsed) = parsed
        /\ ~Good(Call(given, o, parsed)) /\ given /\ o.err = NoError =>
             Call(given, o, parsed) = parsed
    BY <1>4, CallIsSound
  <2> QED
    BY ONLY <1>4, <2>1
<1>5. CASE cmd \in Sets
  <2>0. r = Call(given, o, DecodeBody(o))
    BY <1>0, <1>5 DEF IsResult
  <2>1. r = Call(given, o, DecodeBody(o)) /\ Sound(DecodeBody(o), TRUE)
    BY <2>0, DecodingsAreSound
  <2>2. /\ Good(r) => given /\ o.err = NoError /\ r = DecodeBody(o)
        /\ ~Good(r) /\ given /\ o.err = NoError => r = DecodeBody(o)
    BY <1>4, <2>1
  <2>3. /\ Good(DecodeBody(o)) => DecodeBody(o).data = "zero" \/ o.body = "own"
        /\ o.body = "own" => Good(DecodeBody(o))
    BY DecodingsAreSound
  <2>4. cmd # "auth login"
    BY <1>5, MutationsListed
  <2> QED
    BY <1>2, <1>3, <1>5, <2>2, <2>3, <2>4 DEF IsHeard
<1>6. CASE cmd \in Posts
  <2>1. r = Call(given, o, CheckStatus(o)) /\ Sound(CheckStatus(o), TRUE)
    BY <1>0, <1>6, DecodingsAreSound DEF IsResult
  <2>2. /\ Good(r) => given /\ o.err = NoError /\ r = CheckStatus(o)
        /\ ~Good(r) /\ given /\ o.err = NoError => r = CheckStatus(o)
    BY <1>4, <2>1
  <2>3. Good(CheckStatus(o)) <=> o.status = "2xx"
    BY DecodingsAreSound
  <2>4. cmd # "auth login"
    BY <1>6, MutationsListed
  <2> QED
    BY <1>3, <2>2, <2>3, <2>4 DEF IsHeard
<1>7. CASE cmd = "auth login"
  <2> DEFINE parsed ==
        IF ~Good(CheckStatus(o)) THEN CheckStatus(o)
        ELSE IF o.body = "none" THEN Ok("zero")
        ELSE IF o.body = "own" /\ detail THEN Err({"persona_inquiry"})
        ELSE DecodeBody(o)
  <2>1. r = Call(given, o, parsed)
    <3>1. r = Login(given, detail, o)
      BY <1>0, <1>7 DEF IsResult
    <3> QED
      BY <3>1 DEF Login
  <2>2. ~Good(Err({"persona_inquiry"})) /\ Sound(Err({"persona_inquiry"}), TRUE)
    BY DEF Good, Err, NoError, Sound
  <2>3. /\ Sound(parsed, TRUE)
        /\ Good(parsed) => o.status = "2xx" /\ ~(detail /\ o.body = "own")
        /\ o.status = "2xx" /\ o.body = "own" /\ ~detail => Good(parsed)
    BY <1>1, <2>2, DecodingsAreSound DEF Datas
  <2> HIDE DEF parsed
  <2>4. /\ Good(r) => given /\ o.err = NoError /\ r = parsed
        /\ ~Good(r) /\ given /\ o.err = NoError => r = parsed
    BY <1>4, <2>1, <2>3
  <2> QED
    BY <1>3, <1>7, <2>3, <2>4 DEF IsHeard
<1>8. CASE cmd = "auth logout"
  <2>1. r = Call(TRUE, o, Ok("done"))
    BY <1>0, <1>8 DEF IsResult, Logout
  <2>2. o.err = NoError => Good(r)
    BY <1>1, <2>1 DEF Call
  <2> QED
    BY <1>3, <1>8, <2>2 DEF IsHeard
<1>9. CASE cmd = "simulations create"
  <2> DEFINE parsed == IF Good(CheckStatus(o)) THEN SimLocation(o) ELSE CheckStatus(o)
  <2>1. r = Call(given, o, parsed)
    <3>1. r = CreateSimulation(given, o)
      BY <1>0, <1>9 DEF IsResult
    <3> QED
      BY <3>1 DEF CreateSimulation
  <2>2. /\ Sound(parsed, TRUE)
        /\ Good(parsed) => o.status = "2xx"
        /\ o.status = "2xx" /\ o.body = "own" => Good(parsed)
    BY DecodingsAreSound
  <2> HIDE DEF parsed
  <2>3. /\ Good(r) => given /\ o.err = NoError /\ r = parsed
        /\ ~Good(r) /\ given /\ o.err = NoError => r = parsed
    BY <1>4, <2>1, <2>2
  <2> QED
    BY <1>3, <1>9, <2>2, <2>3 DEF IsHeard
<1> QED
  BY <1>5, <1>6, <1>7, <1>8, <1>9, MutationsListed

-----------------------------------------------------------------------------
(* The steps of a process                                                   *)

(* The three calls of a backtest are calls.                                 *)
LEMMA BacktestCalls ==
  /\ CallOf("simulations create", "fit") \in Calls
  /\ CallOf("simulations wait", "fit") \in Calls
  /\ CallOf("alphas get", "fit") \in Calls
<1>1. "simulations create" \in MethodCmds /\ "alphas get" \in MethodCmds
  BY DEF MethodCmds, AlphaReadCmds
<1>2. "fit" \in ArgsOf("simulations create") /\ "fit" \in ArgsOf("alphas get")
  BY DEF ArgsOf
<1>3. "simulations wait" \in WaitCmds /\ "fit" \in ArgClasses \ {"unfit"}
  BY DEF WaitCmds, ArgClasses
<1>4. \A cmd \in MethodCmds : \A a \in ArgsOf(cmd) : CallOf(cmd, a) \in Calls
  BY DEF Calls
<1>5. \A cmd \in WaitCmds, a \in ArgClasses \ {"unfit"} : CallOf(cmd, a) \in Calls
  BY DEF Calls
<1> QED
  BY <1>1, <1>2, <1>3, <1>4, <1>5

(* No call has happened at first.                                           *)
LEMMA CliInitInv == CliInit => CliInv
<1> SUFFICES ASSUME CliInit PROVE CliInv
  OBVIOUS
<1>1. /\ backtest \in BOOLEAN
      /\ call \in IF backtest THEN {CallOf("simulations create", "fit")} ELSE Calls
      /\ timer = "off" /\ proc = "none" /\ exit = NotExited /\ promise = Pending
      /\ twin = NoAnswer /\ sent = FALSE /\ carried = FALSE /\ issue = FALSE /\ lost = FALSE
  BY Zenon DEF CliInit
<1>2. parent = FALSE /\ pc = "get"
  <2>1. Init
    BY Zenon DEF CliInit
  <2> QED
    BY <2>1 DEF Init
<1>3. CallInv
  <2>1. call \in Calls
    BY <1>1, BacktestCalls
  <2>2. CallOf("simulations create", "fit").cmd = "simulations create"
    BY DEF CallOf
  <2>3. Pending.state # "fulfilled"
    BY DEF Pending
  <2> QED
    BY <1>1, <2>1, <2>2, <2>3 DEF CallInv
<1>4. RunInv
  BY <1>1 DEF RunInv
<1>5. WorldInv
  BY <1>1, <1>2 DEF WorldInv
<1>6. ExitInv
  <2>1. "nothing" \notin Kinds
    BY ExitCodes
  <2>2. exit.out = "nothing" /\ exit.data = "none"
    BY <1>1 DEF NotExited, Exited
  <2> QED
    BY <1>1, <2>1, <2>2 DEF ExitInv, SurfacesAgree
<1> QED
  BY <1>3, <1>4, <1>5, <1>6 DEF CliInv

(* What an exit without a payload has to tell: nothing was carried out by   *)
(* then that was not lost, and its code is that of its kind.                *)
LEMMA Refused ==
  ASSUME NEW args \in RefusedEarly
  PROVE  /\ Refuse(args).out \in {"nothing"} \cup Kinds
         /\ Refuse(args).out # "ok"
         /\ Refuse(args).data = "none"
         /\ Refuse(args).out \in Kinds => Refuse(args).code = ExitCodeForKind(Refuse(args).out)
<1>1. Usage.out = "nothing" /\ Usage.data = "none" /\ "nothing" \notin Kinds
  BY ExitCodes DEF Usage, Exited
<1>2. Refuse(args) \in {Usage, WriteErr({}), WriteErr({"network"})}
  BY DEF Refuse, RefusedEarly
<1> QED
  BY <1>1, <1>2, WrittenErr

(* Where there is no tool there is nothing to agree with.                   *)
LEMMA NoTwin == ASSUME twin' = NoAnswer PROVE SurfacesAgree'
<1>1. NoAnswer.kind = "none"
  BY DEF NoAnswer, Answer
<1> QED
  BY <1>1 DEF SurfacesAgree

(* Arguments that are refused end the process before anything is sent.      *)
LEMMA ParseArgsStep == CliInv /\ ParseArgs => CliInv'
<1> SUFFICES ASSUME CliInv, ParseArgs PROVE CliInv'
  OBVIOUS
<1> USE DEF vars, node, world
<1>1. /\ proc = "start"
      /\ \/ call.args \in RefusedEarly /\ proc' = "exited" /\ exit' = Refuse(call.args)
         \/ call.args \notin RefusedEarly /\ proc' = "work" /\ exit' = exit
      /\ UNCHANGED <<kids, finished, pc, children, firstErr, parent, call, backtest, timer,
                     promise, twin, sent, carried, issue, lost>>
  BY DEF ParseArgs, Exits
<1>2. CallInv'
  BY <1>1 DEF CliInv, CallInv
<1>3. RunInv'
  BY <1>1 DEF CliInv, RunInv
<1>4. WorldInv'
  BY <1>1 DEF CliInv, WorldInv
<1>5. ExitInv'
  <2>1. twin' = NoAnswer
    BY <1>1 DEF CliInv, RunInv
  <2>2. SurfacesAgree'
    BY <2>1, NoTwin
  <2>3. CASE call.args \in RefusedEarly
    <3>1. BadExit'
      BY <1>1 DEF CliInv, WorldInv, BadExit
    <3> QED
      BY <1>1, <2>2, <2>3, <3>1, Refused DEF ExitInv
  <2>4. CASE call.args \notin RefusedEarly
    BY <1>1, <2>2, <2>4 DEF CliInv, ExitInv
  <2> QED
    BY <2>3, <2>4
<1> QED
  BY <1>2, <1>3, <1>4, <1>5 DEF CliInv

(* A method ends its process with what it returned, and BRAIN has done what *)
(* a success says; what a failure hides, it had not confirmed in full.      *)
LEMMA CallMethodStep == CliInv /\ CallMethod => CliInv'
<1> SUFFICES ASSUME CliInv, CallMethod PROVE CliInv'
  OBVIOUS
<1> USE DEF vars, node
<1>1. PICK o \in Heard, detail \in BOOLEAN :
        /\ exit' = Command(call.cmd, call.args, detail, o)
        /\ twin' = Twin(o, detail)
        /\ IF Given(call.args)
           THEN sent' = TRUE /\ Hear(o, detail)
           ELSE UNCHANGED <<sent, carried, lost>>
  BY DEF CallMethod, Exits, Details
<1>2. /\ proc = "work" /\ call.cmd \in MethodCmds /\ proc' = "exited"
      /\ UNCHANGED <<kids, finished, pc, children, firstErr, parent, call, backtest, timer,
                     promise, issue>>
  BY DEF CallMethod, Working, Exits
<1>3. o \in Answers /\ Given(call.args) \in BOOLEAN
  BY DEF Heard, Answers, Given
<1>g. PICK given \in BOOLEAN : given = Given(call.args)
  BY <1>3
<1>r. PICK r : r = Method(call.cmd, given, detail, o)
  OBVIOUS
<1>4. call.args \notin RefusedEarly
  BY <1>2 DEF CliInv, CallInv
<1>5. exit' = RunE(call.args, r) /\ Sound(r, Given(call.args))
  BY <1>1, <1>2, <1>3, <1>g, <1>r, CommandsRunMethods, MethodsAreSound
<1>6. call.cmd \notin WaitCmds /\ call.cmd # "feedback"
  BY <1>2, CommandsListed DEF WaitCmds, Reads, Sets, Polls, Lists, Posts, EmailCmds,
    PasswordCmds, PerformanceCmds
<1>7. call.cmd \in Tools(TRUE) \ {"alphas performance"} =>
        twin' = AddTool(r) /\ r.data # "unprintable"
  <2> SUFFICES ASSUME call.cmd \in Tools(TRUE) \ {"alphas performance"}
               PROVE  twin' = AddTool(r) /\ r.data # "unprintable"
    OBVIOUS
  <2>1. twin' = AddTool(r) /\ call.cmd # "alphas recordsets"
    BY <1>1, <1>3, <1>g, <1>r, ToolsRunMethods DEF Twin
  <2> QED
    BY <1>2, <1>3, <1>g, <1>r, <2>1, OnlyRecordSetsAreUnprintable
<1>8. call.cmd \in Mutations =>
        IsHeard(call.cmd, given, detail, o, r) /\ r.data # "unprintable"
  BY <1>2, <1>3, <1>r, MutationsAreHeard, MutationsListed, OnlyRecordSetsAreUnprintable
<1>9. /\ carried => carried'
      /\ {sent', carried', lost'} \subseteq BOOLEAN
      /\ sent' => sent \/ Given(call.args)
      /\ sent => sent'
      /\ carried' /\ ~carried => Given(call.args)
  BY <1>1 DEF Hear, CarriedUnheard, CliInv, WorldInv
<1>10. CallInv'
  BY <1>2, <1>9 DEF CliInv, CallInv
<1>11. RunInv'
  BY <1>2 DEF CliInv, RunInv
<1>12. WorldInv'
  BY <1>2, <1>9 DEF CliInv, WorldInv
<1>13. ExitInv'
  <2>1. /\ exit'.out \in {"nothing", "ok"} \cup Kinds
        /\ exit'.data \in Payloads \cup {"none"}
        /\ exit'.out = "ok" <=> Good(r) /\ r.data # "unprintable"
        /\ exit'.out = "ok" => exit'.code = 0 /\ exit'.data = r.data
        /\ exit'.out \in Kinds => exit'.code = ExitCodeForKind(exit'.out)
        /\ exit'.code = 2 => ~Given(call.args)
        /\ r.data # "unprintable" /\ AddTool(r).kind # "unstructured" =>
             AddTool(r) = Answer(exit'.out, exit'.data)
    BY <1>4, <1>5, Printed
  <2>2. ASSUME exit'.out = "ok" PROVE GoodExit'
    <3>1. call.cmd \in Mutations /\ ~carried' =>
            \/ call.cmd = "auth logout"
            \/ call.cmd \in Sets /\ r.data = "zero"
      BY <1>1, <1>8, <1>g, <2>1, <2>2 DEF Hear, IsHeard
    <3>2. exit'.data = r.data /\ call' = call
      BY <1>2, <2>1, <2>2
    <3> QED
      BY <1>6, <3>1, <3>2 DEF GoodExit, Sets, WaitCmds
  <2>3. ASSUME exit'.out # "ok", ~backtest
        PROVE  /\ carried' => lost'
               /\ ~parent'
               /\ exit'.code = 2 => ~sent' /\ ~issue'
    <3>1. ~carried /\ ~parent /\ ~issue /\ (sent => Given(call.args))
      BY <1>2, <1>6, <2>3 DEF CliInv, WorldInv
    <3>2. carried' => lost'
      <4>1. CASE call.cmd \in Mutations /\ o.status = "2xx" /\ Given(call.args)
        <5>1. ~Good(r)
          BY <1>8, <2>1, <2>3, <4>1 DEF IsHeard
        <5>2. carried' = ~(call.cmd = "auth login" /\ detail /\ o.body = "own")
          BY <1>1, <3>1, <4>1 DEF Hear
        <5>3. o.body # "own" => lost'
          BY <1>1, <4>1 DEF Hear
        <5> QED
          BY <1>8, <1>g, <4>1, <5>1, <5>2, <5>3 DEF IsHeard
      <4>2. CASE ~(call.cmd \in Mutations /\ o.status = "2xx") /\ Given(call.args)
        BY <1>1, <3>1, <4>2 DEF Hear, CarriedUnheard
      <4>3. CASE ~Given(call.args)
        BY <1>1, <3>1, <4>3
      <4> QED
        BY <4>1, <4>2, <4>3
    <3> QED
      BY <1>1, <1>2, <1>9, <2>1, <3>1, <3>2
  <2>4. SurfacesAgree'
    <3>1. call.cmd \notin Tools(TRUE) => twin'.kind = "none"
      BY <1>1 DEF Twin, NoAnswer, Answer
    <3> QED
      BY <1>2, <1>7, <2>1, <3>1 DEF SurfacesAgree
  <2> QED
    BY <1>2, <2>1, <2>2, <2>3, <2>4 DEF ExitInv, BadExit
<1> QED
  BY <1>10, <1>11, <1>12, <1>13 DEF CliInv

(* What a step of a wait does to the rest of the world: nothing; a parent   *)
(* it resolves has ended, and what it gives up on has an error.             *)
LEMMA WaitStepFrame ==
  ASSUME IInv, Step
  PROVE  /\ UNCHANGED <<kids, finished>>
         /\ parent => parent'
         /\ parent' => parent \/ 0 \in finished
         /\ pc # "returned"
         /\ pc' = "returned" /\ ~parent' => firstErr' # "nil"
<1> USE DEF Unanswered, Resolve, NextChild, WaitFor
<1>1. pc # "returned" => (parent <=> current > 0)
  BY DEF IInv, WaitInv, Progress
<1>2. parent \in BOOLEAN /\ current \in Int
  BY SimWaitAssumption DEF IInv, WaitInv, TypeOK
<1>3. CASE PollAnswers \/ PollBlocked \/ PollFails \/ Exceeded \/ Wake \/ SleepCancelled
  BY <1>3 DEF PollAnswers, PollBlocked, PollFails, Exceeded, Wake, SleepCancelled, PollAgain
<1>4. CASE ParentFails
  BY <1>4 DEF ParentFails
<1>5. CASE ParentResolves
  BY <1>5 DEF ParentResolves, IInv, WaitInv, Ended
<1>6. CASE ChildResolves
  BY <1>1, <1>2, <1>6 DEF ChildResolves
<1>7. CASE ChildFails
  BY <1>1, <1>2, <1>7 DEF ChildFails
<1> QED
  BY <1>3, <1>4, <1>5, <1>6, <1>7 DEF Step

(* A wait prints nothing before it ends.                                    *)
LEMMA WaitStepStep == IInv /\ CliInv /\ WaitStep => CliInv'
<1> SUFFICES ASSUME IInv, CliInv, WaitStep PROVE CliInv'
  OBVIOUS
<1> USE DEF node, printed
<1>1. /\ proc = "work" /\ call.cmd \in WaitCmds /\ Given(call.args) /\ Step /\ sent' = TRUE
      /\ UNCHANGED <<call, backtest, timer, promise, proc, exit, twin, carried, issue, lost>>
  BY DEF WaitStep, Working
<1>2. /\ UNCHANGED <<kids, finished>>
      /\ parent' => parent \/ 0 \in finished
      /\ pc' = "returned" /\ ~parent' => firstErr' # "nil"
  BY <1>1, WaitStepFrame
<1>3. CallInv'
  BY <1>1, <1>2 DEF CliInv, CallInv
<1>4. RunInv'
  BY <1>1 DEF CliInv, RunInv
<1>5. WorldInv'
  BY <1>1, <1>2 DEF CliInv, WorldInv
<1>6. ExitInv'
  BY <1>1 DEF CliInv, ExitInv, SurfacesAgree
<1> QED
  BY <1>3, <1>4, <1>5, <1>6 DEF CliInv

(* A wait that ends with the parent names it incomplete if a child is       *)
(* missing; one that ends with an error never had the parent.               *)
LEMMA WaitEndsStep == IInv /\ CliInv /\ WaitEnds => CliInv'
<1> SUFFICES ASSUME IInv, CliInv, WaitEnds PROVE CliInv'
  OBVIOUS
<1> USE DEF vars, node, world
<1>1. /\ proc = "work" /\ call.cmd \in WaitCmds /\ proc' = "exited"
      /\ UNCHANGED <<kids, finished, pc, children, firstErr, parent, call, backtest, timer,
                     promise, twin, sent, carried, issue, lost>>
  BY DEF WaitEnds, Working, Exits
<1>2. call.cmd \notin Mutations /\ call.cmd # "feedback"
  BY <1>1 DEF Mutations, WaitCmds, EmailCmds, PasswordCmds
<1>3. \/ /\ ~Given(call.args)
         /\ exit' = WriteErr({"invalid_argument"})
      \/ /\ pc = "returned" /\ parent
         /\ exit' = WriteOK(IF firstErr = "nil" THEN "own" ELSE "incomplete")
      \/ /\ pc = "returned" /\ ~parent
         /\ \E chain \in CtxFailures \cup Failures \cup {{"long_poll_exceeded"}} :
              exit' = WriteErr(chain)
  <2>1. firstErr \in Errors
    BY DEF IInv, WaitInv, TypeOK
  <2>2. pc = "returned" /\ ~parent => firstErr # "nil"
    BY DEF CliInv, WorldInv
  <2> QED
    BY <2>1, <2>2 DEF WaitEnds, Exits, Errors
<1>4. CallInv'
  BY <1>1 DEF CliInv, CallInv
<1>5. RunInv'
  BY <1>1 DEF CliInv, RunInv
<1>6. WorldInv'
  BY <1>1 DEF CliInv, WorldInv
<1>7. ExitInv'
  <2>1. SurfacesAgree'
    <3>1. twin' = NoAnswer
      BY <1>1 DEF CliInv, RunInv
    <3> QED
      BY <3>1, NoTwin
  <2>2. ~backtest => ~carried /\ ~issue /\ (sent => Given(call.args)) /\ (parent => sent)
    BY <1>1 DEF CliInv, WorldInv
  <2>3. ASSUME NEW chain, exit' = WriteErr(chain), ~backtest => ~parent,
               "invalid_argument" \in chain => ~Given(call.args)
        PROVE  ExitInv'
    <3>1. BadExit'
      BY <1>1, <2>2, <2>3, WrittenErr DEF BadExit
    <3> QED
      BY <1>1, <2>1, <2>3, <3>1, WrittenErr DEF ExitInv
  <2>4. CASE ~Given(call.args) /\ exit' = WriteErr({"invalid_argument"})
    BY <2>2, <2>3, <2>4
  <2>5. CASE /\ pc = "returned" /\ parent
             /\ exit' = WriteOK(IF firstErr = "nil" THEN "own" ELSE "incomplete")
    <3>1. exit' = [code |-> 0, out |-> "ok",
                   data |-> IF firstErr = "nil" THEN "own" ELSE "incomplete"]
      BY <2>5 DEF WriteOK, Exited, ExitOK
    <3>2. firstErr = "nil" <=> children = Children
      BY <2>5 DEF IInv, WaitInv, Returned
    <3>3. (children = Children)' <=> children = Children
      BY <1>1 DEF Children
    <3>4. GoodExit'
      <4>1. (exit'.data = "incomplete") <=> (children' # Children')
        BY <3>1, <3>2, <3>3
      <4>2. call' = call /\ parent'
        BY <1>1, <2>5
      <4> QED
        BY <1>2, <4>1, <4>2 DEF GoodExit
    <3>5. "ok" \notin Kinds
      BY ExitCodes
    <3>6. exit'.data \in Payloads
      BY <3>1 DEF Payloads
    <3> QED
      BY <1>1, <2>1, <3>1, <3>4, <3>5, <3>6 DEF ExitInv
  <2>6. CASE /\ pc = "returned" /\ ~parent
             /\ \E chain \in CtxFailures \cup Failures \cup {{"long_poll_exceeded"}} :
                  exit' = WriteErr(chain)
    <3>1. \A chain \in CtxFailures \cup Failures \cup {{"long_poll_exceeded"}} :
            "invalid_argument" \notin chain
      BY DEF CtxFailures, Failures
    <3> QED
      BY <2>3, <2>6, <3>1
  <2> QED
    BY <1>3, <2>4, <2>5, <2>6
<1> QED
  BY <1>4, <1>5, <1>6, <1>7 DEF CliInv

(* A report comes back as filed when GitHub said so, and an issue that came *)
(* back as a draft is one whose answer was lost.                            *)
LEMMA FileReportStep == CliInv /\ FileReport => CliInv'
<1> SUFFICES ASSUME CliInv, FileReport PROVE CliInv'
  OBVIOUS
<1> USE DEF vars, node
<1>1. PICK g \in GitHub, body \in {"short", "long"} :
        /\ exit' = WriteOK(File(TRUE, body, call.token, call.confirm, g))
        /\ issue' = (MayPost(call.token, call.confirm) /\ g.made)
        /\ lost' = (issue' /\ g.answer # "created")
  BY DEF FileReport, Exits
<1>2. /\ proc = "work" /\ call.cmd = "feedback" /\ proc' = "exited"
      /\ UNCHANGED <<kids, finished, pc, children, firstErr, parent, call, backtest, timer,
                     promise, twin, sent, carried>>
  BY DEF FileReport, Working, Exits
<1>3. call.cmd \notin Mutations \cup WaitCmds
  BY <1>2 DEF Mutations, WaitCmds, EmailCmds, PasswordCmds
<1> DEFINE data == File(TRUE, body, call.token, call.confirm, g)
<1>4. /\ data \in {"filed", "draft", "draft_cut"}
      /\ data = "filed" <=> MayPost(call.token, call.confirm) /\ g.answer = "created"
  BY DEF File, PostIssue, DraftURL, BuildIssue
<1>5. exit' = [code |-> 0, out |-> "ok", data |-> data]
  BY <1>1, <1>4 DEF WriteOK, Exited, ExitOK
<1> HIDE DEF data
<1>6. CallInv'
  BY <1>2 DEF CliInv, CallInv
<1>7. RunInv'
  BY <1>2 DEF CliInv, RunInv
<1>8. WorldInv'
  <2>1. issue' \in BOOLEAN /\ lost' \in BOOLEAN
    BY <1>1
  <2>2. issue' => call.token /\ call.confirm
    BY <1>1 DEF MayPost
  <2> QED
    BY <1>2, <1>3, <2>1, <2>2 DEF CliInv, WorldInv
<1>9. ExitInv'
  <2>1. SurfacesAgree'
    <3>1. twin' = NoAnswer
      BY <1>2 DEF CliInv, RunInv
    <3> QED
      BY <3>1, NoTwin
  <2>2. g.answer = "created" => g.made
    BY DEF GitHub
  <2>3. IF data = "filed" THEN issue' ELSE issue' => lost'
    BY <1>1, <1>4, <2>2
  <2>4. GoodExit'
    BY <1>2, <1>3, <1>5, <2>3 DEF GoodExit, WaitCmds
  <2>5. "ok" \notin Kinds /\ data \in Payloads
    BY <1>4, ExitCodes DEF Payloads
  <2> QED
    BY <1>2, <1>5, <2>1, <2>4, <2>5 DEF ExitInv
<1> QED
  BY <1>6, <1>7, <1>8, <1>9 DEF CliInv

(* corr-local does nothing but print.                                       *)
LEMMA CorrLocalStep == CliInv /\ CorrLocal => CliInv'
<1> SUFFICES ASSUME CliInv, CorrLocal PROVE CliInv'
  OBVIOUS
<1> USE DEF vars, node, world
<1>1. /\ proc = "work" /\ call.cmd = "alphas corr-local" /\ proc' = "exited"
      /\ exit' = WriteOK("own")
      /\ UNCHANGED <<kids, finished, pc, children, firstErr, parent, call, backtest, timer,
                     promise, twin, sent, carried, issue, lost>>
  BY DEF CorrLocal, Working, Exits
<1>2. call.cmd \notin Mutations \cup WaitCmds
  BY <1>1 DEF Mutations, WaitCmds, EmailCmds, PasswordCmds
<1>3. exit' = [code |-> 0, out |-> "ok", data |-> "own"]
  BY <1>1 DEF WriteOK, Exited, ExitOK
<1>4. CallInv'
  BY <1>1 DEF CliInv, CallInv
<1>5. RunInv'
  BY <1>1 DEF CliInv, RunInv
<1>6. WorldInv'
  BY <1>1 DEF CliInv, WorldInv
<1>7. ExitInv'
  <2>1. SurfacesAgree'
    <3>1. twin' = NoAnswer
      BY <1>1 DEF CliInv, RunInv
    <3> QED
      BY <3>1, NoTwin
  <2>2. GoodExit'
    BY <1>1, <1>2 DEF GoodExit, WaitCmds
  <2>3. "ok" \notin Kinds /\ "own" \in Payloads
    BY ExitCodes DEF Payloads
  <2>4. proc' = "exited"
    BY <1>1
  <2> QED
    BY <1>3, <2>1, <2>2, <2>3, <2>4 DEF ExitInv
<1> QED
  BY <1>4, <1>5, <1>6, <1>7 DEF CliInv

(* A process that dies prints nothing; what it may have done is lost.       *)
LEMMA DiesStep ==
  ASSUME CliInv, Dies, proc \in {"start", "work"},
         UNCHANGED <<call, backtest, promise>>, promise = Pending,
         timer' \in {"off", "armed", "fired", "killed"}
  PROVE  CliInv'
<1> USE DEF vars
<1>1. /\ proc' = "exited" /\ exit' = [code |-> 99, out |-> "nothing", data |-> "none"]
      /\ UNCHANGED <<kids, finished, pc, children, firstErr, parent, twin, sent>>
  BY DEF Dies, Exits, Signalled, Exited
<1>2. /\ {sent, carried, issue, lost} \subseteq BOOLEAN
      /\ ~issue
      /\ ~backtest => ~carried
  BY DEF CliInv, WorldInv
<1>3. /\ {carried', issue', lost'} \subseteq BOOLEAN
      /\ carried => carried'
      /\ issue' => call.cmd = "feedback" /\ call.token /\ call.confirm
      /\ ~backtest /\ carried' => lost'
  <2>1. CASE Working(Mutations)
    BY <1>2, <2>1 DEF Dies, CarriedUnheard
  <2>2. CASE ~Working(Mutations) /\ Working({"feedback"})
    BY <1>2, <2>2 DEF Dies, MayPost, Working
  <2>3. CASE ~Working(Mutations) /\ ~Working({"feedback"})
    BY <1>2, <2>3 DEF Dies
  <2> QED
    BY <2>1, <2>2, <2>3
<1>4. CallInv'
  BY <1>1, <1>3 DEF CliInv, CallInv
<1>5. RunInv'
  BY <1>1 DEF CliInv, RunInv
<1>6. WorldInv'
  BY <1>1, <1>2, <1>3 DEF CliInv, WorldInv
<1>7. ExitInv'
  <2>1. SurfacesAgree'
    <3>1. twin' = NoAnswer
      BY <1>1 DEF CliInv, RunInv
    <3> QED
      BY <3>1, NoTwin
  <2>2. BadExit'
    <3>1. exit' = Signalled
      BY DEF Dies, Exits
    <3>2. exit'.code # 2
      BY <1>1
    <3> QED
      BY <1>3, <3>1, <3>2 DEF BadExit, Signalled
  <2>3. "nothing" \notin Kinds
    BY ExitCodes
  <2> QED
    BY <1>1, <2>1, <2>2, <2>3 DEF ExitInv
<1> QED
  BY <1>4, <1>5, <1>6, <1>7 DEF CliInv

(* A step that leaves the calls, the processes and the world alone.         *)
LEMMA NothingElse ==
  ASSUME CliInv,
         UNCHANGED <<kids, pc, children, firstErr, parent, call, backtest, promise, proc, exit,
                     twin, sent, carried, issue, lost>>,
         finished \subseteq finished',
         timer' \in {"off", "armed", "fired", "killed"},
         promise # Pending \/ proc = "none" => timer' = timer
  PROVE  CliInv'
<1>1. CallInv'
  BY DEF CliInv, CallInv
<1>2. RunInv'
  BY DEF CliInv, RunInv, ParseEnvelope
<1>3. WorldInv'
  BY DEF CliInv, WorldInv
<1>4. ExitInv'
  <2>1. Children' = Children
    BY DEF Children
  <2>2. GoodExit' <=> GoodExit
    BY <2>1 DEF GoodExit
  <2>3. BadExit' <=> BadExit
    BY DEF BadExit
  <2>4. SurfacesAgree' <=> SurfacesAgree
    BY DEF SurfacesAgree
  <2> QED
    BY <2>2, <2>3, <2>4 DEF CliInv, ExitInv
<1> QED
  BY <1>1, <1>2, <1>3, <1>4 DEF CliInv

(* A signal: it kills a process without a handler and cancels one that has  *)
(* one, and is too late for one that has exited.                            *)
LEMMA TerminatedStep ==
  ASSUME CliInv, Terminated, promise = Pending, UNCHANGED <<call, backtest, promise>>,
         timer' \in {"off", "armed", "fired", "killed"}
  PROVE  CliInv'
<1>1. CASE Dies /\ proc \in {"start", "work"}
  BY <1>1, DiesStep
<1>2. CASE /\ proc \in {"work", "exited"}
           /\ Cancel \/ UNCHANGED vars
           /\ UNCHANGED <<proc, printed, world>>
  <2>1. /\ UNCHANGED <<kids, pc, children, firstErr, parent, proc, exit, twin, sent, carried,
                       issue, lost>>
        /\ finished' = finished
    BY <1>2 DEF Cancel, vars, printed, world
  <2> QED
    BY <1>2, <2>1, NothingElse
<1> QED
  BY <1>1, <1>2 DEF Terminated, Working

-----------------------------------------------------------------------------
(* The steps of the client                                                  *)

(* A process starts clean.                                                  *)
LEMMA SpawnStep == CliInv /\ Spawn => CliInv'
<1> SUFFICES ASSUME CliInv, Spawn PROVE CliInv'
  OBVIOUS
<1>1. /\ proc = "none" /\ promise = Pending /\ proc' = "start" /\ timer' \in {"off", "armed"}
      /\ UNCHANGED <<kids, finished, pc, children, firstErr, parent, call, backtest, promise,
                     exit, twin, sent, carried, issue, lost>>
  BY DEF Spawn, vars, printed, world
<1>2. CallInv'
  BY <1>1 DEF CliInv, CallInv
<1>3. RunInv'
  BY <1>1 DEF CliInv, RunInv
<1>4. WorldInv'
  BY <1>1 DEF CliInv, WorldInv
<1>5. ExitInv'
  BY <1>1 DEF CliInv, ExitInv, SurfacesAgree
<1> QED
  BY <1>2, <1>3, <1>4, <1>5 DEF CliInv

(* What a promise that fails to start is rejected with says nothing else.   *)
LEMMA SpawnFailsStep == CliInv /\ SpawnFails => CliInv'
<1> SUFFICES ASSUME CliInv, SpawnFails PROVE CliInv'
  OBVIOUS
<1>1. /\ proc = "none" /\ promise' = Rejected("TransportError", "none")
      /\ UNCHANGED <<kids, finished, pc, children, firstErr, parent, call, backtest, timer, proc,
                     exit, twin, sent, carried, issue, lost>>
  BY DEF SpawnFails, vars, printed, world
<1>2. CallInv'
  <2>1. promise'.state # "fulfilled"
    BY <1>1 DEF Rejected, Pending
  <2> QED
    BY <1>1, <2>1 DEF CliInv, CallInv
<1>3. RunInv'
  BY <1>1 DEF CliInv, RunInv
<1>4. WorldInv'
  BY <1>1 DEF CliInv, WorldInv
<1>5. ExitInv'
  BY <1>1 DEF CliInv, ExitInv, SurfacesAgree
<1> QED
  BY <1>2, <1>3, <1>4, <1>5 DEF CliInv

(* The close of a process settles the promise by its timer and its exit, or *)
(* starts the next one of a backtest with what this one achieved.           *)
LEMMA CloseStep == IInv /\ CliInv /\ Close => CliInv'
<1> SUFFICES ASSUME IInv, CliInv, Close PROVE CliInv'
  OBVIOUS
<1> USE DEF vars, world
<1>1. /\ proc = "exited" /\ promise = Pending /\ timer' = "off"
      /\ UNCHANGED <<backtest, sent, carried, issue, lost>>
  BY DEF Close
<1>2. \/ /\ Settle
         /\ backtest /\ Settlement.state = "fulfilled" => "none" \in NextCommand
      \/ /\ backtest /\ Settlement.state = "fulfilled"
         /\ \E cmd \in NextCommand \ {"none"} : Continue(cmd)
  BY DEF Close
<1>3. \/ Settlement = Rejected("TransportError", "none")
      \/ Settlement = ParseEnvelope(exit)
  BY DEF Settlement
<1>4. CASE /\ Settle
           /\ backtest /\ Settlement.state = "fulfilled" => "none" \in NextCommand
  <2>1. /\ promise' = Settlement
        /\ UNCHANGED <<kids, finished, pc, children, firstErr, parent, call, proc, exit, twin>>
    BY <1>4 DEF Settle
  <2>2. CallInv'
    <3>1. call.cmd = "simulations create" => "none" \notin NextCommand
      BY DEF NextCommand
    <3> QED
      BY <1>1, <1>4, <2>1, <3>1 DEF CliInv, CallInv
  <2>3. RunInv'
    <3>1. ParseEnvelope(exit)' = ParseEnvelope(exit)
      BY <2>1 DEF ParseEnvelope, ErrorForExitCode
    <3> QED
      BY <1>1, <1>3, <2>1, <3>1 DEF CliInv, RunInv
  <2>4. WorldInv'
    BY <1>1, <2>1 DEF CliInv, WorldInv
  <2>5. ExitInv'
    <3>1. Children' = Children
      BY <2>1 DEF Children
    <3>2. GoodExit' <=> GoodExit
      BY <1>1, <2>1, <3>1 DEF GoodExit
    <3>3. BadExit' <=> BadExit
      BY <1>1, <2>1 DEF BadExit
    <3>4. SurfacesAgree' <=> SurfacesAgree
      BY <2>1 DEF SurfacesAgree
    <3> QED
      BY <2>1, <3>2, <3>3, <3>4 DEF CliInv, ExitInv
  <2> QED
    BY <2>2, <2>3, <2>4, <2>5 DEF CliInv
<1>5. ASSUME NEW cmd \in NextCommand \ {"none"}, Continue(cmd),
             backtest, Settlement.state = "fulfilled"
      PROVE  CliInv'
  <2>1. /\ call' = CallOf(cmd, "fit") /\ proc' = "none" /\ exit' = NotExited /\ twin' = NoAnswer
        /\ UNCHANGED <<kids, finished, pc, children, firstErr, parent, promise>>
    BY <1>5 DEF Continue
  <2>2. GoodExit
    <3>1. exit.out = "ok"
      BY <1>3, <1>5 DEF ParseEnvelope, Rejected, Pending
    <3> QED
      BY <1>1, <3>1 DEF CliInv, ExitInv
  <2>3. PICK old \in {"simulations create", "simulations wait", "alphas get"} :
          call = CallOf(old, "fit")
    BY <1>5 DEF CliInv, CallInv
  <2>4. call.cmd = old /\ call'.cmd = cmd /\ call'.args = "fit"
    BY <2>1, <2>3 DEF CallOf
  <2>5. \/ old = "simulations create" /\ cmd = "simulations wait"
        \/ old = "simulations wait" /\ cmd = "alphas get"
    BY <2>4 DEF NextCommand
  <2>6. CallInv'
    <3>1. carried
      BY <1>5, <2>2, <2>4, <2>5 DEF GoodExit, Mutations, CliInv, CallInv
    <3>2. cmd = "alphas get" => 0 \in finished
      BY <2>2, <2>4, <2>5 DEF GoodExit, WaitCmds, CliInv, WorldInv
    <3>3. call' \in Calls
      BY <2>1, <2>5, BacktestCalls
    <3>4. promise'.state # "fulfilled"
      BY <1>1, <2>1 DEF Pending
    <3> QED
      BY <1>1, <1>5, <2>1, <2>4, <2>5, <3>1, <3>2, <3>3, <3>4 DEF CallInv
  <2>7. RunInv'
    BY <1>1, <2>1 DEF CliInv, RunInv
  <2>8. WorldInv'
    BY <1>1, <1>5, <2>1, <2>4, <2>5 DEF CliInv, WorldInv
  <2>9. ExitInv'
    <3>1. exit'.out = "nothing" /\ exit'.data = "none"
      BY <2>1 DEF NotExited, Exited
    <3>2. "nothing" \notin Kinds
      BY ExitCodes
    <3> QED
      BY <2>1, <3>1, <3>2, NoTwin DEF ExitInv
  <2> QED
    BY <2>6, <2>7, <2>8, <2>9 DEF CliInv
<1> QED
  BY <1>2, <1>4, <1>5

(* Every step keeps the invariant; once the promise is settled there is     *)
(* none.                                                                    *)
LEMMA CliNextInv == IInv /\ CliInv /\ [CliNext]_cliVars => CliInv'
<1> SUFFICES ASSUME IInv, CliInv, [CliNext]_cliVars PROVE CliInv'
  OBVIOUS
<1>1. CASE ProcStep
  BY <1>1, ParseArgsStep, CallMethodStep, WaitStepStep, WaitEndsStep, FileReportStep,
    CorrLocalStep DEF ProcStep
<1>2. timer \in {"armed", "fired"} \/ proc \in {"start", "work"} => promise = Pending
  BY DEF CliInv, RunInv
<1>3. CASE TimerFires
  BY <1>2, <1>3, TerminatedStep DEF TimerFires
<1>4. CASE GraceEnds
  BY <1>2, <1>4, DiesStep DEF GraceEnds, Grace
<1>5. CASE Spawn \/ SpawnFails \/ Close
  BY <1>5, SpawnStep, SpawnFailsStep, CloseStep
<1>6. timer \in {"off", "armed", "fired", "killed"}
  BY DEF CliInv, RunInv
<1>7. CASE Interrupt
  <2>1. UNCHANGED <<call, backtest, timer, promise>>
    BY <1>7 DEF Interrupt, node
  <2> QED
    BY <1>2, <1>6, <1>7, <2>1, TerminatedStep DEF Interrupt
<1>8. CASE FinishSim
  <2>1. /\ UNCHANGED <<kids, pc, children, firstErr, parent, call, backtest, promise, proc, exit,
                       twin, sent, carried, issue, lost, timer>>
        /\ finished \subseteq finished'
    BY <1>8 DEF FinishSim, Finish, node, printed, world
  <2> QED
    BY <1>6, <2>1, NothingElse
<1>9. CASE UNCHANGED cliVars
  <2>1. /\ UNCHANGED <<kids, pc, children, firstErr, parent, call, backtest, promise, proc, exit,
                       twin, sent, carried, issue, lost, timer>>
        /\ finished' = finished
    BY <1>9 DEF cliVars, vars, node, printed, world
  <2> QED
    BY <1>6, <2>1, NothingElse
<1> QED
  BY <1>1, <1>3, <1>4, <1>5, <1>7, <1>8, <1>9 DEF CliNext, ClientStep

-----------------------------------------------------------------------------
(* Theorems                                                                 *)

(* The invariant of the promises holds for every call.                      *)
THEOREM CliInvariant == CliSpec => [](IInv /\ CliInv)
<1>1. CliInit => CliInv
  BY CliInitInv
<1>2. IInv /\ CliInv /\ [CliNext]_cliVars => CliInv'
  BY CliNextInv
<1> QED
  BY <1>1, <1>2, WaitInvariant, PTL DEF CliSpec

(* The state of a promise: pending, or what its process made of it.         *)
LEMMA Promised ==
  ASSUME CliInv
  PROVE  /\ promise.state \in {"pending", "fulfilled", "rejected"}
         /\ promise.state = "fulfilled" =>
              /\ proc = "exited" /\ exit.out = "ok"
              /\ promise.data = exit.data
              /\ GoodExit
<1>1. Pending.state = "pending" /\ Rejected("TransportError", "none").state = "rejected"
  BY DEF Pending, Rejected
<1>2. \/ /\ exit.out = "ok"
         /\ ParseEnvelope(exit).state = "fulfilled" /\ ParseEnvelope(exit).data = exit.data
      \/ ParseEnvelope(exit).state = "rejected"
  BY DEF ParseEnvelope, Fulfilled, Rejected, Pending
<1>3. \/ promise = Pending
      \/ promise = Rejected("TransportError", "none")
      \/ proc = "exited" /\ promise = ParseEnvelope(exit)
  BY DEF CliInv, RunInv
<1>4. proc = "exited" /\ exit.out = "ok" => GoodExit
  BY DEF CliInv, ExitInv
<1> QED
  BY <1>1, <1>2, <1>3, <1>4

(* What a call, its process, its promise and the world can be.              *)
THEOREM CliTypesHold == CliSpec => []CliTypeOK
<1>1. IInv /\ CliInv => CliTypeOK
  <2> SUFFICES ASSUME IInv, CliInv PROVE CliTypeOK
    OBVIOUS
  <2>1. TypeOK /\ call \in Calls /\ backtest \in BOOLEAN
    BY DEF IInv, WaitInv, CliInv, CallInv
  <2>2. /\ timer \in {"off", "armed", "fired", "killed"}
        /\ proc \in {"none", "start", "work", "exited"}
    BY DEF CliInv, RunInv
  <2>3. exit.out \in {"nothing", "ok"} \cup Kinds /\ exit.data \in Payloads \cup {"none"}
    BY DEF CliInv, ExitInv
  <2>4. promise.state \in {"pending", "fulfilled", "rejected"}
    BY Promised
  <2>5. {sent, carried, issue, lost} \subseteq BOOLEAN
    BY DEF CliInv, WorldInv
  <2> QED
    BY <2>1, <2>2, <2>3, <2>4, <2>5 DEF CliTypeOK
<1> QED
  BY <1>1, CliInvariant, PTL

(* A promise that is fulfilled has what it was promised: the mutation is    *)
(* carried out, the children of a simulation are all there or said not to   *)
(* be, the simulation of a backtest has ended.                              *)
THEOREM PromisesAreTrue == CliSpec => []FulfilledIsTrue
<1>1. IInv /\ CliInv => FulfilledIsTrue
  <2> SUFFICES ASSUME IInv, CliInv, promise.state = "fulfilled"
               PROVE  /\ call.cmd \in Mutations /\ ~carried =>
                           \/ call.cmd = "auth logout"
                           \/ /\ call.cmd \in Sets
                              /\ promise.data = "zero"
                      /\ call.cmd = "simulations wait-multi" =>
                           (promise.data = "incomplete" <=> children # Children)
                      /\ backtest => carried /\ 0 \in finished
    BY DEF FulfilledIsTrue, Sets
  <2>1. promise.data = exit.data /\ GoodExit
    BY Promised
  <2>2. backtest => carried /\ 0 \in finished
    <3> SUFFICES ASSUME backtest PROVE carried /\ 0 \in finished
      OBVIOUS
    <3>1. call.cmd \in {"simulations wait", "alphas get"} /\ carried
      <4>1. PICK cmd \in {"simulations create", "simulations wait", "alphas get"} :
              call = CallOf(cmd, "fit")
        BY DEF CliInv, CallInv
      <4>2. call.cmd = cmd
        BY <4>1 DEF CallOf
      <4> QED
        BY <4>2 DEF CliInv, CallInv
    <3>2. CASE call.cmd = "simulations wait"
      BY <2>1, <3>1, <3>2 DEF GoodExit, WaitCmds, CliInv, WorldInv
    <3>3. CASE call.cmd = "alphas get"
      BY <3>1, <3>3 DEF CliInv, CallInv
    <3> QED
      BY <3>1, <3>2, <3>3
  <2> QED
    BY <2>1, <2>2 DEF GoodExit, Sets
<1> QED
  BY <1>1, CliInvariant, PTL

(* A rejection has the class of its kind, a usage error sent nothing, and   *)
(* what was carried out behind a rejection was lost on the way.             *)
THEOREM RejectionsAreTrue == CliSpec => []RejectionIsTrue
<1>1. IInv /\ CliInv => RejectionIsTrue
  <2> SUFFICES ASSUME IInv, CliInv, promise.state = "rejected" PROVE RejectionIsTrue
    BY DEF RejectionIsTrue
  <2>1. "none" \notin Kinds /\ "no_output" \notin Kinds /\ "nothing" \notin Kinds
    BY ExitCodes
  <2>2. CASE promise = Rejected("TransportError", "none")
    <3>1. promise.class = "TransportError" /\ promise.kind = "none"
      BY <2>2 DEF Rejected, Pending
    <3> QED
      BY <2>1, <3>1 DEF RejectionIsTrue, TimedOut
  <2>3. CASE proc = "exited" /\ promise = ParseEnvelope(exit)
    <3>1. /\ exit.out # "ok"
          /\ promise.class = ErrorForExitCode(exit.code)
          /\ promise.kind = IF exit.out = "nothing" THEN "no_output" ELSE exit.out
      BY <2>3 DEF ParseEnvelope, Rejected, Fulfilled, Pending
    <3>2. BadExit
      BY <2>3, <3>1 DEF CliInv, ExitInv
    <3>3. promise.class = "UsageError" => exit.code = 2
      BY <3>1 DEF ErrorForExitCode
    <3>4. ASSUME promise.kind \in Kinds
          PROVE  \E row \in StaticExitCodes :
                   /\ promise.kind \in row.kinds
                   /\ promise.class = ErrorForExitCode(row.code)
      <4>1. promise.kind = exit.out /\ exit.code = ExitCodeForKind(promise.kind)
        BY <2>1, <3>1, <3>4 DEF CliInv, ExitInv
      <4>2. PICK row \in StaticExitCodes :
              promise.kind \in row.kinds /\ row.code = ExitCodeForKind(promise.kind)
        BY <3>4, ExitCodes
      <4> QED
        BY <3>1, <4>1, <4>2
    <3> QED
      BY <3>2, <3>3, <3>4 DEF RejectionIsTrue, BadExit
  <2>4. promise # Pending
    BY DEF Pending
  <2> QED
    BY <2>2, <2>3, <2>4 DEF CliInv, RunInv
<1> QED
  BY <1>1, CliInvariant, PTL

(* The MCP tool answers a call as the command prints it.                    *)
THEOREM SurfacesStayEqual == CliSpec => []SurfacesAgree
<1>1. CliInv => SurfacesAgree
  BY DEF CliInv, ExitInv
<1> QED
  BY <1>1, CliInvariant, PTL

(* A report that comes back as filed is an issue, one that comes back as a  *)
(* draft is none unless its answer was lost, and none is made unconfirmed.  *)
THEOREM ReportsAreFiledOnce == CliSpec => []ReportIsFiledOnce
<1>1. CliInv => ReportIsFiledOnce
  <2> SUFFICES ASSUME CliInv PROVE ReportIsFiledOnce
    OBVIOUS
  <2>1. issue => call.token /\ call.confirm
    BY DEF CliInv, WorldInv
  <2>2. ASSUME promise.state = "fulfilled", call.cmd = "feedback"
        PROVE  IF promise.data = "filed" THEN issue ELSE issue => lost
    <3>1. promise.data = exit.data /\ GoodExit
      BY <2>2, Promised
    <3> QED
      BY <2>2, <3>1 DEF GoodExit
  <2> QED
    BY <2>1, <2>2 DEF ReportIsFiledOnce
<1> QED
  BY <1>1, CliInvariant, PTL

-----------------------------------------------------------------------------
(* A promise runs out of steps, and then is final                           *)

(* The processes a backtest has still to run after this one.                *)
StagesAfter(cmd) ==
  IF cmd = "simulations create" THEN 2 ELSE IF cmd = "simulations wait" THEN 1 ELSE 0

StagesLeft == IF backtest THEN StagesAfter(call.cmd) ELSE 0

BeforeClose == CASE proc = "none" -> 7 [] proc = "start" -> 3 [] proc = "work" -> 2 [] proc = "exited" -> 1

(* The timer may yet fire, and then kill.                                   *)
TimerLeft == CASE timer = "armed" -> 2 [] timer = "fired" -> 1 [] timer \in {"off", "killed"} -> 0

(* The measure of a promise: the processes, the one that runs, its timer    *)
(* and its wait.                                                            *)
PromiseFuel ==
  IF promise # Pending THEN 0
  ELSE 8 * StagesLeft + BeforeClose + TimerLeft + WaitFuel

PromiseBounded ==
  /\ PromiseFuel \in 0 .. MostWaitSteps + 25
  /\ PromiseFuel = 0 <=> promise # Pending

(* What a step may do to it: a step of the process, the timer or the client *)
(* lowers it, nothing raises it.                                            *)
PromiseBurns ==
  /\ PromiseFuel' <= PromiseFuel
  /\ ProcStep \/ ClientStep => PromiseFuel' < PromiseFuel

(* A backtest is at one of its three commands.                              *)
LEMMA StageNames ==
  ASSUME CliInv, backtest
  PROVE  call.cmd \in {"simulations create", "simulations wait", "alphas get"}
<1>1. PICK cmd \in {"simulations create", "simulations wait", "alphas get"} :
        call = CallOf(cmd, "fit")
  BY DEF CliInv, CallInv
<1>2. CallOf(cmd, "fit").cmd = cmd
  BY DEF CallOf
<1> QED
  BY <1>1, <1>2

(* How many are left after each.                                            *)
LEMMA StageValues ==
  /\ StagesAfter("simulations create") = 2
  /\ StagesAfter("simulations wait") = 1
  /\ StagesAfter("alphas get") = 0
BY ZenonT(20) DEF StagesAfter

(* The parts of the measure are numbers.                                    *)
LEMMA PromiseParts ==
  ASSUME CliInv
  PROVE  StagesLeft \in 0 .. 2 /\ BeforeClose \in 1 .. 7 /\ TimerLeft \in 0 .. 2
<1>1. BeforeClose \in 1 .. 7 /\ TimerLeft \in 0 .. 2
  BY DEF CliInv, RunInv, BeforeClose, TimerLeft
<1>2. StagesLeft \in 0 .. 2
  <2>1. CASE backtest
    <3>1. StagesLeft = StagesAfter(call.cmd)
      BY <2>1, ZenonT(20) DEF StagesLeft
    <3>2. StagesLeft = 0 \/ StagesLeft = 1 \/ StagesLeft = 2
      BY <2>1, <3>1, StageNames, StageValues, ZenonT(20)
    <3> QED
      BY <3>2
  <2>2. CASE ~backtest
    <3>1. StagesLeft = 0
      BY <2>2, ZenonT(20) DEF StagesLeft
    <3> QED
      BY <3>1
  <2> QED
    BY <2>1, <2>2
<1> QED
  BY <1>1, <1>2

(* So is it, with a bound the children and the cap give.                    *)
LEMMA PromiseFuelType == IInv /\ CliInv => PromiseBounded
<1> SUFFICES ASSUME IInv, CliInv PROVE PromiseBounded
  OBVIOUS
<1>1. WaitFuel \in 0 .. MostWaitSteps /\ MostWaitSteps \in Nat
  BY WaitFuelType, SimWaitAssumption DEF IInv, WaitInv, MostWaitSteps, SimCost
<1> QED
  BY <1>1, PromiseParts DEF PromiseBounded, PromiseFuel

(* When the promise is settled nothing is left that could step.             *)
LEMMA SettledStops ==
  ASSUME CliInv, promise # Pending
  PROVE  ~CliNext
<1>1. timer = "off" /\ proc \in {"none", "exited"}
  BY DEF CliInv, RunInv
<1>2. ~ProcStep
  BY <1>1 DEF ProcStep, ParseArgs, CallMethod, WaitStep, WaitEnds, FileReport, CorrLocal, Working
<1>3. ~ClientStep
  BY <1>1 DEF ClientStep, Spawn, SpawnFails, TimerFires, GraceEnds, Grace, Close
<1>4. ~Interrupt /\ ~FinishSim
  BY <1>1 DEF Interrupt, FinishSim
<1> QED
  BY <1>2, <1>3, <1>4 DEF CliNext

(* While it is not, steps of the process and of the client burn fuel, and a *)
(* signal or the end of a simulation at most passes the time.               *)
LEMMA PromiseStepBurns ==
  ASSUME IInv, CliInv, CliInv', IInv', CliNext
  PROVE  PromiseBurns
<1>0. /\ promise = Pending
      /\ StagesLeft \in 0 .. 2 /\ BeforeClose \in 1 .. 7 /\ TimerLeft \in 0 .. 2
      /\ StagesLeft' \in 0 .. 2 /\ BeforeClose' \in 1 .. 7 /\ TimerLeft' \in 0 .. 2
      /\ WaitFuel \in Nat /\ WaitFuel' \in Nat
  <2>1. promise = Pending
    BY SettledStops
  <2>2. StagesLeft \in 0 .. 2 /\ BeforeClose \in 1 .. 7 /\ TimerLeft \in 0 .. 2
    BY PromiseParts
  <2>3. (StagesLeft \in 0 .. 2 /\ BeforeClose \in 1 .. 7 /\ TimerLeft \in 0 .. 2)'
    BY PromiseParts, PTL
  <2>4. WaitFuel \in 0 .. MostWaitSteps /\ MostWaitSteps \in Nat
    BY WaitFuelType, SimWaitAssumption DEF IInv, WaitInv, MostWaitSteps, SimCost
  <2>5. TypeOK'
    BY DEF IInv, WaitInv
  <2>6. (WaitFuel \in 0 .. MostWaitSteps)'
    BY <2>5, WaitFuelType, PTL
  <2>7. WaitFuel' \in 0 .. MostWaitSteps
    BY <2>6 DEF MostWaitSteps, SimCost
  <2> QED
    BY <2>1, <2>2, <2>3, <2>4, <2>7
<1>1. PromiseFuel = 8 * StagesLeft + BeforeClose + TimerLeft + WaitFuel
  BY <1>0 DEF PromiseFuel
<1>2. ASSUME promise' # Pending PROVE PromiseFuel' < PromiseFuel
  <2>1. PromiseFuel' = 0
    BY <1>2 DEF PromiseFuel
  <2> QED
    BY <1>0, <1>1, <2>1
<1>3. ASSUME promise' = Pending,
             \/ /\ StagesLeft' = StagesLeft /\ BeforeClose' <= BeforeClose
                /\ TimerLeft' <= TimerLeft /\ WaitFuel' <= WaitFuel
                /\ BeforeClose' < BeforeClose \/ TimerLeft' < TimerLeft \/ WaitFuel' < WaitFuel
             \/ /\ StagesLeft' = StagesLeft /\ BeforeClose = 7 /\ BeforeClose' = 3
                /\ WaitFuel' = WaitFuel
             \/ /\ StagesLeft = StagesLeft' + 1 /\ BeforeClose = 1 /\ BeforeClose' = 7
                /\ TimerLeft' = 0 /\ WaitFuel' = WaitFuel
      PROVE  PromiseFuel' < PromiseFuel
  <2>1. PromiseFuel' = 8 * StagesLeft' + BeforeClose' + TimerLeft' + WaitFuel'
    BY <1>3 DEF PromiseFuel, Pending
  <2>2. \A s, r \in 0 .. 2, b, d \in 1 .. 7, t, u \in 0 .. 2, w, v \in Nat :
          \/ s = r /\ d <= b /\ u <= t /\ v <= w /\ (d < b \/ u < t \/ v < w)
          \/ s = r /\ b = 7 /\ d = 3 /\ v = w
          \/ s = r + 1 /\ b = 1 /\ d = 7 /\ u = 0 /\ v = w
          => 8 * r + d + u + v < 8 * s + b + t + w
    OBVIOUS
  <2>3. 8 * StagesLeft' + BeforeClose' + TimerLeft' + WaitFuel'
          < 8 * StagesLeft + BeforeClose + TimerLeft + WaitFuel
    BY <1>0, <1>3, <2>2, ZenonT(30)
  <2> QED
    BY <1>1, <2>1, <2>3, Zenon
<1>4. ASSUME PromiseFuel' < PromiseFuel PROVE PromiseBurns
  <2>1. PromiseFuel \in Int /\ PromiseFuel' \in Int
    BY <1>0 DEF PromiseFuel
  <2> QED
    BY <1>4, <2>1 DEF PromiseBurns
<1>5. ASSUME UNCHANGED <<kids, pc, current, polls>> PROVE WaitFuel' = WaitFuel
  BY <1>5 DEF WaitFuel, BeforeNext, SimCost
<1>6. ASSUME UNCHANGED <<call, backtest>> PROVE StagesLeft' = StagesLeft
  BY <1>6 DEF StagesLeft
<1>7. ASSUME Terminated, proc # "exited"
      PROVE  /\ UNCHANGED <<kids, pc, current, polls>>
             /\ proc' = proc \/ (proc \in {"start", "work"} /\ proc' = "exited")
  BY <1>7 DEF Terminated, Dies, Exits, Cancel, Working, vars
<1>8. ASSUME ProcStep PROVE PromiseFuel' < PromiseFuel
  <2>1. UNCHANGED <<call, backtest, timer, promise>>
    BY <1>8 DEF ProcStep, ParseArgs, CallMethod, WaitStep, WaitEnds, FileReport, CorrLocal, node
  <2>2. StagesLeft' = StagesLeft /\ TimerLeft' = TimerLeft /\ promise' = Pending
    BY <1>0, <1>6, <2>1 DEF TimerLeft
  <2>3. CASE WaitStep
    <3>1. WaitFuel' < WaitFuel
      BY <2>3, WaitStepBurns DEF WaitStep, IInv, WaitInv
    <3>2. BeforeClose' = BeforeClose
      BY <2>3 DEF WaitStep, BeforeClose
    <3> QED
      BY <1>0, <1>3, <2>2, <3>1, <3>2
  <2>4. CASE ParseArgs \/ CallMethod \/ WaitEnds \/ FileReport \/ CorrLocal
    <3>1. UNCHANGED <<kids, pc, current, polls>>
      BY <2>4 DEF ParseArgs, CallMethod, WaitEnds, FileReport, CorrLocal, vars
    <3>2. \/ proc = "start" /\ proc' \in {"work", "exited"}
          \/ proc = "work" /\ proc' = "exited"
      BY <2>4 DEF ParseArgs, CallMethod, WaitEnds, FileReport, CorrLocal, Exits, Working
    <3>3. BeforeClose' < BeforeClose
      BY <3>2 DEF BeforeClose
    <3> QED
      BY <1>0, <1>3, <1>5, <2>2, <3>1, <3>3
  <2> QED
    BY <1>8, <2>3, <2>4 DEF ProcStep
<1>9. CASE Spawn
  <2>1. /\ UNCHANGED <<kids, pc, current, polls, call, backtest, promise>>
        /\ proc = "none" /\ proc' = "start"
    BY <1>9 DEF Spawn, vars
  <2>2. BeforeClose = 7 /\ BeforeClose' = 3
    BY <2>1 DEF BeforeClose
  <2> QED
    BY <1>0, <1>3, <1>4, <1>5, <1>6, <2>1, <2>2
<1>10. CASE SpawnFails
  <2>1. promise' # Pending
    BY <1>10 DEF SpawnFails, Pending, Rejected
  <2> QED
    BY <1>2, <1>4, <2>1
<1>11. CASE TimerFires \/ GraceEnds
  <2>1. /\ UNCHANGED <<call, backtest, promise>>
        /\ \/ timer = "armed" /\ timer' = "fired"
           \/ timer = "fired" /\ timer' = "killed"
    BY <1>11 DEF TimerFires, GraceEnds, Grace
  <2>2. TimerLeft' < TimerLeft
    BY <2>1 DEF TimerLeft
  <2>3. UNCHANGED <<kids, pc, current, polls>> /\ (proc' = proc \/ proc' = "exited")
    BY <1>11 DEF TimerFires, GraceEnds, Terminated, Dies, Exits, Cancel, vars
  <2>4. BeforeClose' <= BeforeClose
    BY <2>3 DEF BeforeClose, CliInv, RunInv
  <2> QED
    BY <1>0, <1>3, <1>4, <1>5, <1>6, <2>1, <2>2, <2>3, <2>4
<1>12. CASE Close
  <2>1. proc = "exited" /\ timer' = "off" /\ backtest' = backtest
    BY <1>12 DEF Close
  <2>2. CASE promise' # Pending
    BY <1>2, <1>4, <2>2
  <2>3. CASE promise' = Pending /\ ~Settle
    <3>1. PICK cmd \in NextCommand : cmd # "none" /\ Continue(cmd) /\ backtest
      BY <1>12, <2>3 DEF Close
    <3>2. /\ UNCHANGED <<kids, pc, current, polls>>
          /\ call' = CallOf(cmd, "fit") /\ proc' = "none"
      BY <3>1 DEF Continue
    <3>3. \/ call.cmd = "simulations create" /\ cmd = "simulations wait"
          \/ call.cmd = "simulations wait" /\ cmd = "alphas get"
      <4>1. call.cmd \in {"simulations create", "simulations wait", "alphas get"}
        BY <3>1, StageNames
      <4> QED
        BY <3>1, <4>1 DEF NextCommand
    <3>4. call'.cmd = cmd
      BY <3>2 DEF CallOf
    <3>5. StagesLeft = StagesLeft' + 1
      <4>1. StagesLeft = StagesAfter(call.cmd) /\ StagesLeft' = StagesAfter(cmd)
        BY <2>1, <3>1, <3>4, ZenonT(20) DEF StagesLeft, StagesAfter
      <4>2. (StagesLeft = 2 /\ StagesLeft' = 1) \/ (StagesLeft = 1 /\ StagesLeft' = 0)
        BY <3>3, <4>1, StageValues, ZenonT(20)
      <4> QED
        BY <4>2
    <3>6. BeforeClose = 1 /\ BeforeClose' = 7 /\ TimerLeft' = 0
      BY <2>1, <3>2 DEF BeforeClose, TimerLeft
    <3> QED
      BY <1>0, <1>3, <1>4, <1>5, <2>3, <3>2, <3>5, <3>6
  <2>4. CASE Settle
    <3>1. Settlement # Pending
      BY DEF Settlement, ParseEnvelope, Fulfilled, Rejected, Pending
    <3> QED
      BY <1>2, <1>4, <2>4, <3>1 DEF Settle
  <2> QED
    BY <2>2, <2>3, <2>4
<1>13. CASE Interrupt \/ FinishSim
  <2>1. UNCHANGED <<call, backtest, timer, promise, kids, pc, current, polls>>
    BY <1>7, <1>13 DEF Interrupt, FinishSim, Finish, node
  <2>2. BeforeClose' <= BeforeClose
    BY <1>7, <1>13 DEF Interrupt, FinishSim, printed, BeforeClose, CliInv, RunInv
  <2>3. StagesLeft' = StagesLeft /\ TimerLeft' = TimerLeft /\ WaitFuel' = WaitFuel
    BY <1>5, <1>6, <2>1 DEF TimerLeft
  <2>4. PromiseFuel' <= PromiseFuel
    <3>1. PromiseFuel' = 8 * StagesLeft + BeforeClose' + TimerLeft + WaitFuel
      BY <1>0, <2>1, <2>3 DEF PromiseFuel, Pending
    <3>2. \A s \in 0 .. 2, b, d \in 1 .. 7, t \in 0 .. 2, w \in Nat :
            d <= b => 8 * s + d + t + w <= 8 * s + b + t + w
      OBVIOUS
    <3> QED
      BY <1>0, <1>1, <2>2, <3>1, <3>2, Zenon
  <2>5. ~ClientStep \/ PromiseFuel' < PromiseFuel
    <3>1. ~(TimerFires \/ GraceEnds)
      BY <2>1 DEF TimerFires, GraceEnds, Grace
    <3>2. ~SpawnFails
      BY <1>0, <2>1 DEF SpawnFails, Pending, Rejected
    <3>3. ~(Spawn \/ Close)
      <4>1. CASE FinishSim
        <5>1. proc' = proc
          BY <4>1 DEF FinishSim
        <5>2. ~Spawn
          BY <5>1 DEF Spawn
        <5>3. promise' = Pending
          BY <1>0, <2>1
        <5>4. ASSUME Close PROVE FALSE
          <6>1. ~Settle
            BY <5>3 DEF Settle, Settlement, ParseEnvelope, Fulfilled, Rejected, Pending
          <6>2. PICK cmd \in NextCommand : Continue(cmd)
            BY <5>4, <6>1 DEF Close
          <6> QED
            BY <5>1, <5>4, <6>2 DEF Continue, Close
        <5> QED
          BY <5>2, <5>4
      <4>2. CASE Interrupt
        <5>1. proc \in {"start", "work"}
          BY <4>2 DEF Interrupt
        <5> QED
          BY <5>1 DEF Spawn, Close
      <4> QED
        BY <1>13, <4>1, <4>2
    <3> QED
      BY <3>1, <3>2, <3>3 DEF ClientStep
  <2> QED
    BY <1>8, <2>4, <2>5 DEF PromiseBurns
<1> QED
  BY <1>4, <1>8, <1>9, <1>10, <1>11, <1>12, <1>13 DEF CliNext, ClientStep

(* Every call of the TypeScript client runs out of steps, for any number of *)
(* simulations and any cap: its processes, each with its polls, its timer   *)
(* and the kill after it together take a bounded number, and the measure is *)
(* spent exactly when the promise is settled.                               *)
THEOREM PromiseRunsOut == CliSpec => []PromiseBounded /\ [][PromiseBurns]_cliVars
<1>1. CliSpec => [](IInv /\ CliInv)
  BY CliInvariant
<1>2. IInv /\ CliInv => PromiseBounded
  BY PromiseFuelType
<1>3. IInv /\ CliInv /\ IInv' /\ CliInv' /\ [CliNext]_cliVars => [PromiseBurns]_cliVars
  BY PromiseStepBurns
<1> QED
  BY <1>1, <1>2, <1>3, PTL DEF CliSpec

(* What the caller was told is the end: once the promise is settled no      *)
(* process is left that could carry out a mutation, file a report or poll,  *)
(* no timer that could fire, and nothing of it changes any more.            *)
THEOREM SettledIsFinal == CliSpec => [][promise = Pending]_cliVars
<1>1. CliSpec => [](IInv /\ CliInv)
  BY CliInvariant
<1>2. CliInv /\ [CliNext]_cliVars => [promise = Pending]_cliVars
  BY SettledStops
<1> QED
  BY <1>1, <1>2, PTL DEF CliSpec

-----------------------------------------------------------------------------
(* What corr-local prints                                                   *)

(* A process that printed a payload got past its arguments.                 *)
PaidIsFit == proc = "exited" /\ exit.out = "ok" => call.args \notin RefusedEarly

(* No step makes an early refusal a payload.                                *)
LEMMA PaidStaysFit ==
  ASSUME CliInv, PaidIsFit, [CliNext]_cliVars
  PROVE  PaidIsFit'
<1> SUFFICES ASSUME proc' = "exited", exit'.out = "ok", call'.args \in RefusedEarly PROVE FALSE
  BY DEF PaidIsFit
<1>1. ASSUME UNCHANGED <<call, proc, exit>> PROVE FALSE
  BY <1>1 DEF PaidIsFit
<1>2. ASSUME proc = "work", UNCHANGED call PROVE FALSE
  BY <1>2 DEF CliInv, CallInv
<1>3. Signalled.out # "ok"
  BY DEF Signalled, Exited
<1>4. ASSUME Terminated, UNCHANGED call PROVE FALSE
  <2>1. exit' = Signalled \/ UNCHANGED <<proc, exit>>
    BY <1>4 DEF Terminated, Dies, Exits, printed
  <2> QED
    BY <1>1, <1>3, <1>4, <2>1
<1>5. CASE ProcStep
  <2>1. UNCHANGED call /\ (proc = "work" \/ ParseArgs)
    BY <1>5 DEF ProcStep, ParseArgs, CallMethod, WaitStep, WaitEnds, FileReport, CorrLocal, Working,
                node
  <2>2. CASE ParseArgs
    <3>1. exit' = Refuse(call.args)
      BY <2>1, <2>2 DEF ParseArgs, Exits
    <3>2. Refuse(call.args).out # "ok"
      BY <2>1, Refused
    <3> QED
      BY <3>1, <3>2
  <2> QED
    BY <1>2, <2>1, <2>2
<1>6. CASE ClientStep
  <2>1. CASE Spawn \/ SpawnFails
    BY <2>1 DEF Spawn, SpawnFails
  <2>2. CASE TimerFires \/ GraceEnds
    <3>1. UNCHANGED call /\ (Terminated \/ exit' = Signalled \/ UNCHANGED <<proc, exit>>)
      BY <2>2 DEF TimerFires, GraceEnds, Grace, Dies, Exits, printed
    <3> QED
      BY <1>1, <1>3, <1>4, <3>1
  <2>3. CASE Close
    <3>1. UNCHANGED <<call, proc, exit>> \/ proc' = "none"
      BY <2>3 DEF Close, Settle, Continue
    <3> QED
      BY <1>1, <3>1
  <2> QED
    BY <1>6, <2>1, <2>2, <2>3 DEF ClientStep
<1>7. CASE Interrupt \/ FinishSim
  <2>1. UNCHANGED call /\ (Terminated \/ UNCHANGED <<proc, exit>>)
    BY <1>7 DEF Interrupt, FinishSim, node, printed
  <2> QED
    BY <1>1, <1>4, <2>1
<1>8. CASE UNCHANGED cliVars
  BY <1>1, <1>8 DEF cliVars, node, printed
<1> QED
  BY <1>5, <1>6, <1>7, <1>8 DEF CliNext

(* The calls of the other commands.                                         *)
LEMMA CommandOf ==
  ASSUME NEW c \in Calls, c \notin CorrCalls
  PROVE  c.cmd \in MethodCmds \cup WaitCmds \cup {"feedback"}
<1>1. \A cmd, a : CallOf(cmd, a).cmd = cmd
  BY DEF CallOf
<1>2. CASE c \in UNION {{CallOf(cmd, a) : a \in ArgsOf(cmd)} : cmd \in MethodCmds}
  <2>1. PICK cmd \in MethodCmds : c \in {CallOf(cmd, a) : a \in ArgsOf(cmd)}
    BY <1>2
  <2>2. PICK a \in ArgsOf(cmd) : c = CallOf(cmd, a)
    BY <2>1
  <2> QED
    BY <1>1, <2>1, <2>2
<1>3. CASE c \in {CallOf(cmd, a) : cmd \in WaitCmds, a \in ArgClasses \ {"unfit"}}
  <2>1. PICK cmd \in WaitCmds, a \in ArgClasses \ {"unfit"} : c = CallOf(cmd, a)
    BY <1>3
  <2> QED
    BY <1>1, <2>1
<1>4. CASE c \in Reports
  <2>1. PICK a \in {"usage", "fit"}, t \in BOOLEAN, y \in BOOLEAN :
          c = ReportOf(a, t, y)
    BY <1>4 DEF Reports
  <2>2. c.cmd = "feedback"
    BY <2>1 DEF ReportOf, CallOf
  <2> QED
    BY <2>2
<1> QED
  BY <1>2, <1>3, <1>4 DEF Calls

(* A call of corr-local that is fit has one of the inputs.                  *)
LEMMA CorrInput ==
  ASSUME CliInv, call.cmd = "alphas corr-local", call.args \notin RefusedEarly
  PROVE  call.input \in DOMAIN CorrInputs
<1>1. call \in Calls
  BY DEF CliInv, CallInv
<1>2. \A cmd, a : CallOf(cmd, a).cmd = cmd /\ CallOf(cmd, a).args = a
  BY DEF CallOf
<1>3. call \in CorrCalls
  <2>1. "alphas corr-local" \notin MethodCmds \cup WaitCmds \cup {"feedback"}
    BY DEF MethodCmds, AlphaReadCmds, CorrelationCmds, PerformanceCmds, AuthCmds, EmailCmds,
           PasswordCmds, UserCmds, SchemaCmds, WaitCmds
  <2> QED
    BY <1>1, <2>1, CommandOf
<1>4. CASE call \in {CallOf("alphas corr-local", a) : a \in RefusedEarly}
  BY <1>2, <1>4
<1>5. CASE call \in {[CallOf("alphas corr-local", "fit") EXCEPT !.input = i] : i \in DOMAIN CorrInputs}
  BY <1>5 DEF CallOf
<1> QED
  BY <1>3, <1>4, <1>5 DEF CorrCalls

(* What corr-local prints is what the documentation promises, for every     *)
(* input: any candidate, any number of neighbours, series of any length     *)
(* with gaps and values that are not finite, and any three limits.  All it  *)
(* takes for granted is that no series has two records of one day.          *)
THEOREM CorrLocalIsRight == CliSpec => []CorrIsReference
<1>1. CliInit => PaidIsFit
  BY DEF CliInit, PaidIsFit
<1>2. CliSpec => [](IInv /\ CliInv)
  BY CliInvariant
<1>3. CliInv /\ PaidIsFit /\ [CliNext]_cliVars => PaidIsFit'
  BY PaidStaysFit
<1>4. IInv /\ CliInv /\ PaidIsFit => CorrIsReference
  <2> SUFFICES ASSUME CliInv, PaidIsFit, promise.state = "fulfilled", call.cmd = "alphas corr-local"
               PROVE  IsSelfCorr(Computed, CorrInputs[call.input])
    BY DEF CorrIsReference
  <2>1. call.input \in DOMAIN CorrInputs
    BY Promised, CorrInput DEF PaidIsFit
  <2>2. IsInput(CorrInputs[call.input])
    BY <2>1, CorrInputsAssumption
  <2> QED
    BY <2>2, LocalIsSelfCorr DEF Computed
<1> QED
  BY <1>1, <1>2, <1>3, <1>4, PTL DEF CliSpec

=============================================================================
