--------------------------- MODULE RequestPromise ---------------------------
(***************************************************************************)
(* What Client.do promises the endpoint method that called it, without the *)
(* way it does it: no budgets, streaks, credentials or nested Login, only  *)
(* requests, the ban and the end of the call.                              *)
(***************************************************************************)
EXTENDS Integers

CONSTANTS
  Calls,   \* the calls of one client
  Budget   \* the requests a call may send

VARIABLES
  phase,     \* "idle", "asked", "admitted" or "over"
  requests,  \* how many requests the call has sent
  stopped,   \* the caller has given up on the call
  banned,    \* the client refuses new calls
  result     \* what the call returned

vars == <<phase, requests, stopped, banned, result>>

Init ==
  /\ phase = [c \in Calls |-> "idle"]
  /\ requests = [c \in Calls |-> 0]
  /\ stopped = [c \in Calls |-> FALSE]
  /\ banned = FALSE
  /\ result = [c \in Calls |-> "none"]

Enter(c, p) == phase' = [phase EXCEPT ![c] = p]

Ask(c) ==
  /\ phase[c] = "idle"
  /\ Enter(c, "asked")
  /\ UNCHANGED <<requests, stopped, banned, result>>

(* A call is let in only while there is no ban.                             *)
Admit(c) ==
  /\ phase[c] = "asked"
  /\ ~banned
  /\ Enter(c, "admitted")
  /\ UNCHANGED <<requests, stopped, banned, result>>

(* A ban ends a call that was not let in, with nothing sent.                *)
TurnAway(c) ==
  /\ phase[c] = "asked"
  /\ banned
  /\ Enter(c, "over")
  /\ result' = [result EXCEPT ![c] = "banned"]
  /\ UNCHANGED <<requests, stopped, banned>>

(* Requests leave only calls that are in, wanted and within their budget.   *)
Request(c) ==
  /\ phase[c] = "admitted"
  /\ ~stopped[c]
  /\ requests[c] < Budget
  /\ requests' = [requests EXCEPT ![c] = @ + 1]
  /\ UNCHANGED <<phase, stopped, banned, result>>

(* Only what a call was answered bans the client, and nothing lifts it.     *)
Ban ==
  /\ \E c \in Calls : phase[c] = "admitted" /\ requests[c] > 0
  /\ banned' = TRUE
  /\ UNCHANGED <<phase, requests, stopped, result>>

(* "banned" is reported once the next call is sure to be refused; "stopped" *)
(* only to a caller that gave up; anything else after a request was sent.   *)
Return(c) ==
  /\ phase[c] = "admitted"
  /\ Enter(c, "over")
  /\ \E r \in {"response", "error", "banned", "stopped"} :
       /\ result' = [result EXCEPT ![c] = r]
       /\ r = "banned" => banned
       /\ IF r = "stopped" THEN stopped[c] ELSE requests[c] > 0
  /\ UNCHANGED <<requests, stopped, banned>>

Stop(c) ==
  /\ phase[c] # "over"
  /\ stopped' = [stopped EXCEPT ![c] = TRUE]
  /\ UNCHANGED <<phase, requests, banned, result>>

Next ==
  \/ \E c \in Calls : Ask(c) \/ Admit(c) \/ TurnAway(c) \/ Request(c) \/ Return(c) \/ Stop(c)
  \/ Ban

Spec == Init /\ [][Next]_vars

=============================================================================
