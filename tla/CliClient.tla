----------------------------- MODULE CliClient -----------------------------
(***************************************************************************)
(* The TypeScript client and the processes of the CLI it runs.  Every      *)
(* method spawns a process, collects what it prints, and settles a promise *)
(* when the process has closed; a timer of its own terminates the process  *)
(* and, two seconds later, kills it.  backtest spawns three one after the  *)
(* other.  The process parses its arguments, calls one method of the       *)
(* Client (Endpoints, Surfaces), waits for simulations (SimWait), files a  *)
(* report (Feedback) or computes (SelfCorr), prints and exits.             *)
(***************************************************************************)
EXTENDS SimWait, Surfaces, Feedback, SelfCorr

CONSTANT
  CorrInputs   \* bound: what corr-local is given, a sequence

ASSUME CorrInputsAssumption == \A i \in DOMAIN CorrInputs : IsInput(CorrInputs[i])

VARIABLES
  call,     \* the command and its arguments
  backtest, \* it is a step of a backtest
  timer,    \* "off", "armed", "fired", "killed"
  proc,     \* the process: "none", "start", "work", "exited"
  exit,     \* its exit code and what it printed
  promise,  \* the caller's promise
  twin,     \* what the MCP tool of the same call would have answered
  sent,     \* history: the method got past its arguments
  carried,  \* BRAIN: the mutation was carried out
  issue,    \* GitHub: the issue was made
  lost      \* history: the answer to what was carried out or made was lost

node == <<call, backtest, timer, promise>>
world == <<sent, carried, issue, lost>>
printed == <<exit, twin>>
cliVars == <<vars, node, proc, printed, world>>

WaitCmds == {"simulations wait", "simulations wait-multi"}
Mutations ==
  {"alphas set-osmosis-points", "alphas set-properties", "auth login", "auth logout",
   "simulations create", "register"} \cup EmailCmds \cup PasswordCmds

-----------------------------------------------------------------------------
(* Calls                                                                    *)

CallOf(cmd, args) ==
  [cmd |-> cmd, args |-> args, token |-> FALSE, confirm |-> FALSE, input |-> 0]

(* An empty title or body is an error of RunE, as a missing one is.         *)
ReportOf(a, t, c) == [CallOf("feedback", a) EXCEPT !.token = t, !.confirm = c]
Reports == {ReportOf(a, t, c) : a \in {"usage", "fit"}, t \in BOOLEAN, c \in BOOLEAN}

CorrCalls ==
  {CallOf("alphas corr-local", a) : a \in RefusedEarly}
    \cup {[CallOf("alphas corr-local", "fit") EXCEPT !.input = i] : i \in DOMAIN CorrInputs}

Calls ==
  (UNION {{CallOf(cmd, a) : a \in ArgsOf(cmd)} : cmd \in MethodCmds})
    \cup {CallOf(cmd, a) : cmd \in WaitCmds, a \in ArgClasses \ {"unfit"}}
    \cup Reports \cup CorrCalls

Pending == [state |-> "pending", class |-> "none", kind |-> "none", data |-> "none"]
Fulfilled(data) == [Pending EXCEPT !.state = "fulfilled", !.data = data]
Rejected(class, kind) == [Pending EXCEPT !.state = "rejected", !.class = class, !.kind = kind]

NotExited == Exited(0, "nothing", "none")
NoAnswer == Answer("none", "none")

(* A process that dies of a signal has no code: null ?? -1.                 *)
Signalled == Exited(99, "nothing", "none")

CliInit ==
  /\ Init
  /\ backtest \in BOOLEAN
  /\ call \in IF backtest THEN {CallOf("simulations create", "fit")} ELSE Calls
  /\ call # CallOf("simulations wait-multi", "fit") => kids = 0
  /\ timer = "off"
  /\ proc = "none"
  /\ exit = NotExited
  /\ promise = Pending
  /\ twin = NoAnswer
  /\ sent = FALSE
  /\ carried = FALSE
  /\ issue = FALSE
  /\ lost = FALSE

-----------------------------------------------------------------------------
(* The process                                                              *)

Exits(e) ==
  /\ proc' = "exited"
  /\ exit' = e

(* cobra, the checks of the command, newClient; then the handler has a      *)
(* context of its own.                                                      *)
ParseArgs ==
  /\ proc = "start"
  /\ IF call.args \in RefusedEarly
     THEN Exits(Refuse(call.args))
     ELSE proc' = "work" /\ UNCHANGED exit
  /\ UNCHANGED <<vars, node, twin, world>>

Working(cmds) == proc = "work" /\ call.cmd \in cmds

(* BRAIN carried the mutation out, when it says so; or unheard, in an       *)
(* attempt before the last or one that was cut off.                         *)
CarriedUnheard ==
  \E made \in IF call.cmd \in Mutations THEN BOOLEAN ELSE {FALSE} :
    /\ carried' = (carried \/ made)
    /\ lost' = (lost \/ made)

Hear(o, detail) ==
  IF call.cmd \in Mutations /\ o.status = "2xx"
  THEN /\ carried' = (carried \/ ~(call.cmd = "auth login" /\ detail /\ o.body = "own"))
       /\ lost' = (lost \/ o.body # "own")
  ELSE CarriedUnheard

(* What do can end with, for this command and this context.                 *)
Heard ==
  {o \in Outcomes \cup {Failed(chain) : chain \in IF cancelled THEN CtxFailures ELSE {}} :
     "long_poll_exceeded" \in o.err =>
       call.cmd \in {"alphas check", "alphas pnl"} \cup PerformanceCmds \cup CorrelationCmds}

Details == IF call.cmd \in {"auth login", "users activities --decode"} THEN BOOLEAN ELSE {FALSE}

(* The MCP tool is given the same arguments and the same outcome.           *)
Twin(o, detail) ==
  IF call.cmd \in Tools(TRUE)
  THEN Tool(call.cmd, Given(call.args), detail, o)
  ELSE NoAnswer

CallMethod ==
  /\ Working(MethodCmds)
  /\ \E o \in Heard, detail \in Details :
       /\ Exits(Command(call.cmd, call.args, detail, o))
       /\ twin' = Twin(o, detail)
       /\ IF Given(call.args)
          THEN sent' = TRUE /\ Hear(o, detail)
          ELSE UNCHANGED <<sent, carried, lost>>
  /\ UNCHANGED <<vars, node, issue>>

WaitStep ==
  /\ Working(WaitCmds)
  /\ Given(call.args)
  /\ Step
  /\ sent' = TRUE
  /\ UNCHANGED <<node, proc, printed, carried, issue, lost>>

(* An unresolved parent is an error, unresolved children are not.           *)
WaitEnds ==
  /\ Working(WaitCmds)
  /\ \/ ~Given(call.args) /\ Exits(WriteErr({"invalid_argument"}))
     \/ /\ pc = "returned"
        /\ IF parent
           THEN Exits(WriteOK(IF firstErr = "nil" THEN "own" ELSE "incomplete"))
           ELSE \E chain \in CASE firstErr = "ctx" -> CtxFailures
                               [] firstErr = "poll" -> Failures
                               [] firstErr = "long_poll_exceeded" -> {{"long_poll_exceeded"}} :
                  Exits(WriteErr(chain))
  /\ UNCHANGED <<vars, node, twin, world>>

(* RunE of feedback.                                                        *)
FileReport ==
  /\ Working({"feedback"})
  /\ \E g \in GitHub, body \in {"short", "long"} :
       /\ Exits(WriteOK(File(TRUE, body, call.token, call.confirm, g)))
       /\ issue' = (MayPost(call.token, call.confirm) /\ g.made)
       /\ lost' = (issue' /\ g.answer # "created")
  /\ UNCHANGED <<vars, node, twin, sent, carried>>

(* No client, no context.  What it prints is Computed.                      *)
CorrLocal ==
  /\ Working({"alphas corr-local"})
  /\ Exits(WriteOK("own"))
  /\ UNCHANGED <<vars, node, twin, world>>

Computed == SelfCorrLocal(CorrInputs[call.input])

ProcStep == ParseArgs \/ CallMethod \/ WaitStep \/ WaitEnds \/ FileReport \/ CorrLocal

(* The process dies, in the middle of a request perhaps.                    *)
Dies ==
  /\ Exits(Signalled)
  /\ IF Working(Mutations)
     THEN CarriedUnheard /\ UNCHANGED issue
     ELSE IF Working({"feedback"})
     THEN /\ issue' \in {FALSE, MayPost(call.token, call.confirm)}
          /\ lost' = issue'
          /\ UNCHANGED carried
     ELSE UNCHANGED <<carried, issue, lost>>
  /\ UNCHANGED <<vars, twin, sent>>

(* SIGINT or SIGTERM: deadly by default, and a cancellation once the        *)
(* handler has its context.                                                 *)
Terminated ==
  \/ proc = "start" /\ Dies
  \/ Working({"alphas corr-local"}) /\ Dies
  \/ /\ proc = "work"
     /\ call.cmd # "alphas corr-local"
     /\ IF cancelled THEN UNCHANGED vars ELSE Cancel
     /\ UNCHANGED <<proc, printed, world>>
  \/ /\ proc = "exited"
     /\ UNCHANGED <<vars, proc, printed, world>>

-----------------------------------------------------------------------------
(* The client                                                               *)

(* spawnCapture, with or without a timeout.                                 *)
Spawn ==
  /\ proc = "none"
  /\ promise = Pending
  /\ proc' = "start"
  /\ timer' \in {"off", "armed"}
  /\ UNCHANGED <<vars, call, backtest, promise, printed, world>>

(* The error event: the binary is missing, say.                             *)
SpawnFails ==
  /\ proc = "none"
  /\ promise = Pending
  /\ promise' = Rejected("TransportError", "none")
  /\ UNCHANGED <<vars, call, backtest, timer, proc, printed, world>>

TimerFires ==
  /\ timer = "armed"
  /\ timer' = "fired"
  /\ Terminated
  /\ UNCHANGED <<call, backtest, promise>>

Grace_Never == FALSE

Grace == timer = "fired" /\ proc \in {"start", "work"}

(* SIGKILL, two seconds later.                                              *)
GraceEnds ==
  /\ Grace
  /\ timer' = "killed"
  /\ Dies
  /\ UNCHANGED <<call, backtest, promise>>

(* errorForExitCode.                                                        *)
ErrorForExitCode(code) ==
  CASE code = 2 -> "UsageError"
    [] code = 3 -> "RateLimitError"
    [] code = 4 -> "BannedError"
    [] code = 5 -> "DRFValidationError"
    [] code = 6 -> "APIError"
    [] code = 7 -> "BudgetExhaustedError"
    [] code = 8 -> "NetworkError"
    [] code = 10 -> "PersonaInquiryError"
    [] OTHER -> "BrainapiError"

(* parseEnvelope: an empty stdout has no kind of its own.                   *)
ParseEnvelope(e) ==
  IF e.out = "ok" THEN Fulfilled(e.data)
  ELSE Rejected(ErrorForExitCode(e.code), IF e.out = "nothing" THEN "no_output" ELSE e.out)

(* The settlement of one process: a timer that fired decides it, also when  *)
(* the process had succeeded by then.                                       *)
Settlement ==
  IF timer \in {"fired", "killed"} THEN Rejected("TransportError", "none")
  ELSE ParseEnvelope(exit)

(* What a backtest runs next.  A simulation that ended has an alpha or not. *)
NextCommand ==
  CASE call.cmd = "simulations create" -> {"simulations wait"}
    [] call.cmd = "simulations wait" -> {"alphas get", "none"}
    [] call.cmd = "alphas get" -> {"none"}

Continue(cmd) ==
  /\ call' = CallOf(cmd, "fit")
  /\ proc' = "none"
  /\ exit' = NotExited
  /\ twin' = NoAnswer
  /\ cancelled' = FALSE
  /\ UNCHANGED <<kids, finished, pc, current, polls, err, children, firstErr, parent, tried,
                 promise>>

Settle ==
  /\ promise' = Settlement
  /\ UNCHANGED <<vars, call, proc, exit, twin>>

(* The close event.                                                         *)
Close ==
  /\ proc = "exited"
  /\ promise = Pending
  /\ timer' = "off"
  /\ IF backtest /\ Settlement.state = "fulfilled"
     THEN \E cmd \in NextCommand : IF cmd = "none" THEN Settle ELSE Continue(cmd)
     ELSE Settle
  /\ UNCHANGED <<backtest, world>>

-----------------------------------------------------------------------------

(* A signal from elsewhere.                                                 *)
Interrupt ==
  /\ proc \in {"start", "work"}
  /\ ~cancelled
  /\ Terminated
  /\ UNCHANGED node

(* BRAIN ends a simulation that exists.                                     *)
FinishSim ==
  /\ call.cmd \in WaitCmds \/ (backtest /\ carried)
  /\ promise = Pending
  /\ \E s \in 0 .. kids : Finish(s)
  /\ UNCHANGED <<node, proc, printed, world>>

ClientStep == Spawn \/ SpawnFails \/ TimerFires \/ GraceEnds \/ Close

CliNext == ProcStep \/ ClientStep \/ Interrupt \/ FinishSim

CliSpec == CliInit /\ [][CliNext]_cliVars

(* A process that no timer watches gets on with it; one that a timer        *)
(* watches may hang for good.                                               *)
FairCliSpec ==
  /\ CliSpec
  /\ WF_cliVars(timer = "off" /\ ProcStep)
  /\ WF_cliVars(Spawn \/ SpawnFails)
  /\ WF_cliVars(TimerFires)
  /\ WF_cliVars(GraceEnds)
  /\ WF_cliVars(Close)

-----------------------------------------------------------------------------
(* Properties                                                               *)

Kinds == ToSet(KindOrder) \cup {"error"}
Payloads == {"own", "zero", "done", "verdict", "incomplete", "filed", "draft", "draft_cut"}

CliTypeOK ==
  /\ TypeOK
  /\ call \in Calls
  /\ backtest \in BOOLEAN
  /\ timer \in {"off", "armed", "fired", "killed"}
  /\ proc \in {"none", "start", "work", "exited"}
  /\ exit.out \in {"nothing", "ok"} \cup Kinds
  /\ exit.data \in Payloads \cup {"none"}
  /\ promise.state \in {"pending", "fulfilled", "rejected"}
  /\ {sent, carried, issue, lost} \subseteq BOOLEAN

TimedOut == promise.class = "TransportError"

(* A promise that is fulfilled says the truth.  A mutation was carried out, *)
(* but for the methods that take any response for one: logout, and the two  *)
(* that set something on an alpha, to which the edge's JSON is an alpha     *)
(* without fields.  Children of a multi-simulation are missing exactly when *)
(* the payload says so.  The simulation of a backtest has ended.            *)
FulfilledIsTrue ==
  promise.state = "fulfilled" =>
    /\ call.cmd \in Mutations /\ ~carried =>
         \/ call.cmd = "auth logout"
         \/ /\ call.cmd \in {"alphas set-osmosis-points", "alphas set-properties"}
            /\ promise.data = "zero"
    /\ call.cmd = "simulations wait-multi" =>
         (promise.data = "incomplete" <=> children # Children)
    /\ backtest => carried /\ 0 \in finished

(* A rejection says the truth too.  A UsageError: nothing was sent.  Its    *)
(* class is the one the exit-code table promises for its kind.  And what it *)
(* hides, a mutation carried out or a parent resolved with its children,    *)
(* was hidden by a lost answer or a timeout.                                *)
RejectionIsTrue ==
  promise.state = "rejected" =>
    /\ promise.class = "UsageError" /\ ~backtest => ~sent /\ ~issue
    /\ promise.kind \in Kinds =>
         \E row \in StaticExitCodes :
           /\ promise.kind \in row.kinds
           /\ promise.class = ErrorForExitCode(row.code)
    /\ carried /\ ~backtest => (lost \/ TimedOut)
    /\ parent /\ ~backtest => TimedOut \/ exit = Signalled

(* "both consumption modes classify identically": the tool of the MCP       *)
(* server gives the kind, or the payload, that the command prints.  Details *)
(* that do not encode cost either its kind, and the pool variant of         *)
(* performance has no tool that works.                                      *)
SurfacesAgree ==
  /\ proc = "exited"
  /\ twin.kind \notin {"none", "unstructured"}
  /\ call.cmd # "alphas performance"
  => twin = Answer(exit.out, exit.data)

(* An issue is made only with a token and a confirmation; a report that     *)
(* comes back as filed is one, and one that comes back as a draft, to be    *)
(* filed by hand, is no issue yet, unless GitHub's answer was lost.         *)
ReportIsFiledOnce ==
  /\ issue => call.token /\ call.confirm
  /\ promise.state = "fulfilled" /\ call.cmd = "feedback" =>
       IF promise.data = "filed" THEN issue ELSE issue => lost

(* What corr-local prints is the correlation its input has, by definition.  *)
CorrIsReference ==
  promise.state = "fulfilled" /\ call.cmd = "alphas corr-local" =>
    IsSelfCorr(Computed, CorrInputs[call.input])

(* The promise settles: a process that hangs is killed if it has a timer,   *)
(* and a wait without one ends by its own bound.                            *)
PromiseSettles == <>(promise # Pending)

=============================================================================
