------------------------------ MODULE Surfaces ------------------------------
(***************************************************************************)
(* The two surfaces over the Client: the commands of the CLI, each a run   *)
(* of a process that ends with an exit code and an envelope on its stdout, *)
(* and the tools of the MCP server.  A command is named by its words, a    *)
(* tool by the command it corresponds to.                                  *)
(*                                                                         *)
(* args is what the arguments are to the command: "usage", refused by      *)
(* cobra or by an error of RunE; "unfit", refused by the command itself;   *)
(* "unreadable", where the file of --json or the URL in --base-url makes   *)
(* the os or url package fail; "empty", a required one is the empty        *)
(* string; or "fit".  o is the outcome of the method's Client.do.          *)
(***************************************************************************)
EXTENDS Endpoints, Naturals

ArgClasses == {"usage", "unfit", "unreadable", "empty", "fit"}

(* What the command returns before it calls the Client.                     *)
RefusedEarly == {"usage", "unfit", "unreadable"}

Given(args) == args # "empty"

-----------------------------------------------------------------------------
(* How a process ends: out is "nothing", "ok", or the kind of the error.    *)

Exited(code, out, data) == [code |-> code, out |-> out, data |-> data]

(* The exit constants.                                                      *)
ExitOK == 0
ExitUsage == 2
ExitAPI == 6
ExitNetwork == 8

(* staticErrorKinds and staticExitCodes, which describe publishes.          *)
StaticErrorKinds ==
  [api |-> 6, rate_limit |-> 3, banned |-> 4, permission_denied |-> 6,
   not_verified |-> 4, drf_validation |-> 5, persona_inquiry |-> 10, budget |-> 7,
   not_authenticated |-> 6, cooldown |-> 3, long_poll_exceeded |-> 6, context |-> 8,
   network |-> 8, invalid_argument |-> 2, error |-> 6, no_output |-> 2]

StaticExitCodes ==
  {[code |-> 2, kinds |-> {"no_output", "invalid_argument"}],
   [code |-> 3, kinds |-> {"rate_limit", "cooldown"}],
   [code |-> 4, kinds |-> {"banned", "not_verified"}],
   [code |-> 5, kinds |-> {"drf_validation"}],
   [code |-> 6, kinds |-> {"api", "error", "not_authenticated", "permission_denied",
                           "long_poll_exceeded"}],
   [code |-> 7, kinds |-> {"budget"}],
   [code |-> 8, kinds |-> {"context", "network"}],
   [code |-> 10, kinds |-> {"persona_inquiry"}]}

ExitCodeForKind_Default(kind) ==
  IF kind \in DOMAIN StaticErrorKinds \ {"context"} THEN StaticErrorKinds[kind] ELSE ExitAPI

ExitCodeForKind(kind) ==
  IF kind \in DOMAIN StaticErrorKinds THEN StaticErrorKinds[kind] ELSE ExitAPI

(* What cannot be encoded is not printed at all; the exit code is right.    *)
WriteErr(chain) ==
  Exited(ExitCodeForKind(Classify(chain)),
         IF "broken" \in chain THEN "nothing" ELSE Classify(chain), "none")

WriteOK(data) ==
  IF data = "unprintable" THEN Exited(ExitNetwork, "nothing", "none")
  ELSE Exited(ExitOK, "ok", data)

(* Cobra's error goes to stderr alone.                                      *)
Usage == Exited(ExitUsage, "nothing", "none")

(* A syscall.Errno and a *url.Error are net.Errors to Classify.             *)
Refuse(args) ==
  CASE args = "usage" -> Usage
    [] args = "unfit" -> WriteErr({})
    [] args = "unreadable" -> WriteErr({"network"})

(* runE, and the commands that repeat its steps.                            *)
RunE(args, result) ==
  IF args \in RefusedEarly THEN Refuse(args)
  ELSE IF Good(result) THEN WriteOK(result.data)
  ELSE WriteErr(result.err)

-----------------------------------------------------------------------------
(* The commands                                                             *)

SetOsmosisPoints(args, o) == RunE(args, SetAlphaOsmosisPoints(Given(args), TRUE, o))

(* SubmitAlpha reads a verdict into any response (SubmitAlpha, SubmitTool). *)
Verdict(given, o) == Call(given, o, Ok("verdict"))

AlphaReads(cmd, args, o) ==
  RunE(args, CASE cmd = "alphas get" -> GetAlpha(Given(args), o)
               [] cmd = "alphas check" -> CheckAlpha(Given(args), o)
               [] cmd = "alphas submit" -> Verdict(Given(args), o))

SetProperties(args, o) == RunE(args, SetAlphaProperties(Given(args), o))

Correlations(cmd, args, o) ==
  RunE(args, CASE cmd = "alphas corr" -> Correlation(Given(args), o)
               [] cmd = "alphas recordset" -> RecordSet(Given(args), o)
               [] cmd = "alphas recordsets" -> AlphaRecordSets(Given(args), o))

AlphaPnL(args, o) == RunE(args, RecordSet(Given(args), o))

(* For a competition, or for the pool.                                      *)
Performance(cmd, args, o) ==
  RunE(args, IF cmd = "alphas performance --competition"
             THEN BeforeAndAfterPerformance(Given(args), o)
             ELSE SelfBeforeAndAfterPerformance(Given(args), o))

(* With --all the drain ends with its last page or with its error; it puts  *)
(* an envelope of its own around the items (Paginate).                      *)
AlphaList(args, o) == RunE(args, ListAlphas(o))
MessagesList(args, o) == RunE(args, Messages(o))

Auth(cmd, args, inquiry, o) ==
  RunE(args, CASE cmd = "auth login" -> Login(Given(args), inquiry, o)
               [] cmd = "auth probe" -> Probe(o)
               [] cmd = "auth logout" -> Logout(o))

Email(cmd, args, o) ==
  RunE(args, IF cmd = "email verify" THEN VerifyEmail(Given(args), o)
             ELSE ReverifyEmail(Given(args), o))

Password(cmd, args, o) ==
  RunE(args, IF cmd = "password reset" THEN ResetPassword(Given(args), o)
             ELSE ForgotPassword(Given(args), o))

(* --decode: rowsFit, the rows of the stream are arrays.                    *)
Users(cmd, args, rowsFit, o) ==
  RunE(args, CASE cmd = "users self" -> Self(o)
               [] cmd = "users competitions" -> Competitions(o)
               [] cmd = "users activities" -> Activities(Given(args), o)
               [] cmd = "users activities --decode" ->
                    DecodeActivities(Activities(Given(args), o), rowsFit)
               [] cmd = "users diversity" -> Diversity(Given(args), o))

Schema(cmd, args, o) ==
  RunE(args, CASE cmd = "schema operators" -> Operators(o)
               [] cmd = "schema simulation-options" -> SimulationOptions(o)
               [] cmd = "schema data-categories" -> DataCategories(o)
               [] cmd = "schema themes" -> Themes(o)
               [] cmd = "schema datasets" -> Datasets(Given(args), o)
               [] cmd = "schema data-fields" -> DataFields(Given(args), o))

(* create and create-multi.                                                 *)
SimCreate(args, o) == RunE(args, CreateSimulation(Given(args), o))

SimGet(args, o) == RunE(args, GetSimulation(Given(args), o))

(* Register looks at the status alone (Register).                           *)
RegisterUser(args, o) == RunE(args, Call(Given(args), o, CheckStatus(o)))

-----------------------------------------------------------------------------
(* The commands by name                                                     *)

AlphaReadCmds == {"alphas get", "alphas check", "alphas submit"}
CorrelationCmds == {"alphas corr", "alphas recordset", "alphas recordsets"}
PerformanceCmds == {"alphas performance", "alphas performance --competition"}
AuthCmds == {"auth login", "auth probe", "auth logout"}
EmailCmds == {"email verify", "email reverify"}
PasswordCmds == {"password forgot", "password reset"}
UserCmds == {"users self", "users competitions", "users activities",
             "users activities --decode", "users diversity"}
SchemaCmds == {"schema operators", "schema simulation-options", "schema data-categories",
               "schema themes", "schema datasets", "schema data-fields"}

(* The commands that are one method of the Client.                          *)
MethodCmds ==
  AlphaReadCmds \cup CorrelationCmds \cup PerformanceCmds \cup AuthCmds \cup EmailCmds
    \cup PasswordCmds \cup UserCmds \cup SchemaCmds
    \cup {"alphas set-osmosis-points", "alphas set-properties", "alphas pnl", "alphas list",
          "messages list", "simulations create", "simulations get", "register"}

(* detail: an inquiry in a session, or rows of a stream that are no arrays. *)
Command(cmd, args, detail, o) ==
  CASE cmd = "alphas set-osmosis-points" -> SetOsmosisPoints(args, o)
    [] cmd \in AlphaReadCmds -> AlphaReads(cmd, args, o)
    [] cmd = "alphas set-properties" -> SetProperties(args, o)
    [] cmd \in CorrelationCmds -> Correlations(cmd, args, o)
    [] cmd = "alphas pnl" -> AlphaPnL(args, o)
    [] cmd \in PerformanceCmds -> Performance(cmd, args, o)
    [] cmd = "alphas list" -> AlphaList(args, o)
    [] cmd = "messages list" -> MessagesList(args, o)
    [] cmd \in AuthCmds -> Auth(cmd, args, detail, o)
    [] cmd \in EmailCmds -> Email(cmd, args, o)
    [] cmd \in PasswordCmds -> Password(cmd, args, o)
    [] cmd \in UserCmds -> Users(cmd, args, ~detail, o)
    [] cmd \in SchemaCmds -> Schema(cmd, args, o)
    [] cmd = "simulations create" -> SimCreate(args, o)
    [] cmd = "simulations get" -> SimGet(args, o)
    [] cmd = "register" -> RegisterUser(args, o)

(* The arguments a command can be given.                                    *)
(* An empty kind or grouping is refused before the method sees it.          *)
ChecksItsOwn == {"users activities", "users activities --decode", "users diversity"}
TakesBody == {"simulations create", "register"}
Validating == TakesBody \cup ChecksItsOwn \cup {"alphas performance --competition"}
TakesNothing ==
  {"auth probe", "auth logout", "users self", "users competitions", "alphas list",
   "messages list", "schema operators", "schema simulation-options",
   "schema data-categories", "schema themes"}

ArgsOf(cmd) ==
  {"usage", "unreadable", "fit"}
    \cup (IF cmd \in Validating THEN {"unfit"} ELSE {})
    \cup (IF cmd \in TakesNothing \cup ChecksItsOwn THEN {} ELSE {"empty"})

-----------------------------------------------------------------------------
(* The tools: isError with the kind, or a payload                           *)

Answer(kind, data) == [kind |-> kind, data |-> data]

(* structuredErr and classifyErr: details that do not encode take the kind  *)
(* with them, and the agent gets the bare message.                          *)
ClassifyErr(chain) ==
  Answer(IF "broken" \in chain THEN "unstructured" ELSE Classify(chain), "none")

(* addTool.                                                                 *)
AddTool(result) ==
  IF Good(result) THEN Answer("ok", result.data) ELSE ClassifyErr(result.err)

OkWrap_Always(result) == Ok("done")

(* okWrap: a payload for methods that return an error alone.                *)
OkWrap(result) == IF Good(result) THEN Ok("done") ELSE result

ReadTool(cmd, given, o) ==
  CASE cmd = "auth probe" -> Probe(o)
    [] cmd = "users self" -> Self(o)
    [] cmd = "users competitions" -> Competitions(o)
    [] cmd = "schema operators" -> Operators(o)
    [] cmd = "alphas get" -> GetAlpha(given, o)
    [] cmd = "alphas check" -> CheckAlpha(given, o)
    [] cmd = "alphas corr" -> Correlation(given, o)
    [] cmd = "alphas pnl" -> RecordSet(given, o)
    [] cmd = "alphas performance --competition" -> BeforeAndAfterPerformance(given, o)
    [] cmd = "alphas performance" -> BeforeAndAfterPerformance(FALSE, o)
    [] cmd = "users activities" -> Activities(given, o)
    [] cmd = "alphas list" -> ListAlphas(o)
    [] cmd = "messages list" -> Messages(o)
    [] cmd = "schema data-fields" -> DataFields(given, o)
    [] cmd = "simulations get" -> GetSimulation(given, o)

WriteTool(cmd, given, inquiry, o) ==
  CASE cmd = "simulations create" -> CreateSimulation(given, o)
    [] cmd = "register" -> Call(given, o, CheckStatus(o))
    [] cmd = "auth login" -> Login(given, inquiry, o)
    [] cmd = "auth logout" -> OkWrap(Logout(o))
    [] cmd = "email verify" -> OkWrap(VerifyEmail(given, o))
    [] cmd = "email reverify" -> OkWrap(ReverifyEmail(given, o))
    [] cmd = "password forgot" -> OkWrap(ForgotPassword(given, o))
    [] cmd = "password reset" -> OkWrap(ResetPassword(given, o))

ReadTools ==
  {"auth probe", "users self", "users competitions", "schema operators", "alphas get",
   "alphas check", "alphas corr", "alphas pnl", "alphas performance --competition",
   "alphas performance", "users activities", "alphas list", "messages list",
   "schema data-fields", "simulations get"}
WriteTools ==
  {"simulations create", "register", "auth login", "auth logout"} \cup EmailCmds \cup PasswordCmds

(* newServer: the tools that change something exist with --enable-writes.   *)
Tools(enableWrites) == ReadTools \cup (IF enableWrites THEN WriteTools ELSE {})

Tool(cmd, given, inquiry, o) ==
  AddTool(IF cmd \in ReadTools THEN ReadTool(cmd, given, o)
          ELSE WriteTool(cmd, given, inquiry, o))

=============================================================================
