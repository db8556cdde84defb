----------------------------- MODULE Endpoints -----------------------------
(***************************************************************************)
(* The methods of the Client that are one Client.do and a decoding of its  *)
(* response, and the classification of their errors.                       *)
(*                                                                         *)
(* An outcome o of do is an error, as the set of the types and sentinels   *)
(* errors.As and errors.Is find in its chain, or a response: a 2xx, or a   *)
(* 403 of the edge whose retries were spent (RequestLoop: Forbidden).  Of  *)
(* its body it matters whether it is what the endpoint sends ("own"), JSON *)
(* of another kind ("other", an object), text that is no JSON ("garbage"), *)
(* text that only begins like JSON ("broken"), or empty ("none").          *)
(* given: the arguments the method requires are not empty.                 *)
(***************************************************************************)
EXTENDS Sequences, SequencesExt

NoError == {"nil"}

Bodies == {"own", "other", "garbage", "broken", "none"}
Responses ==
  {o \in [err : {NoError}, status : {"2xx", "403"}, body : Bodies] :
     o.status = "403" => o.body # "own"}

(* What a method returns.                                                   *)
Ok(d) == [err |-> NoError, data |-> d]
Err(chain) == [err |-> chain, data |-> "none"]
Good(result) == result.err = NoError

-----------------------------------------------------------------------------
(* Classification                                                           *)

(* The cases of Classify, in their order.                                   *)
KindOrder ==
  <<"api", "rate_limit", "banned", "permission_denied", "drf_validation",
    "not_verified", "persona_inquiry", "budget", "not_authenticated",
    "cooldown", "long_poll_exceeded", "context", "invalid_argument", "network">>

Classify(chain) ==
  LET i == SelectInSeq(KindOrder, LAMBDA k : k \in chain)
  IN IF i = 0 THEN "error" ELSE KindOrder[i]

(* What do fails with: one typed error or sentinel each, or none; but for a *)
(* request cut off by its context, which is a network error as well.        *)
(* "broken": its details hold a body that begins like JSON and is none.     *)
Failures ==
  {{k} : k \in {"api", "rate_limit", "banned", "permission_denied", "drf_validation",
                "not_verified", "not_authenticated", "long_poll_exceeded", "network"}}
    \cup {{"api", "401"}, {"api", "broken"}, {"rate_limit", "broken"}, {"not_verified", "broken"}, {}}
CtxFailures == {{"context"}, {"context", "network"}}

Failed(chain) == [err |-> chain, status |-> "none", body |-> "none"]
Outcomes == Responses \cup {Failed(chain) : chain \in Failures}

-----------------------------------------------------------------------------
(* Helpers                                                                  *)

(* requireNonEmpty, which comes before any request, and the error of do.    *)
Call(given, o, parsed) ==
  IF ~given THEN Err({"invalid_argument"})
  ELSE IF o.err # NoError THEN Err(o.err)
  ELSE parsed

(* json.Unmarshal into a struct takes any object: what is not there is zero.*)
DecodeBody(o) ==
  CASE o.body = "own" -> Ok("own")
    [] o.body = "other" -> Ok("zero")
    [] OTHER -> Err({})

CheckStatus_Ignored(o) == Ok("done")

(* An *APIError for what is not a 2xx.                                      *)
CheckStatus(o) ==
  IF o.status = "2xx" THEN Ok("done") ELSE Err({"api"} \cup ({o.body} \cap {"broken"}))

(* The polls end with an empty body.                                        *)
LongPolled(o) == IF o.body = "none" THEN Err({"long_poll_exceeded"}) ELSE DecodeBody(o)

(* A bare array does not decode from an object.                             *)
DecodeArray(o) == IF o.body = "own" THEN Ok("own") ELSE Err({})

-----------------------------------------------------------------------------
(* alphas.go                                                                *)

GetAlpha(given, o) == Call(given, o, DecodeBody(o))

(* A body without an is block gives an empty one, in which nothing fails.   *)
CheckAlpha(given, o) == Call(given, o, LongPolled(o))

(* AlphaPnL and AlphaRecordSet.                                             *)
RecordSet(given, o) == Call(given, o, LongPolled(o))

(* The body is passed through unread; what is no JSON cannot be printed.    *)
AlphaRecordSets(given, o) ==
  Call(given, o, CASE o.body = "own" -> Ok("own")
                   [] o.body = "other" -> Ok("zero")
                   [] OTHER -> Ok("unprintable"))

(* AlphaSelfCorrelation, AlphaProdCorrelation, AlphaPowerPoolCorrelation.   *)
Correlation(given, o) == Call(given, o, LongPolled(o))

SetAlphaProperties(given, o) == Call(given, o, DecodeBody(o))

(* Points out of range are a plain error.                                   *)
SetAlphaOsmosisPoints(given, inRange, o) ==
  IF given /\ ~inRange THEN Err({}) ELSE Call(given, o, DecodeBody(o))

ListAlphas(o) == Call(TRUE, o, DecodeBody(o))

(* AlphaCheckBody: passed, when no check failed; an answer that is not      *)
(* BRAIN's has no checks.                                                   *)
AlphaCheckBody(given, checksFail, o) ==
  LET is == CheckAlpha(given, o)
  IN IF Good(is) THEN Ok(IF is.data = "own" /\ checksFail THEN "failed" ELSE "passed") ELSE is

-----------------------------------------------------------------------------
(* auth.go, simulations.go                                                  *)

(* An empty session body is no error; one with an inquiry is.               *)
Login(given, inquiry, o) ==
  Call(given, o,
    IF ~Good(CheckStatus(o)) THEN CheckStatus(o)
    ELSE IF o.body = "none" THEN Ok("zero")
    ELSE IF o.body = "own" /\ inquiry THEN Err({"persona_inquiry"})
    ELSE DecodeBody(o))

(* A 401, or an empty body: no usable session.                              *)
Probe(o) ==
  IF "401" \in o.err \/ (o.err = NoError /\ o.body = "none")
  THEN Err({"not_authenticated"})
  ELSE Call(TRUE, o, DecodeBody(o))

(* The status is not looked at.                                             *)
Logout(o) == Call(TRUE, o, Ok("done"))

(* The persona call, then Login.                                            *)
CompletePersona(given, o, loggedIn) == IF given /\ o.err = NoError THEN loggedIn ELSE Call(given, o, loggedIn)

(* parseSimLocation: only BRAIN's own 201 has a Location.                   *)
SimLocation(o) == IF o.body = "own" THEN Ok("own") ELSE Err({})

(* CreateSimulation and CreateMultiSimulation; their budget and slots are   *)
(* in SimBudget.                                                            *)
CreateSimulation(given, o) ==
  Call(given, o, IF Good(CheckStatus(o)) THEN SimLocation(o) ELSE CheckStatus(o))

SimulationOptions(o) == Call(TRUE, o, DecodeBody(o))

GetSimulation(given, o) == Call(given, o, DecodeBody(o))

-----------------------------------------------------------------------------
(* performance.go, users.go, messages.go, email.go, password.go             *)

(* Two ids, or one for the pool.                                            *)
BeforeAndAfterPerformance(given, o) == Call(given, o, LongPolled(o))
SelfBeforeAndAfterPerformance(given, o) == Call(given, o, LongPolled(o))

Self(o) == Call(TRUE, o, DecodeBody(o))
Competitions(o) == Call(TRUE, o, DecodeBody(o))
Activities(given, o) == Call(given, o, DecodeBody(o))
Diversity(given, o) == Call(given, o, DecodeBody(o))
Messages(o) == Call(TRUE, o, DecodeBody(o))

(* A stream without a schema has no rows; a row that is no array is an      *)
(* error.                                                                   *)
DecodeActivities(stream, rowsFit) ==
  IF Good(stream) /\ stream.data = "own" /\ ~rowsFit THEN Err({}) ELSE stream

ReverifyEmail(given, o) == Call(given, o, CheckStatus(o))
VerifyEmail(given, o) == Call(given, o, CheckStatus(o))
ForgotPassword(given, o) == Call(given, o, CheckStatus(o))
ResetPassword(given, o) == Call(given, o, CheckStatus(o))

-----------------------------------------------------------------------------
(* schema.go                                                                *)

Operators(o) == Call(TRUE, o, DecodeArray(o))
DataFields(given, o) == Call(given, o, DecodeBody(o))
Datasets(given, o) == Call(given, o, DecodeBody(o))

(* An array, or else an envelope with results; any object is one.           *)
ArrayOrEnvelope(o) == IF Good(DecodeArray(o)) THEN DecodeArray(o) ELSE DecodeBody(o)
DataCategories(o) == Call(TRUE, o, ArrayOrEnvelope(o))
Themes(o) == Call(TRUE, o, ArrayOrEnvelope(o))

=============================================================================
