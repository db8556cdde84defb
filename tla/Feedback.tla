------------------------------ MODULE Feedback ------------------------------
(***************************************************************************)
(* pkg/feedback: a report becomes a GitHub issue, or the URL of a draft.   *)
(* Of a report it matters whether its title and body are there and whether *)
(* the body is "short" or "long"; GitHub's part g is whether the issue was *)
(* made and what came of the answer.                                       *)
(***************************************************************************)
EXTENDS Naturals, Sequences

(* The first of three variables that is set, if any.                        *)
ConfigFromEnv(tokens) == \E i \in DOMAIN tokens : tokens[i]

(* The issue carries the whole body, whatever its length.                   *)
BuildIssue(body) == body

(* A long body is cut to fit a URL.                                         *)
DraftURL(issue) == IF issue = "long" THEN "draft_cut" ELSE "draft"

(* GitHub makes the issue or refuses it; what it answers to one that was    *)
(* made can be undecodable, and any answer can be lost.  Only GitHub gives  *)
(* a 2xx, so one that decodes is an issue's.                                *)
GitHub ==
  {g \in [made : BOOLEAN, answer : {"created", "refused", "unreadable", "lost"}] :
     /\ g.answer \in {"created", "unreadable"} => g.made
     /\ g.answer = "refused" => ~g.made}

(* One POST, never repeated.                                                *)
PostIssue(g) == IF g.answer = "created" THEN "filed" ELSE "failed"

MayPost_Unconfirmed(token, confirm) == token

(* "only POSTs when a token is configured AND confirm=true".                *)
MayPost(token, confirm) == token /\ confirm

(* A failure of GitHub's is no error: the report becomes a draft again.     *)
File(complete, body, token, confirm, g) ==
  IF ~complete THEN "error"
  ELSE IF MayPost(token, confirm) /\ PostIssue(g) = "filed" THEN "filed"
  ELSE DraftURL(BuildIssue(body))

=============================================================================
