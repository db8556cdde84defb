----------------------------- MODULE SubmitTool -----------------------------
(***************************************************************************)
(* The submit_alpha tool of the MCP server, with the SubmitAlpha it ends   *)
(* in: read the alpha's self-correlation, refuse what BRAIN would reject,  *)
(* stop at a dry run without confirm, and only then spend a daily slot.    *)
(* Between the read and the screening other alphas of the account may be   *)
(* submitted, which raises the correlation.                                *)
(***************************************************************************)
EXTENDS SubmitAlpha

VARIABLES
  book,     \* BRAIN: the alpha against the account's submitted alphas
  stage,    \* the tool: "read", "gate", "submit", "over"
  corrMax,  \* corrMax as the tool holds it, "nil" when there is none
  confirm,  \* the confirm argument
  reply,    \* what the tool answered
  readBook, \* history: the book when the correlation was read, or "unread"
  own       \* history: that answer was BRAIN's own

toolVars == <<book, stage, corrMax, confirm, reply, readBook, own>>
tool == <<vars, toolVars>>

(* No submitted alpha, a maximum below 0.7, or one of at least 0.7.         *)
Books == {"empty", "low", "high"}

-----------------------------------------------------------------------------

ToolInit ==
  /\ Init
  /\ book \in Books
  /\ stage = "read"
  /\ corrMax = "nil"
  /\ confirm \in BOOLEAN
  /\ reply = "none"
  /\ readBook = "unread"
  /\ own = TRUE

Reply(r) ==
  /\ stage' = "over"
  /\ reply' = r

(* block.Max of an answer: BRAIN has none for an empty book, and the body   *)
(* of a 403 that do handed back, if it is JSON at all, decodes to none.     *)
BlockMax(brains) == IF brains /\ book # "empty" THEN book ELSE "nil"

(* AlphaSelfCorrelation gives a block.                                      *)
ReadCorrelation ==
  /\ stage = "read"
  /\ ~cancelled
  /\ \E brains \in BOOLEAN :
       /\ own' = brains
       /\ corrMax' = BlockMax(brains)
  /\ readBook' = book
  /\ stage' = "gate"
  /\ UNCHANGED <<vars, book, confirm, reply>>

(* It fails: the polls or the retries are spent, the body is no JSON.       *)
ReadFails ==
  /\ stage = "read"
  /\ Reply("error")
  /\ UNCHANGED <<vars, book, corrMax, confirm, readBook, own>>

TooHigh_Never == FALSE

(* corrMax != nil && *corrMax >= 0.7                                        *)
TooHigh == corrMax = "high"

Gate ==
  /\ stage = "gate"
  /\ \/ TooHigh /\ Reply("blocked")
     \/ ~TooHigh /\ ~confirm /\ Reply("dry_run")
     \/ ~TooHigh /\ confirm /\ stage' = "submit" /\ UNCHANGED reply
  /\ UNCHANGED <<vars, book, corrMax, confirm, readBook, own>>

Submit ==
  /\ stage = "submit"
  /\ Step
  /\ UNCHANGED toolVars

ToolEnds_OnVerdict == pc = "returned" /\ verdict # "error"

ToolEnds == pc = "returned"

(* An error of SubmitAlpha is the tool's; any verdict is "submitted".       *)
ToolReturn ==
  /\ stage = "submit"
  /\ ToolEnds
  /\ Reply(IF verdict = "error" THEN "error" ELSE "submitted")
  /\ UNCHANGED <<vars, book, corrMax, confirm, readBook, own>>

(* Another alpha of the account goes live.                                  *)
BookGrows ==
  /\ book # "high"
  /\ book' \in IF book = "empty" THEN {"low", "high"} ELSE {"high"}
  /\ UNCHANGED <<vars, stage, corrMax, confirm, reply, readBook, own>>

(* BRAIN screens against the book as it is by then.                         *)
ScreenBook ==
  /\ Screen
  /\ alpha' = IF book = "high" THEN "corr_fail" ELSE "live"
  /\ UNCHANGED toolVars

CancelTool == Cancel /\ UNCHANGED toolVars

ToolStep == ReadCorrelation \/ ReadFails \/ Gate \/ Submit \/ ToolReturn

ToolNext == ToolStep \/ BookGrows \/ ScreenBook \/ CancelTool

ToolSpec == ToolInit /\ [][ToolNext]_tool

FairToolSpec == ToolSpec /\ WF_tool(ToolStep)

-----------------------------------------------------------------------------
(* Properties                                                               *)

ToolTypeOK ==
  /\ TypeOK
  /\ book \in Books
  /\ stage \in {"read", "gate", "submit", "over"}
  /\ corrMax \in {"nil", "low", "high"}
  /\ confirm \in BOOLEAN
  /\ reply \in {"none", "error", "blocked", "dry_run", "submitted"}
  /\ readBook \in Books \cup {"unread"}
  /\ own \in BOOLEAN

(* No slot is spent without confirm, nor on an alpha that was too           *)
(* correlated when the gate read it, whatever was lost or repeated.  The    *)
(* gate has two holes, and no others: a book that grows after the read, and *)
(* an answer that is not BRAIN's, which has no max and passes.              *)
GateSavesSlots ==
  posted > 0 =>
    /\ confirm
    /\ readBook = "high" => ~own

(* The tool answers.                                                        *)
ToolReturns == <>(stage = "over")

=============================================================================
