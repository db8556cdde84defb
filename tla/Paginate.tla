------------------------------ MODULE Paginate ------------------------------
(***************************************************************************)
(* paginateAll of pkg/brainapi and its consumers: a goroutine walks the    *)
(* offset cursor over a server list, page by page, and hands the items out *)
(* one by one; drainAll (CLI) and drainChan (MCP) collect them, and then   *)
(* ask for the error.  ListAlphasAll, MessagesAll, DataFieldsAll and       *)
(* DatasetsAll differ in how they tell the last page (no next link, or a   *)
(* count reached); a server whose answers are consistent makes those equal.*)
(*                                                                         *)
(* The list may change between two pages: the account's alphas are created *)
(* and hidden while someone lists them.                                    *)
(***************************************************************************)
EXTENDS Integers, Sequences, SequencesExt

CONSTANTS
  Stored,     \* number of items in the list at first
  MaxNew,     \* bound: items inserted while the list is read
  MaxRemoved, \* bound: items removed while the list is read
  OptOffset,  \* opts.Offset
  Limit,      \* the limit asked for, 100 or 50 when opts.Limit is 0
  MaxPage     \* items the server puts on a page at most

ASSUME PaginateAssumption ==
  /\ Stored \in Nat
  /\ MaxNew \in Nat
  /\ MaxRemoved \in Nat
  /\ OptOffset \in Nat
  /\ Limit \in Nat \ {0}
  /\ MaxPage \in Nat \ {0}

VARIABLES
  list,      \* the server's list, in its order
  removed,   \* history: items that left the list
  pc,        \* the producer goroutine
  offset,    \* its cursor
  page,      \* what is left to hand out of the page it fetched
  last,      \* done, as fetchPage reported it
  errs,      \* the buffered error channel: what is in it
  errsOpen,  \* it is not closed
  outOpen,   \* the item channel is not closed
  cancelled, \* ctx is done
  consumer,  \* the drain: "range", "errs", "returned", or "gone"
  received,  \* what it collected
  result,    \* the error it returned
  blocked    \* history: a page was the edge's, not BRAIN's

producer == <<pc, offset, page, last>>
channels == <<errs, errsOpen, outOpen>>
drain == <<consumer, received, result>>
server == <<list, removed>>
vars == <<server, producer, channels, cancelled, drain, blocked>>

NewItems == Len(list) + Len(removed) - Stored

-----------------------------------------------------------------------------

Init ==
  /\ list = [i \in 1 .. Stored |-> i]
  /\ removed = <<>>
  /\ pc = "fetch"
  /\ offset = OptOffset
  /\ page = <<>>
  /\ last = FALSE
  /\ errs = <<>>
  /\ errsOpen = TRUE
  /\ outOpen = TRUE
  /\ cancelled = FALSE
  /\ consumer = "range"
  /\ received = <<>>
  /\ result = "none"
  /\ blocked = FALSE

Smaller(a, b) == IF a < b THEN a ELSE b

(* The server's page at a cursor.                                           *)
PageAt(o) == SubSeq(list, o + 1, Smaller(o + Smaller(Limit, MaxPage), Len(list)))

(* No next link; offset + len(results) >= count.                            *)
LastPage(o) == o + Len(PageAt(o)) >= Len(list)

Advance_ByLimit(o, items) == o + Limit
Advance_Short(o, items) == o + Len(items) - 1

(* The cursor moves by what came, not by what was asked for.                *)
Advance(o, items) == o + Len(items)

(* fetchPage returns a page.  offset moves on when the page has been handed *)
(* out: nothing reads it before.                                            *)
FetchPage ==
  /\ pc = "fetch"
  /\ ~cancelled
  /\ page' = PageAt(offset)
  /\ last' = LastPage(offset)
  /\ offset' = Advance(offset, page')
  /\ pc' = IF page' = <<>> THEN "close" ELSE "emit"
  /\ UNCHANGED <<server, channels, cancelled, drain, blocked>>

(* errs <- err; return.                                                     *)
SendError(e) ==
  /\ errs' = Append(errs, e)
  /\ pc' = "close"
  /\ UNCHANGED <<offset, page, last, errsOpen, outOpen>>

(* A 403 of the edge whose retries were spent, when its body is JSON: do    *)
(* returns it with a nil error, and it decodes to a page with no results,   *)
(* no next link and a count of 0.                                           *)
PageBlocked ==
  /\ pc = "fetch"
  /\ ~cancelled
  /\ blocked' = TRUE
  /\ pc' = "close"
  /\ UNCHANGED <<server, offset, page, last, channels, cancelled, drain>>

(* fetchPage fails: Client.do gave up, or the context is done.              *)
FetchFails ==
  /\ pc = "fetch"
  /\ SendError(IF cancelled THEN "ctx" ELSE "fetch")
  /\ UNCHANGED <<server, cancelled, drain, blocked>>

(* out <- it, with the consumer ready to receive.  After the last item of a *)
(* page the loop ends or fetches again.                                     *)
Emit ==
  /\ pc = "emit"
  /\ consumer = "range"
  /\ received' = Append(received, Head(page))
  /\ page' = Tail(page)
  /\ pc' = IF page' # <<>> THEN "emit" ELSE IF last THEN "close" ELSE "fetch"
  /\ UNCHANGED <<server, offset, last, channels, cancelled, consumer, result, blocked>>

EmitCancelled_Silent ==
  /\ pc = "emit"
  /\ cancelled
  /\ pc' = "close"
  /\ UNCHANGED <<server, offset, page, last, channels, cancelled, drain, blocked>>

(* ctx.Done in the select; it may be taken although the consumer is ready.  *)
EmitCancelled ==
  /\ pc = "emit"
  /\ cancelled
  /\ SendError("ctx")
  /\ UNCHANGED <<server, cancelled, drain, blocked>>

(* The deferred calls, last one first: close(errs), then close(out).        *)
CloseErrs ==
  /\ pc = "close"
  /\ errsOpen' = FALSE
  /\ pc' = "closeOut"
  /\ UNCHANGED <<server, offset, page, last, errs, outOpen, cancelled, drain, blocked>>

CloseOut_Dropped ==
  /\ pc = "closeOut"
  /\ pc' = "ended"
  /\ UNCHANGED <<server, offset, page, last, errs, errsOpen, outOpen, cancelled, drain, blocked>>

CloseOut ==
  /\ pc = "closeOut"
  /\ outOpen' = FALSE
  /\ pc' = "ended"
  /\ UNCHANGED <<server, offset, page, last, errs, errsOpen, cancelled, drain, blocked>>

-----------------------------------------------------------------------------
(* drainAll and drainChan                                                   *)

RangeEnds ==
  /\ consumer = "range"
  /\ ~outOpen
  /\ consumer' = "errs"
  /\ UNCHANGED <<server, producer, channels, cancelled, received, result, blocked>>

(* <-errs: the buffered error, or nil from the closed channel.              *)
ReceiveError ==
  /\ consumer = "errs"
  /\ \/ /\ errs # <<>>
        /\ result' = Head(errs)
        /\ errs' = Tail(errs)
     \/ /\ errs = <<>>
        /\ ~errsOpen
        /\ result' = "nil"
        /\ UNCHANGED errs
  /\ consumer' = "returned"
  /\ UNCHANGED <<server, producer, errsOpen, outOpen, cancelled, received, blocked>>

(* A caller that stops receiving has to cancel: "Callers must drain the     *)
(* returned channel; cancellation is honored via ctx".                      *)
Abandon ==
  /\ consumer = "range"
  /\ cancelled
  /\ consumer' = "gone"
  /\ UNCHANGED <<server, producer, channels, cancelled, received, result, blocked>>

Cancel ==
  /\ ~cancelled
  /\ cancelled' = TRUE
  /\ UNCHANGED <<server, producer, channels, drain, blocked>>

-----------------------------------------------------------------------------
(* The list changes                                                         *)

InsertItem ==
  /\ NewItems < MaxNew
  /\ \E i \in 1 .. Len(list) + 1 : list' = InsertAt(list, i, Stored + NewItems + 1)
  /\ UNCHANGED <<removed, producer, channels, cancelled, drain, blocked>>

RemoveItem ==
  /\ Len(removed) < MaxRemoved
  /\ \E i \in DOMAIN list :
       /\ list' = RemoveAt(list, i)
       /\ removed' = Append(removed, list[i])
  /\ UNCHANGED <<producer, channels, cancelled, drain, blocked>>

Produce ==
  FetchPage \/ PageBlocked \/ FetchFails \/ Emit \/ EmitCancelled \/ CloseErrs \/ CloseOut
Drain == RangeEnds \/ ReceiveError

Next == Produce \/ Drain \/ Abandon \/ Cancel \/ InsertItem \/ RemoveItem

Spec == Init /\ [][Next]_vars

FairSpec == Spec /\ WF_vars(Produce) /\ WF_vars(Drain)

-----------------------------------------------------------------------------
(* Properties                                                               *)

(* The drain returned no error, and BRAIN sent every page of it.            *)
Complete == consumer = "returned" /\ result = "nil" /\ ~blocked
Stayed(x) == ~Contains(removed, x)

(* With a list that does not change, what is collected is at any time a     *)
(* prefix of the list from the offset on, each item once and in order, and  *)
(* all of it when the drain returns no error: no page boundary, short page  *)
(* or cancelled send loses an item silently.  (A page the edge blocked      *)
(* does: it ends the list.)                                                 *)
UnchangedListIsRead ==
  NewItems = 0 /\ removed = <<>>
    => LET wanted == SubSeq(list, OptOffset + 1, Len(list)) IN
       /\ IsPrefix(received, wanted)
       /\ Complete => received = wanted

(* Items inserted while the list is read can repeat others, but not hide    *)
(* them: every item listed from the start and behind the offset is yielded. *)
InsertionsHideNothing ==
  removed = <<>> /\ Complete
    => \A x \in OptOffset + 1 .. Stored : Contains(received, x)

(* Items removed while the list is read repeat none, and hide others, but   *)
(* each of them at most one: the cursor falls behind by what was removed    *)
(* and no further.                                                          *)
RemovalsHideFew ==
  NewItems = 0 =>
    /\ IsInjective(received)
    /\ Complete =>
         Cardinality({x \in OptOffset + 1 .. Stored : Stayed(x) /\ ~Contains(received, x)})
           <= Len(removed)

(* The goroutine ends and closes both channels, if its consumer drains it   *)
(* or cancels; and a consumer that drains returns.                          *)
ProducerEnds == <>(pc = "ended" /\ consumer \in {"returned", "gone"})

=============================================================================
