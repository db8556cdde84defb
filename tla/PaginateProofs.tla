--------------------------- MODULE PaginateProofs ---------------------------
(***************************************************************************)
(* Proofs about Paginate, for lists, limits, offsets and pages of any      *)
(* size: what a drain collects from a list that stays as it is, from one   *)
(* that grows, and from one that shrinks while it is read.                 *)
(***************************************************************************)
EXTENDS Paginate, SequenceTheorems, FiniteSetTheorems, TLAPS

-----------------------------------------------------------------------------
(* The inductive invariant                                                  *)

PageTypes ==
  /\ list \in Seq(Nat)
  /\ removed \in Seq(Nat)
  /\ NewItems \in Nat
  /\ pc \in {"fetch", "emit", "close", "closeOut", "ended"}
  /\ offset \in Nat
  /\ page \in Seq(Nat)
  /\ last \in BOOLEAN
  /\ errs \in Seq({"ctx", "fetch"})
  /\ consumer \in {"range", "errs", "returned", "gone"}
  /\ received \in Seq(Nat)
  /\ result \in {"none", "nil", "ctx", "fetch"}

(* No error was sent.                                                       *)
Clean == errs = <<>> /\ result \in {"none", "nil"}
Over == pc \in {"close", "closeOut", "ended"}

(* The producer stops without an error, or a page of the edge's, only when  *)
(* it has handed out the page that it took for the last.  The drain asks    *)
(* for the error after that.                                                *)
Control ==
  /\ pc = "fetch" => page = <<>> /\ ~last
  /\ pc = "emit" => page # <<>>
  /\ Over /\ Clean /\ ~blocked => last /\ page = <<>>
  /\ ~outOpen => pc = "ended"
  /\ consumer \in {"errs", "returned"} => ~outOpen
  /\ result # "none" => consumer = "returned"
  /\ result = "nil" => errs = <<>>

(* What is handed out or about to be, and what is still in front of the     *)
(* cursor.                                                                  *)
Held == Range(received) \cup Range(page)
Ahead == {list[p] : p \in {i \in 1 .. Len(list) : i > offset}}

(* A list as it was at first is read in its order.                          *)
InOrder ==
  NewItems = 0 /\ removed = <<>> =>
    /\ \A i \in 1 .. Len(list) : list[i] = i
    /\ \A i \in 1 .. Len(received) : received[i] = OptOffset + i
    /\ \A i \in 1 .. Len(page) : page[i] = OptOffset + Len(received) + i
    /\ offset = OptOffset + Len(received) + Len(page)
    /\ offset = OptOffset \/ offset <= Stored
    /\ last => Stored <= offset

(* Without a removal no item falls behind the cursor unread.                *)
NothingLost ==
  removed = <<>> => OptOffset + 1 .. Stored \subseteq Held \cup (IF last THEN {} ELSE Ahead)

(* The items the cursor has passed unread.                                  *)
Passed == {x \in OptOffset + 1 .. Stored : Stayed(x) /\ x \notin Held \cup Ahead}

(* Without an insertion no item is handed out twice, and each removal makes *)
(* the cursor pass at most one item.                                        *)
FewLost ==
  NewItems = 0 =>
    /\ IsInjective(list)
    /\ IsInjective(received)
    /\ IsInjective(page)
    /\ Range(received) \cap Range(page) = {}
    /\ Held \cap Ahead = {}
    /\ last => Len(list) <= offset
    /\ Cardinality(Passed) <= Len(removed)

PageInv == PageTypes /\ Control /\ InOrder /\ NothingLost /\ FewLost

-----------------------------------------------------------------------------
(* Lists and pages                                                          *)

(* The values of a sequence.                                                *)
LEMMA Values ==
  ASSUME NEW s \in Seq(Nat), NEW x
  PROVE  /\ x \in Range(s) <=> \E i \in 1 .. Len(s) : s[i] = x
         /\ Contains(s, x) <=> x \in Range(s)
BY DEF Range, Contains

(* A piece of a sequence.                                                   *)
LEMMA Piece ==
  ASSUME NEW s \in Seq(Nat), NEW m \in Nat, NEW n \in Nat, 1 <= m, m <= n + 1, n <= Len(s)
  PROVE  /\ SubSeq(s, m, n) \in Seq(Nat)
         /\ Len(SubSeq(s, m, n)) = n + 1 - m
         /\ \A p \in 1 .. n + 1 - m : SubSeq(s, m, n)[p] = s[m - 1 + p]
<1>1. \A i \in m .. n : s[i] \in Nat
  OBVIOUS
<1>2. /\ SubSeq(s, m, n) \in Seq(Nat)
      /\ Len(SubSeq(s, m, n)) = IF m <= n THEN n - m + 1 ELSE 0
      /\ \A p \in 1 .. n - m + 1 : SubSeq(s, m, n)[p] = s[m + p - 1]
  BY <1>1, SubSeqProperties
<1> QED
  BY <1>2

(* An inserted item moves those from its place on one further.              *)
LEMMA Inserted ==
  ASSUME NEW s \in Seq(Nat), NEW i \in 1 .. Len(s) + 1, NEW e \in Nat
  PROVE  /\ InsertAt(s, i, e) \in Seq(Nat)
         /\ Len(InsertAt(s, i, e)) = Len(s) + 1
         /\ \A p \in 1 .. i - 1 : InsertAt(s, i, e)[p] = s[p]
         /\ \A p \in i .. Len(s) : InsertAt(s, i, e)[p + 1] = s[p]
<1> DEFINE front == SubSeq(s, 1, i - 1)
           back == SubSeq(s, i, Len(s))
           mid == front \o <<e>>
           b == i - 1
<1>0. Len(s) \in Nat /\ i \in Nat /\ i >= 1 /\ b \in Nat /\ b + 1 = i /\ b <= Len(s)
  OBVIOUS
<1>1. /\ front \in Seq(Nat) /\ Len(front) = i - 1
      /\ \A p \in 1 .. i - 1 : front[p] = s[p]
  <2>1. /\ SubSeq(s, 1, b) \in Seq(Nat) /\ Len(SubSeq(s, 1, b)) = b + 1 - 1
        /\ \A p \in 1 .. b + 1 - 1 : SubSeq(s, 1, b)[p] = s[1 - 1 + p]
    <3> HIDE DEF b
    <3> QED
      BY <1>0, Piece
  <2> QED
    BY <1>0, <2>1
<1>2. /\ back \in Seq(Nat) /\ Len(back) = Len(s) + 1 - i
      /\ \A p \in 1 .. Len(s) + 1 - i : back[p] = s[i - 1 + p]
  BY <1>0, Piece
<1>3. <<e>> \in Seq(Nat) /\ Len(<<e>>) = 1
  OBVIOUS
<1> HIDE DEF front, back, b
<1>4. /\ mid \in Seq(Nat) /\ Len(mid) = i
      /\ \A p \in 1 .. i - 1 : mid[p] = s[p]
  BY <1>0, <1>1, <1>3, ConcatProperties
<1> HIDE DEF mid
<1>5. /\ mid \o back \in Seq(Nat) /\ Len(mid \o back) = Len(s) + 1
      /\ \A p \in 1 .. Len(s) + 1 : (mid \o back)[p] = IF p <= i THEN mid[p] ELSE back[p - i]
  <2>1. /\ mid \o back \in Seq(Nat) /\ Len(mid \o back) = Len(mid) + Len(back)
        /\ \A p \in 1 .. Len(mid) + Len(back) :
             (mid \o back)[p] = IF p <= Len(mid) THEN mid[p] ELSE back[p - Len(mid)]
    BY <1>2, <1>4, ConcatProperties, ZenonT(40)
  <2>2. Len(mid) + Len(back) = Len(s) + 1 /\ Len(mid) = i
    BY <1>0, <1>2, <1>4
  <2> QED
    BY <2>1, <2>2
<1>6. InsertAt(s, i, e) = mid \o back
  BY DEF InsertAt, mid, front, back
<1>7. \A p \in 1 .. i - 1 : (mid \o back)[p] = s[p]
  BY <1>0, <1>4, <1>5
<1>8. ASSUME NEW p \in i .. Len(s) PROVE (mid \o back)[p + 1] = s[p]
  <2>0. /\ \A q \in 1 .. Len(s) + 1 : (mid \o back)[q] = IF q <= i THEN mid[q] ELSE back[q - i]
        /\ \A q \in 1 .. Len(s) + 1 - i : back[q] = s[i - 1 + q]
    BY <1>2, <1>5
  <2>a. /\ p + 1 \in 1 .. Len(s) + 1 /\ ~(p + 1 <= i)
        /\ p + 1 - i \in 1 .. Len(s) + 1 - i
    BY <1>0
  <2> DEFINE q == p + 1
  <2>1. (mid \o back)[p + 1] = back[p + 1 - i]
    <3>1. q \in 1 .. Len(s) + 1 /\ ~(q <= i)
      BY <2>a
    <3> HIDE DEF q
    <3>2. (mid \o back)[q] = back[q - i]
      BY <2>0, <3>1
    <3> QED
      BY <3>2 DEF q
  <2>2. back[p + 1 - i] = s[i - 1 + (p + 1 - i)]
    BY <2>0, <2>a
  <2>3. i - 1 + (p + 1 - i) = p
    BY <1>0
  <2> QED
    BY <2>1, <2>2, <2>3
<1> QED
  BY <1>5, <1>6, <1>7, <1>8

(* A removed item lets those behind it move up.                             *)
LEMMA Taken ==
  ASSUME NEW s \in Seq(Nat), NEW i \in 1 .. Len(s)
  PROVE  /\ RemoveAt(s, i) \in Seq(Nat)
         /\ Len(RemoveAt(s, i)) = Len(s) - 1
         /\ \A p \in 1 .. i - 1 : RemoveAt(s, i)[p] = s[p]
         /\ \A p \in i .. Len(s) - 1 : RemoveAt(s, i)[p] = s[p + 1]
<1> DEFINE front == SubSeq(s, 1, i - 1)
           back == SubSeq(s, i + 1, Len(s))
           b == i - 1
           a == i + 1
<1>0. /\ Len(s) \in Nat /\ i \in Nat /\ i >= 1 /\ b \in Nat /\ b + 1 = i /\ b <= Len(s)
      /\ a \in Nat /\ a <= Len(s) + 1 /\ a - 1 = i
  OBVIOUS
<1>1. /\ front \in Seq(Nat) /\ Len(front) = i - 1
      /\ \A p \in 1 .. i - 1 : front[p] = s[p]
  <2>1. /\ SubSeq(s, 1, b) \in Seq(Nat) /\ Len(SubSeq(s, 1, b)) = b + 1 - 1
        /\ \A p \in 1 .. b + 1 - 1 : SubSeq(s, 1, b)[p] = s[1 - 1 + p]
    <3> HIDE DEF b
    <3> QED
      BY <1>0, Piece
  <2> QED
    BY <1>0, <2>1
<1>2. /\ back \in Seq(Nat) /\ Len(back) = Len(s) - i
      /\ \A p \in 1 .. Len(s) - i : back[p] = s[i + p]
  <2>1. /\ SubSeq(s, a, Len(s)) \in Seq(Nat) /\ Len(SubSeq(s, a, Len(s))) = Len(s) + 1 - a
        /\ \A p \in 1 .. Len(s) + 1 - a : SubSeq(s, a, Len(s))[p] = s[a - 1 + p]
    <3> HIDE DEF a
    <3> QED
      BY <1>0, Piece
  <2> QED
    BY <1>0, <2>1
<1>3. RemoveAt(s, i) = front \o back
  BY DEF RemoveAt
<1> HIDE DEF front, back, a, b
<1>4. /\ front \o back \in Seq(Nat) /\ Len(front \o back) = Len(s) - 1
      /\ \A p \in 1 .. Len(s) - 1 : (front \o back)[p] = IF p <= i - 1 THEN front[p] ELSE back[p - (i - 1)]
  <2>1. /\ front \o back \in Seq(Nat) /\ Len(front \o back) = Len(front) + Len(back)
        /\ \A p \in 1 .. Len(front) + Len(back) :
             (front \o back)[p] = IF p <= Len(front) THEN front[p] ELSE back[p - Len(front)]
    BY <1>1, <1>2, ConcatProperties
  <2>2. Len(front) + Len(back) = Len(s) - 1 /\ Len(front) = i - 1
    BY <1>0, <1>1, <1>2
  <2> QED
    BY <2>1, <2>2
<1>5. ASSUME NEW p \in i .. Len(s) - 1 PROVE (front \o back)[p] = s[p + 1]
  <2>0. /\ \A q \in 1 .. Len(s) - 1 :
             (front \o back)[q] = IF q <= i - 1 THEN front[q] ELSE back[q - (i - 1)]
        /\ \A q \in 1 .. Len(s) - i : back[q] = s[i + q]
    BY <1>2, <1>4
  <2>a. /\ p \in 1 .. Len(s) - 1 /\ ~(p <= i - 1)
        /\ p - (i - 1) \in 1 .. Len(s) - i
    BY <1>0
  <2>1. (front \o back)[p] = back[p - (i - 1)]
    BY <2>0, <2>a
  <2>2. back[p - (i - 1)] = s[i + (p - (i - 1))]
    BY <2>0, <2>a
  <2>3. i + (p - (i - 1)) = p + 1
    BY <1>0
  <2> QED
    BY <2>1, <2>2, <2>3
<1>6. \A p \in 1 .. i - 1 : (front \o back)[p] = s[p]
  BY <1>0, <1>1, <1>4
<1> QED
  BY <1>3, <1>4, <1>5, <1>6

(* A page holds the items from the cursor on, is empty only at the end of   *)
(* the list, and is the last when it reaches it.                            *)
LEMMA PageOfList ==
  ASSUME PageTypes
  PROVE  /\ PageAt(offset) \in Seq(Nat)
         /\ \A i \in 1 .. Len(PageAt(offset)) :
              offset + i \in 1 .. Len(list) /\ PageAt(offset)[i] = list[offset + i]
         /\ PageAt(offset) = <<>> => LastPage(offset)
         /\ LastPage(offset) <=> Len(list) <= offset + Len(PageAt(offset))
         /\ Len(PageAt(offset)) > 0 => offset + Len(PageAt(offset)) <= Len(list)
<1> DEFINE k == Smaller(offset + Smaller(Limit, MaxPage), Len(list))
<1>1. /\ list \in Seq(Nat) /\ offset \in Nat /\ Len(list) \in Nat
  BY DEF PageTypes
<1>2. /\ k \in Nat /\ k <= Len(list)
      /\ k = Len(list) \/ k > offset
  BY <1>1, PaginateAssumption DEF Smaller
<1>3. \A i \in offset + 1 .. k : list[i] \in Nat
  BY <1>1, <1>2
<1>4. PageAt(offset) = SubSeq(list, offset + 1, k)
  BY DEF PageAt
<1> HIDE DEF k
<1>5. CASE offset + 1 <= k
  <2> DEFINE m == offset + 1
  <2>1. m \in Nat /\ m >= 1 /\ m <= k + 1 /\ m - 1 = offset
    BY <1>1, <1>2, <1>5
  <2>2. /\ SubSeq(list, m, k) \in Seq(Nat)
        /\ Len(SubSeq(list, m, k)) = k + 1 - m
        /\ \A p \in 1 .. k + 1 - m : SubSeq(list, m, k)[p] = list[m - 1 + p]
    <3> HIDE DEF m
    <3> QED
      BY <1>1, <1>2, <2>1, Piece
  <2>3. /\ PageAt(offset) \in Seq(Nat)
        /\ Len(PageAt(offset)) = k - offset
        /\ \A i \in 1 .. k - offset : PageAt(offset)[i] = list[offset + i]
    BY <1>1, <1>2, <1>4, <2>1, <2>2
  <2>4. PageAt(offset) # <<>>
    BY <1>1, <1>2, <1>5, <2>3
  <2> QED
    BY <1>1, <1>2, <1>5, <2>3, <2>4 DEF LastPage
<1>6. CASE k < offset + 1
  <2>1. PageAt(offset) = <<>>
    BY <1>1, <1>2, <1>4, <1>6, SubSeqEmpty
  <2> QED
    BY <1>1, <1>2, <1>6, <2>1 DEF LastPage
<1> QED
  BY <1>1, <1>2, <1>5, <1>6

(* No value twice.                                                          *)
LEMMA Once ==
  ASSUME NEW s \in Seq(Nat)
  PROVE  IsInjective(s) <=> \A a, b \in 1 .. Len(s) : s[a] = s[b] => a = b
BY DEF IsInjective

(* The empty sequence has none.                                             *)
LEMMA NoValues == Range(<<>>) = {} /\ IsInjective(<<>>)
BY DEF Range, IsInjective

(* Where an item in front of the cursor is.                                 *)
LEMMA InFront ==
  ASSUME NEW x
  PROVE  x \in Ahead <=> \E p \in 1 .. Len(list) : p > offset /\ list[p] = x
BY DEF Ahead

-----------------------------------------------------------------------------
(* The steps                                                                *)

(* Nothing has been read at first.                                          *)
LEMMA PageInit == Init => PageInv
<1> SUFFICES ASSUME Init PROVE PageInv
  OBVIOUS
<1>1. list \in [1 .. Stored -> Nat] /\ \A i \in 1 .. Stored : list[i] = i
  BY PaginateAssumption DEF Init
<1>2. list \in Seq(Nat) /\ Len(list) = Stored
  <2>1. list \in Seq(Nat)
    BY <1>1, PaginateAssumption
  <2>2. DOMAIN list = 1 .. Stored
    BY <1>1
  <2> QED
    BY <2>1, <2>2, PaginateAssumption, LenProperties
<1>3. /\ removed = <<>> /\ page = <<>> /\ received = <<>> /\ offset = OptOffset
      /\ Len(removed) = 0 /\ Len(page) = 0 /\ Len(received) = 0
  BY DEF Init
<1>4. PageTypes
  <2>1. /\ <<>> \in Seq(Nat) /\ <<>> \in Seq({"ctx", "fetch"})
        /\ NewItems = 0
    BY <1>2, <1>3, PaginateAssumption DEF NewItems
  <2> QED
    BY <1>2, <1>3, <2>1, PaginateAssumption DEF Init, PageTypes
<1>5. Control
  BY DEF Init, Control, Over
<1>6. InOrder
  BY <1>1, <1>2, <1>3, PaginateAssumption DEF Init, InOrder
<1>7. \A x \in OptOffset + 1 .. Stored : x \in Ahead
  BY <1>1, <1>2, <1>3, InFront, PaginateAssumption
<1>8. NothingLost
  BY <1>7 DEF Init, NothingLost
<1>9. FewLost
  <2>1. Passed = {}
    BY <1>7 DEF Passed
  <2>2. Cardinality(Passed) = 0
    BY <2>1, FS_EmptySet
  <2>3. Range(received) = {} /\ Range(page) = {}
    BY <1>3, NoValues
  <2>4. IsInjective(list) /\ IsInjective(received) /\ IsInjective(page)
    <3>1. IsInjective(list)
      BY <1>1, <1>2, Once
    <3> QED
      BY <1>3, <3>1, NoValues
  <2> QED
    BY <1>3, <2>2, <2>3, <2>4 DEF Init, FewLost, Held
<1> QED
  BY <1>4, <1>5, <1>6, <1>8, <1>9 DEF PageInv

(* A page is cut off from what is in front of the cursor.                   *)
LEMMA Fetched ==
  ASSUME PageInv, FetchPage
  PROVE  /\ page' \in Seq(Nat)
         /\ \A i \in 1 .. Len(page') :
              offset + i \in 1 .. Len(list) /\ page'[i] = list[offset + i]
         /\ page' = <<>> => last'
         /\ last' \in BOOLEAN
         /\ last' <=> Len(list) <= offset'
         /\ offset' = offset + Len(page')
         /\ Len(page') > 0 => offset' <= Len(list)
         /\ page = <<>> /\ Range(page) = {} /\ ~last
<1>1. PageTypes
  BY DEF PageInv
<1>2. /\ page' = PageAt(offset) /\ last' = LastPage(offset) /\ offset' = offset + Len(page')
      /\ pc = "fetch"
  BY DEF FetchPage, Advance
<1>3. LastPage(offset) \in BOOLEAN
  BY DEF LastPage
<1>4. page = <<>> /\ ~last
  BY <1>2 DEF PageInv, Control
<1>5. Range(page) = {}
  BY <1>4, NoValues
<1> QED
  BY <1>1, <1>2, <1>3, <1>4, <1>5, PageOfList

(* What was ahead of the cursor is in the page, or still ahead of it.       *)
LEMMA FetchStep ==
  ASSUME PageInv, FetchPage
  PROVE  PageInv'
<1> DEFINE n == Len(page')
<1>1. /\ list \in Seq(Nat) /\ list' = list /\ removed' = removed /\ received' = received
      /\ received \in Seq(Nat) /\ offset \in Nat /\ Len(list) \in Nat /\ NewItems' = NewItems
  BY DEF PageInv, PageTypes, FetchPage, server, drain, NewItems
<1>2. /\ page' \in Seq(Nat) /\ n \in Nat
      /\ \A i \in 1 .. n : offset + i \in 1 .. Len(list) /\ page'[i] = list[offset + i]
      /\ page' = <<>> => last'
      /\ last' \in BOOLEAN
      /\ last' <=> Len(list) <= offset'
      /\ offset' = offset + n
      /\ n > 0 => offset' <= Len(list)
  BY Fetched
<1>3. PageTypes'
  BY <1>1, <1>2 DEF PageInv, PageTypes, FetchPage, channels, drain, server
<1>4. Control'
  BY <1>2 DEF PageInv, Control, FetchPage, Over, Clean, channels, drain
<1> HIDE DEF n
<1>5. ASSUME NEW x
      PROVE  /\ x \in Range(page') <=> \E i \in 1 .. n : page'[i] = x
             /\ x \in Ahead' <=> \E p \in 1 .. Len(list) : p > offset' /\ list[p] = x
  <2>1. x \in Range(page') <=> \E i \in 1 .. n : page'[i] = x
    BY <1>2, Values DEF n
  <2>2. x \in Ahead' <=> \E p \in 1 .. Len(list) : p > offset' /\ list[p] = x
    BY <1>1 DEF Ahead
  <2> QED
    BY <2>1, <2>2
<1>b. /\ n \in Nat /\ offset \in Nat /\ Len(list) \in Nat /\ offset' = offset + n
      /\ \A i \in 1 .. n : offset + i \in 1 .. Len(list) /\ page'[i] = list[offset + i]
      /\ n > 0 => offset' <= Len(list)
      /\ last' <=> Len(list) <= offset'
  BY <1>1, <1>2
<1>6. ASSUME NEW x
      PROVE  x \in Ahead <=> x \in Range(page') \/ x \in Ahead'
  <2>1. ASSUME NEW p \in 1 .. Len(list), p > offset, list[p] = x
        PROVE  x \in Range(page') \/ x \in Ahead'
    <3>1. CASE p > offset'
      BY <1>5, <2>1, <3>1
    <3>2. CASE p <= offset'
      <4>1. p - offset \in 1 .. n /\ offset + (p - offset) = p
        BY <1>b, <2>1, <3>2
      <4>2. page'[p - offset] = x
        BY <1>b, <2>1, <4>1
      <4> QED
        BY <1>5, <4>1, <4>2
    <3> QED
      BY <1>b, <2>1, <3>1, <3>2
  <2>2. ASSUME NEW i \in 1 .. n, page'[i] = x
        PROVE  x \in Ahead
    <3>1. offset + i \in 1 .. Len(list) /\ list[offset + i] = x /\ offset + i > offset
      BY <1>b, <2>2
    <3> QED
      BY <3>1, InFront
  <2>3. ASSUME NEW p \in 1 .. Len(list), p > offset', list[p] = x
        PROVE  x \in Ahead
    <3>1. p > offset
      BY <1>b, <2>3
    <3> QED
      BY <2>3, <3>1, InFront
  <2> QED
    BY <1>5, <2>1, <2>2, <2>3, InFront
<1>7. /\ \A x : x \in Held' <=> x \in Range(received) \/ x \in Range(page')
      /\ \A x : x \in Held <=> x \in Range(received)
  BY <1>1, Fetched DEF Held
<1>8. InOrder'
  <2> SUFFICES ASSUME NewItems = 0, removed = <<>>
               PROVE  /\ \A i \in 1 .. Len(list) : list[i] = i
                      /\ \A i \in 1 .. Len(received) : received[i] = OptOffset + i
                      /\ \A i \in 1 .. n : page'[i] = OptOffset + Len(received) + i
                      /\ offset' = OptOffset + Len(received) + n
                      /\ offset' = OptOffset \/ offset' <= Stored
                      /\ last' => Stored <= offset'
    BY <1>1 DEF InOrder, n
  <2>1. Len(list) = Stored /\ Len(received) \in Nat
    BY <1>1, PaginateAssumption DEF NewItems
  <2>2. /\ \A i \in 1 .. Len(list) : list[i] = i
        /\ \A i \in 1 .. Len(received) : received[i] = OptOffset + i
        /\ offset = OptOffset + Len(received)
        /\ offset = OptOffset \/ offset <= Stored
    BY <2>1, Fetched, PaginateAssumption, SMTT(20) DEF PageInv, InOrder
  <2>3. \A i \in 1 .. n : page'[i] = OptOffset + Len(received) + i
    BY <1>b, <2>2
  <2>4. n = 0 \/ n > 0
    BY <1>b
  <2> QED
    BY <1>b, <2>1, <2>2, <2>3, <2>4, PaginateAssumption
<1>9. NothingLost'
  <2> SUFFICES ASSUME removed = <<>>, NEW x \in OptOffset + 1 .. Stored
               PROVE  x \in Held' \/ (~last' /\ x \in Ahead')
    BY <1>1 DEF NothingLost
  <2>1. x \in Held \/ x \in Ahead
    BY Fetched DEF PageInv, NothingLost
  <2>2. x \in Ahead' => ~last'
    BY <1>b, <1>5
  <2> QED
    BY <1>6, <1>7, <2>1, <2>2
<1>10. FewLost'
  <2> SUFFICES ASSUME NewItems = 0 PROVE FewLost'
    BY <1>1 DEF FewLost
  <2>1. /\ IsInjective(list) /\ IsInjective(received) /\ Held \cap Ahead = {}
        /\ Cardinality(Passed) <= Len(removed)
    BY DEF PageInv, FewLost
  <2>2. \A a, b \in 1 .. Len(list) : list[a] = list[b] => a = b
    BY <1>1, <2>1, Once
  <2>3. IsInjective(page')
    <3>1. ASSUME NEW a \in 1 .. n, NEW b \in 1 .. n, page'[a] = page'[b] PROVE a = b
      <4>1. list[offset + a] = list[offset + b] /\ offset + a \in 1 .. Len(list) /\ offset + b \in 1 .. Len(list)
        BY <1>b, <3>1
      <4>2. offset + a = offset + b
        BY <2>2, <4>1
      <4> QED
        BY <1>b, <4>2
    <3> QED
      BY <1>2, <3>1, Once DEF n
  <2>4. Range(received) \cap Range(page') = {}
    BY <1>6, <1>7, <2>1
  <2>5. Held' \cap Ahead' = {}
    <3> SUFFICES ASSUME NEW x, x \in Held', x \in Ahead' PROVE FALSE
      OBVIOUS
    <3>1. x \notin Range(received)
      BY <1>6, <1>7, <2>1
    <3>2. PICK i \in 1 .. n : page'[i] = x
      BY <1>5, <1>7, <3>1
    <3>3. PICK p \in 1 .. Len(list) : p > offset' /\ list[p] = x
      BY <1>5
    <3>4. offset + i \in 1 .. Len(list) /\ list[offset + i] = x
      BY <1>b, <3>2
    <3>5. offset + i = p
      BY <2>2, <3>3, <3>4
    <3> QED
      BY <1>b, <3>3, <3>5
  <2>6. Passed' = Passed
    <3>1. \A x : x \in Held' \cup Ahead' <=> x \in Held \cup Ahead
      BY <1>6, <1>7
    <3> QED
      BY <1>1, <3>1 DEF Passed, Stayed
  <2> QED
    BY <1>1, <1>2, <2>1, <2>3, <2>4, <2>5, <2>6 DEF FewLost
<1> QED
  BY <1>3, <1>4, <1>8, <1>9, <1>10 DEF PageInv

(* Handing an item out moves it from the page to what was collected.        *)
LEMMA Handed ==
  ASSUME NEW s \in Seq(Nat), NEW r \in Seq(Nat), s # <<>>
  PROVE  /\ Head(s) = s[1] /\ s[1] \in Nat /\ Len(s) >= 1
         /\ Tail(s) \in Seq(Nat) /\ Len(Tail(s)) = Len(s) - 1
         /\ \A i \in 1 .. Len(s) - 1 : Tail(s)[i] = s[i + 1]
         /\ Append(r, Head(s)) \in Seq(Nat) /\ Len(Append(r, Head(s))) = Len(r) + 1
         /\ \A i \in 1 .. Len(r) : Append(r, Head(s))[i] = r[i]
         /\ Append(r, Head(s))[Len(r) + 1] = s[1]
         /\ \A x : x \in Range(s) <=> x = s[1] \/ x \in Range(Tail(s))
         /\ \A x : x \in Range(Append(r, Head(s))) <=> x = s[1] \/ x \in Range(r)
<1> DEFINE t == Tail(s)
           more == Append(r, s[1])
<1>1. Head(s) = s[1] /\ Len(s) \in Nat /\ Len(s) >= 1 /\ s[1] \in Nat /\ Len(r) \in Nat
  BY EmptySeq
<1>2. /\ t \in Seq(Nat) /\ Len(t) = Len(s) - 1
      /\ \A i \in 1 .. Len(t) : t[i] = s[i + 1]
  BY HeadTailProperties
<1>3. /\ more \in Seq(Nat) /\ Len(more) = Len(r) + 1
      /\ \A i \in 1 .. Len(r) : more[i] = r[i]
      /\ more[Len(r) + 1] = s[1]
  BY <1>1, AppendProperties
<1> HIDE DEF t, more
<1>a. /\ Len(s) \in Nat /\ Len(s) >= 1 /\ Len(r) \in Nat
      /\ Len(t) = Len(s) - 1 /\ \A i \in 1 .. Len(t) : t[i] = s[i + 1]
      /\ Len(more) = Len(r) + 1 /\ \A i \in 1 .. Len(r) : more[i] = r[i]
      /\ more[Len(r) + 1] = s[1]
  BY <1>1, <1>2, <1>3
<1>b. /\ \A x : x \in Range(s) <=> \E i \in 1 .. Len(s) : s[i] = x
      /\ \A x : x \in Range(r) <=> \E i \in 1 .. Len(r) : r[i] = x
      /\ \A x : x \in Range(t) <=> \E i \in 1 .. Len(t) : t[i] = x
      /\ \A x : x \in Range(more) <=> \E i \in 1 .. Len(more) : more[i] = x
  <2>1. \A q \in Seq(Nat) : \A x : x \in Range(q) <=> \E i \in 1 .. Len(q) : q[i] = x
    BY Values
  <2> QED
    BY <1>2, <1>3, <2>1
<1>4. ASSUME NEW x PROVE x \in Range(s) <=> x = s[1] \/ x \in Range(t)
  <2>1. ASSUME NEW i \in 1 .. Len(s), s[i] = x, i # 1 PROVE x \in Range(t)
    <3>1. i - 1 \in 1 .. Len(t) /\ (i - 1) + 1 = i
      BY <1>a, <2>1
    <3>2. t[i - 1] = x
      BY <1>a, <2>1, <3>1
    <3> QED
      BY <1>b, <3>1, <3>2
  <2>2. ASSUME NEW i \in 1 .. Len(t), t[i] = x PROVE x \in Range(s)
    <3>1. i + 1 \in 1 .. Len(s) /\ s[i + 1] = x
      BY <1>a, <2>2
    <3> QED
      BY <1>b, <3>1
  <2>3. s[1] \in Range(s)
    <3>1. 1 \in 1 .. Len(s)
      BY <1>a
    <3> QED
      BY <1>b, <3>1
  <2> QED
    BY <1>b, <2>1, <2>2, <2>3
<1>5. ASSUME NEW x PROVE x \in Range(more) <=> x = s[1] \/ x \in Range(r)
  <2>1. ASSUME NEW i \in 1 .. Len(more), more[i] = x, i # Len(r) + 1 PROVE x \in Range(r)
    <3>0. Len(r) \in Nat /\ Len(more) = Len(r) + 1
      BY <1>a
    <3>1. i \in 1 .. Len(r)
      BY <2>1, <3>0
    <3>2. r[i] = x
      BY <1>a, <2>1, <3>1
    <3> QED
      BY <1>b, <3>1, <3>2
  <2>2. ASSUME NEW i \in 1 .. Len(r), r[i] = x PROVE x \in Range(more)
    <3>1. i \in 1 .. Len(more) /\ more[i] = x
      BY <1>a, <2>2
    <3> QED
      BY <1>a, <1>b, <3>1
  <2>3. s[1] \in Range(more)
    <3>1. Len(r) + 1 \in 1 .. Len(more)
      BY <1>a
    <3> QED
      BY <1>a, <1>b, <3>1
  <2> QED
    <3>1. \A i \in 1 .. Len(more) : more[i] = x => i = Len(r) + 1 \/ x \in Range(r)
      BY <2>1
    <3>2. x \in Range(more) => x = s[1] \/ x \in Range(r)
      BY <1>a, <1>b, <3>1
    <3> QED
      BY <1>b, <2>2, <2>3, <3>2
<1> QED
  BY <1>1, <1>2, <1>3, <1>4, <1>5 DEF t, more

(* An item handed out is the next one in order, so nothing is skipped.      *)
LEMMA EmitStep ==
  ASSUME PageInv, Emit
  PROVE  PageInv'
<1>1. /\ page \in Seq(Nat) /\ received \in Seq(Nat) /\ page # <<>> /\ pc = "emit"
      /\ received' = Append(received, Head(page)) /\ page' = Tail(page)
      /\ list' = list /\ removed' = removed /\ NewItems' = NewItems
      /\ offset' = offset /\ last' = last
  BY DEF PageInv, PageTypes, Control, Emit, server, NewItems
<1>2. /\ page[1] \in Nat /\ Len(page) >= 1 /\ Len(page) \in Nat /\ Len(received) \in Nat
      /\ page' \in Seq(Nat) /\ Len(page') = Len(page) - 1
      /\ \A i \in 1 .. Len(page) - 1 : page'[i] = page[i + 1]
      /\ received' \in Seq(Nat) /\ Len(received') = Len(received) + 1
      /\ \A i \in 1 .. Len(received) : received'[i] = received[i]
      /\ received'[Len(received) + 1] = page[1]
      /\ \A x : x \in Range(page) <=> x = page[1] \/ x \in Range(page')
      /\ \A x : x \in Range(received') <=> x = page[1] \/ x \in Range(received)
  BY <1>1, Handed
<1>a. /\ Len(page) >= 1 /\ Len(page) \in Nat /\ Len(received) \in Nat
      /\ Len(page') = Len(page) - 1 /\ \A i \in 1 .. Len(page) - 1 : page'[i] = page[i + 1]
      /\ Len(received') = Len(received) + 1
      /\ \A i \in 1 .. Len(received) : received'[i] = received[i]
      /\ received'[Len(received) + 1] = page[1]
  BY <1>2
<1>3. PageTypes'
  BY <1>1, <1>2 DEF PageInv, PageTypes, Emit, channels
<1>4. Control'
  BY <1>1 DEF PageInv, Control, Emit, Over, Clean, channels
<1>5. /\ \A x : x \in Held' <=> x \in Held
      /\ Ahead' = Ahead
  BY <1>1, <1>2 DEF Held, Ahead
<1>6. InOrder'
  <2> SUFFICES ASSUME NewItems = 0, removed = <<>>
               PROVE  /\ \A i \in 1 .. Len(received') : received'[i] = OptOffset + i
                      /\ \A i \in 1 .. Len(page') : page'[i] = OptOffset + Len(received') + i
                      /\ offset = OptOffset + Len(received') + Len(page')
    BY <1>1 DEF PageInv, InOrder
  <2>1. /\ \A i \in 1 .. Len(received) : received[i] = OptOffset + i
        /\ \A i \in 1 .. Len(page) : page[i] = OptOffset + Len(received) + i
        /\ offset = OptOffset + Len(received) + Len(page)
    BY DEF PageInv, InOrder
  <2>2. page[1] = OptOffset + Len(received) + 1
    BY <1>a, <2>1
  <2>3. ASSUME NEW i \in 1 .. Len(received') PROVE received'[i] = OptOffset + i
    <3>1. i \in 1 .. Len(received) \/ i = Len(received) + 1
      BY <1>a
    <3>2. CASE i \in 1 .. Len(received)
      BY <1>a, <2>1, <3>2
    <3>3. CASE i = Len(received) + 1
      <4>1. received'[i] = page[1] /\ Len(received) \in Nat
        BY <1>a, <3>3
      <4> QED
        BY <2>2, <3>3, <4>1, PaginateAssumption
    <3> QED
      BY <3>1, <3>2, <3>3
  <2>4. ASSUME NEW i \in 1 .. Len(page') PROVE page'[i] = OptOffset + Len(received') + i
    <3>1. i + 1 \in 1 .. Len(page) /\ page'[i] = page[i + 1]
      BY <1>a
    <3> QED
      BY <1>a, <2>1, <3>1, PaginateAssumption
  <2> QED
    BY <1>a, <2>1, <2>3, <2>4, PaginateAssumption
<1>7. NothingLost'
  BY <1>1, <1>5 DEF PageInv, NothingLost
<1>8. FewLost'
  <2> SUFFICES ASSUME NewItems = 0 PROVE FewLost'
    BY <1>1 DEF FewLost
  <2>1. /\ \A a, b \in 1 .. Len(page) : page[a] = page[b] => a = b
        /\ \A a, b \in 1 .. Len(received) : received[a] = received[b] => a = b
        /\ Range(received) \cap Range(page) = {}
    BY <1>1, Once DEF PageInv, FewLost
  <2>2. page[1] \notin Range(page')
    <3> SUFFICES ASSUME NEW i \in 1 .. Len(page'), page'[i] = page[1] PROVE FALSE
      BY <1>2, Values
    <3>1. i + 1 \in 1 .. Len(page) /\ 1 \in 1 .. Len(page) /\ page[i + 1] = page[1] /\ i + 1 # 1
      BY <1>a
    <3> QED
      BY <2>1, <3>1
  <2>3. page[1] \notin Range(received) /\ page[1] \in Range(page)
    BY <1>2, <2>1
  <2>4. IsInjective(page')
    <3>1. ASSUME NEW a \in 1 .. Len(page'), NEW b \in 1 .. Len(page'), page'[a] = page'[b]
          PROVE  a = b
      <4>0. /\ a \in 1 .. Len(page) - 1 /\ b \in 1 .. Len(page) - 1
            /\ a + 1 \in 1 .. Len(page) /\ b + 1 \in 1 .. Len(page)
        BY ONLY <1>a, <3>1
      <4>1. a + 1 \in 1 .. Len(page) /\ b + 1 \in 1 .. Len(page) /\ page[a + 1] = page[b + 1]
        BY <1>a, <3>1, <4>0, Zenon
      <4>2. a + 1 = b + 1
        BY <2>1, <4>1
      <4> QED
        BY <4>2
    <3> QED
      BY <1>2, <3>1, Once
  <2>5. IsInjective(received')
    <3>1. ASSUME NEW a \in 1 .. Len(received'), NEW b \in 1 .. Len(received'),
                 received'[a] = received'[b], a < b
          PROVE  FALSE
      <4>1. a \in 1 .. Len(received) /\ received'[a] = received[a]
        BY <1>a, <3>1
      <4>2. CASE b \in 1 .. Len(received)
        <5>1. received[a] = received[b]
          BY <1>a, <3>1, <4>1, <4>2
        <5>2. a = b
          BY <2>1, <4>1, <4>2, <5>1
        <5> QED
          BY <1>a, <3>1, <5>2
      <4>3. CASE b = Len(received) + 1
        <5>1. received[a] = page[1]
          BY <1>a, <3>1, <4>1, <4>3
        <5> QED
          BY <1>1, <2>3, <4>1, <5>1, Values
      <4> QED
        BY <1>a, <4>2, <4>3
    <3>2. \A a, b \in 1 .. Len(received') : received'[a] = received'[b] => a = b
      <4> SUFFICES ASSUME NEW a \in 1 .. Len(received'), NEW b \in 1 .. Len(received'),
                          received'[a] = received'[b]
                   PROVE  a = b
        OBVIOUS
      <4>1. a \in Nat /\ b \in Nat /\ ~(a < b) /\ ~(b < a)
        BY <1>a, <3>1
      <4> QED
        BY <4>1
    <3> QED
      BY <1>2, <3>2, Once
  <2>6. Range(received') \cap Range(page') = {}
    BY <1>2, <2>1, <2>2
  <2>7. Passed' = Passed
    BY <1>1, <1>5 DEF Passed, Stayed
  <2>8. Held' \cap Ahead' = {}
    BY <1>5 DEF PageInv, FewLost
  <2> QED
    BY <1>1, <2>4, <2>5, <2>6, <2>7, <2>8 DEF PageInv, FewLost
<1> QED
  BY <1>3, <1>4, <1>6, <1>7, <1>8 DEF PageInv

(* An insertion moves items back, which repeats some and hides none.        *)
LEMMA InsertStep ==
  ASSUME PageInv, InsertItem
  PROVE  PageInv'
<1>1. /\ list \in Seq(Nat) /\ received \in Seq(Nat) /\ page \in Seq(Nat) /\ removed \in Seq(Nat)
      /\ Len(list) \in Nat /\ Len(removed) \in Nat /\ offset \in Nat /\ NewItems \in Nat
      /\ removed' = removed /\ page' = page /\ offset' = offset /\ last' = last
      /\ received' = received
  BY DEF PageInv, PageTypes, InsertItem, producer, drain
<1>2. PICK i \in 1 .. Len(list) + 1 : list' = InsertAt(list, i, Stored + NewItems + 1)
  BY DEF InsertItem
<1>3. /\ list' \in Seq(Nat) /\ Len(list') = Len(list) + 1
      /\ \A p \in 1 .. i - 1 : list'[p] = list[p]
      /\ \A p \in i .. Len(list) : list'[p + 1] = list[p]
  <2>1. Stored + NewItems + 1 \in Nat
    BY <1>1, PaginateAssumption
  <2> QED
    BY <1>1, <1>2, <2>1, Inserted
<1>a. /\ Len(list) \in Nat /\ offset \in Nat /\ offset' = offset /\ i \in Nat /\ i >= 1
      /\ Len(list') = Len(list) + 1
      /\ \A p \in 1 .. i - 1 : list'[p] = list[p]
      /\ \A p \in i .. Len(list) : list'[p + 1] = list[p]
  <2>1. Len(list) \in Nat /\ offset \in Nat /\ offset' = offset
    BY <1>1
  <2> QED
    BY <1>3, <2>1
<1>4. NewItems' = NewItems + 1 /\ NewItems' # 0
  <2>1. /\ Len(list) \in Nat /\ Len(removed) \in Nat /\ NewItems \in Nat
        /\ Len(list') = Len(list) + 1 /\ Len(removed') = Len(removed)
    BY <1>1, <1>3
  <2> QED
    BY <2>1, PaginateAssumption DEF NewItems
<1>5. PageTypes'
  BY <1>1, <1>3, <1>4 DEF PageInv, PageTypes, InsertItem, producer, channels, drain
<1>6. Control'
  BY DEF PageInv, Control, InsertItem, Over, Clean, producer, channels, drain
<1>7. InOrder' /\ FewLost'
  BY <1>4 DEF InOrder, FewLost
<1>8. ASSUME NEW x \in Ahead PROVE x \in Ahead'
  <2>1. PICK p \in 1 .. Len(list) : p > offset /\ list[p] = x
    BY InFront
  <2>2. CASE p < i
    <3>1. p \in 1 .. Len(list') /\ p > offset' /\ list'[p] = x
      BY <1>a, <2>1, <2>2
    <3> QED
      BY <3>1 DEF Ahead
  <2>3. CASE p >= i
    <3>1. p + 1 \in 1 .. Len(list') /\ p + 1 > offset' /\ list'[p + 1] = x
      BY <1>a, <2>1, <2>3
    <3> QED
      BY <3>1 DEF Ahead
  <2> QED
    BY <2>2, <2>3
<1>9. NothingLost'
  BY <1>1, <1>8 DEF PageInv, NothingLost, Held
<1> QED
  BY <1>5, <1>6, <1>7, <1>9 DEF PageInv

(* A removal in front of the cursor hides one item at most.                 *)
LEMMA RemoveStep ==
  ASSUME PageInv, RemoveItem
  PROVE  PageInv'
<1>1. /\ list \in Seq(Nat) /\ received \in Seq(Nat) /\ page \in Seq(Nat) /\ removed \in Seq(Nat)
      /\ Len(list) \in Nat /\ Len(removed) \in Nat /\ offset \in Nat /\ NewItems \in Nat
      /\ page' = page /\ offset' = offset /\ last' = last /\ received' = received
  BY DEF PageInv, PageTypes, RemoveItem, producer, drain
<1>2. PICK i \in 1 .. Len(list) : list' = RemoveAt(list, i) /\ removed' = Append(removed, list[i])
  <2>1. DOMAIN list = 1 .. Len(list)
    BY <1>1
  <2> QED
    BY <2>1 DEF RemoveItem
<1>3. /\ list' \in Seq(Nat) /\ Len(list') = Len(list) - 1
      /\ \A p \in 1 .. i - 1 : list'[p] = list[p]
      /\ \A p \in i .. Len(list) - 1 : list'[p] = list[p + 1]
  BY <1>1, <1>2, Taken
<1>4. /\ removed' \in Seq(Nat) /\ Len(removed') = Len(removed) + 1 /\ removed' # <<>>
      /\ \A p \in 1 .. Len(removed) : removed'[p] = removed[p]
      /\ removed'[Len(removed) + 1] = list[i]
  <2>1. list[i] \in Nat
    BY <1>1
  <2>2. removed \in Seq(Nat)
    BY <1>1
  <2> QED
    BY <1>2, <2>1, <2>2, AppendProperties
<1>a. /\ Len(list) \in Nat /\ offset \in Nat /\ offset' = offset /\ i \in 1 .. Len(list)
      /\ last' = last /\ Len(list') = Len(list) - 1
      /\ \A p \in 1 .. i - 1 : list'[p] = list[p]
      /\ \A p \in i .. Len(list) - 1 : list'[p] = list[p + 1]
  BY <1>1, <1>3
<1>b. /\ Len(removed) \in Nat /\ Len(removed') = Len(removed) + 1
      /\ \A p \in 1 .. Len(removed) : removed'[p] = removed[p]
      /\ removed'[Len(removed) + 1] = list[i]
  BY <1>1, <1>4
<1>5. NewItems' = NewItems
  BY <1>1, <1>3, <1>4, PaginateAssumption DEF NewItems
<1>6. PageTypes'
  BY <1>1, <1>3, <1>4, <1>5 DEF PageInv, PageTypes, RemoveItem, producer, channels, drain
<1>7. Control'
  BY DEF PageInv, Control, RemoveItem, Over, Clean, producer, channels, drain
<1>8. InOrder' /\ NothingLost'
  BY <1>4 DEF InOrder, NothingLost
<1>9. Held' = Held
  BY <1>1 DEF Held
(* Where an item is now, it was, or one place further.                      *)
<1>10. ASSUME NEW p \in 1 .. Len(list')
       PROVE  \E o \in 1 .. Len(list) : o >= p /\ list'[p] = list[o] /\ (o = IF p < i THEN p ELSE p + 1)
  <2>1. CASE p < i
    BY <1>a, <2>1
  <2>2. CASE p >= i
    <3>1. p + 1 \in 1 .. Len(list) /\ list'[p] = list[p + 1]
      BY <1>a, <2>2
    <3> QED
      BY <2>2, <3>1
  <2> QED
    BY <2>1, <2>2
<1>11. FewLost'
  <2> SUFFICES ASSUME NewItems = 0 PROVE FewLost'
    BY <1>5 DEF FewLost
  <2>1. /\ \A a, b \in 1 .. Len(list) : list[a] = list[b] => a = b
        /\ Held \cap Ahead = {}
        /\ Cardinality(Passed) <= Len(removed)
    BY <1>1, Once DEF PageInv, FewLost
  <2>2. IsInjective(list')
    <3>1. ASSUME NEW a \in 1 .. Len(list'), NEW b \in 1 .. Len(list'), list'[a] = list'[b]
          PROVE  a = b
      <4>1. PICK o \in 1 .. Len(list) : list'[a] = list[o] /\ (o = IF a < i THEN a ELSE a + 1)
        BY <1>10
      <4>2. PICK u \in 1 .. Len(list) : list'[b] = list[u] /\ (u = IF b < i THEN b ELSE b + 1)
        BY <1>10
      <4>3. o = u
        BY <2>1, <3>1, <4>1, <4>2
      <4> QED
        BY <1>a, <4>1, <4>2, <4>3
    <3> QED
      BY <1>3, <3>1, Once
  <2>3. ASSUME NEW x \in Ahead' PROVE x \in Ahead
    <3>1. PICK p \in 1 .. Len(list') : p > offset /\ list'[p] = x
      BY <1>1 DEF Ahead
    <3>2. PICK o \in 1 .. Len(list) : o >= p /\ list'[p] = list[o]
      BY <1>10
    <3>3. o > offset
      BY <1>a, <3>1, <3>2
    <3> QED
      BY <3>1, <3>2, <3>3, InFront
  <2>4. last' => Len(list') <= offset'
    BY <1>a DEF PageInv, FewLost
  <2>5. Contains(removed', list[i])
    <3>1. Len(removed) + 1 \in 1 .. Len(removed')
      BY <1>b
    <3> QED
      BY <1>b, <3>1 DEF Contains
  <2>6. ASSUME NEW x, Stayed(x)' PROVE Stayed(x)
    <3> SUFFICES ASSUME NEW p \in 1 .. Len(removed), removed[p] = x PROVE FALSE
      BY DEF Stayed, Contains
    <3>1. p \in 1 .. Len(removed') /\ removed'[p] = x
      BY <1>b
    <3> QED
      BY <2>6, <3>1 DEF Stayed, Contains
(* The one that may have come to lie at the cursor.                         *)
  <2> DEFINE y == list[offset + 1]
  <2>7. ASSUME NEW x \in Passed', x # y PROVE x \in Passed
    <3>1. x \in OptOffset + 1 .. Stored /\ Stayed(x)' /\ x \notin Held /\ x \notin Ahead'
      BY <1>9 DEF Passed
    <3>2. x # list[i]
      BY <2>5, <3>1 DEF Stayed
    <3>3. ASSUME x \in Ahead PROVE FALSE
      <4>1. PICK p \in 1 .. Len(list) : p > offset /\ list[p] = x
        BY <3>3, InFront
      <4>2. p # offset + 1 /\ p # i
        BY <2>7, <3>2, <4>1
      <4>3. CASE p < i
        <5>1. p \in 1 .. Len(list') /\ list'[p] = x
          BY <1>a, <4>1, <4>3
        <5> QED
          BY <1>1, <3>1, <4>1, <5>1 DEF Ahead
      <4>4. CASE p > i
        <5>1. p - 1 \in i .. Len(list) - 1 /\ (p - 1) + 1 = p /\ p - 1 \in 1 .. Len(list')
          BY <1>a, <4>1, <4>4
        <5>2. list'[p - 1] = x /\ p - 1 > offset
          BY <1>a, <4>1, <4>2, <5>1
        <5> QED
          BY <1>1, <3>1, <5>1, <5>2 DEF Ahead
      <4> QED
        BY <4>2, <4>3, <4>4
    <3> QED
      BY <2>6, <3>1, <3>3 DEF Passed
  <2>8. Cardinality(Passed') <= Len(removed')
    <3>1. IsFiniteSet(OptOffset + 1 .. Stored)
      BY PaginateAssumption, FS_Interval
    <3>2. IsFiniteSet(Passed)
      <4>1. Passed \subseteq OptOffset + 1 .. Stored
        BY DEF Passed
      <4> QED
        BY <3>1, <4>1, FS_Subset
    <3>3. Passed' \subseteq Passed \cup {y}
      BY <2>7
    <3>4. /\ IsFiniteSet(Passed \cup {y})
          /\ Cardinality(Passed \cup {y}) \in {Cardinality(Passed), Cardinality(Passed) + 1}
      <4> HIDE DEF y
      <4> QED
        BY <3>2, FS_AddElement
    <3> HIDE DEF y
    <3>5. Cardinality(Passed') <= Cardinality(Passed \cup {y})
      BY <3>3, <3>4, FS_Subset
    <3>6. Cardinality(Passed) \in Nat /\ Cardinality(Passed') \in Nat
      BY <3>2, <3>3, <3>4, FS_Subset, FS_CardinalityType
    <3> QED
      BY <1>1, <1>4, <2>1, <3>4, <3>5, <3>6
  <2>9. Held' \cap Ahead' = {}
    BY <1>9, <2>1, <2>3
  <2> QED
    BY <1>1, <2>2, <2>4, <2>8, <2>9 DEF PageInv, FewLost
<1> QED
  BY <1>6, <1>7, <1>8, <1>11 DEF PageInv

(* The other steps change neither what was read nor the list.               *)
LEMMA ReadingKept ==
  ASSUME PageInv, PageTypes', Control',
         UNCHANGED <<list, removed, offset, page, last, received>>
  PROVE  PageInv'
<1>1. NewItems' = NewItems /\ Held' = Held /\ Ahead' = Ahead /\ Passed' = Passed
  BY DEF NewItems, Held, Ahead, Passed, Stayed
<1> QED
  BY <1>1 DEF PageInv, InOrder, NothingLost, FewLost

(* Every step keeps the invariant.                                          *)
LEMMA PageStep == PageInv /\ [Next]_vars => PageInv'
<1> SUFFICES ASSUME PageInv, [Next]_vars PROVE PageInv'
  OBVIOUS
<1>0. PageTypes /\ Control
  BY DEF PageInv
<1>1. CASE FetchPage
  BY <1>1, FetchStep
<1>2. CASE Emit
  BY <1>2, EmitStep
<1>3. CASE InsertItem
  BY <1>3, InsertStep
<1>4. CASE RemoveItem
  BY <1>4, RemoveStep
<1> USE DEF producer, channels, drain, server
<1>a. CASE UNCHANGED <<list, removed, offset, page, last, received>>
  <2>0. NewItems' = NewItems
    BY <1>a DEF NewItems
  <2> SUFFICES PageTypes' /\ Control'
    BY <1>a, ReadingKept
  <2> USE <1>0, <1>a, <2>0 DEF PageTypes, Control, Over, Clean
  <2>1. CASE PageBlocked
    BY <2>1 DEF PageBlocked
  <2>2. CASE FetchFails \/ EmitCancelled
    <3>1. PICK e \in {"ctx", "fetch"} : SendError(e)
      BY <2>2 DEF FetchFails, EmitCancelled
    <3>2. /\ errs' \in Seq({"ctx", "fetch"}) /\ errs' # <<>>
          /\ pc' = "close" /\ pc \in {"fetch", "emit"}
          /\ UNCHANGED <<outOpen, consumer, result>>
      <4>1. /\ errs' = Append(errs, e) /\ pc' = "close" /\ pc \in {"fetch", "emit"}
            /\ UNCHANGED <<outOpen, consumer, result>>
        BY <2>2, <3>1 DEF FetchFails, EmitCancelled, SendError
      <4>2. errs \in Seq({"ctx", "fetch"})
        OBVIOUS
      <4> QED
        <5> DEFINE S == {"ctx", "fetch"}
        <5>1. e \in S /\ errs \in Seq(S)
          BY <4>2
        <5> HIDE DEF S
        <5>2. Append(errs, e) \in Seq(S) /\ Append(errs, e) # <<>>
          BY <5>1, AppendProperties
        <5> QED
          BY <4>1, <5>2 DEF S
    <3> QED
      BY <3>2
  <2>3. CASE CloseErrs \/ CloseOut
    BY <2>3 DEF CloseErrs, CloseOut
  <2>4. CASE RangeEnds \/ Abandon \/ Cancel
    BY <2>4 DEF RangeEnds, Abandon, Cancel
  <2>5. CASE ReceiveError
    <3>1. CASE errs # <<>>
      <4>1. /\ errs' \in Seq({"ctx", "fetch"}) /\ result' \in {"ctx", "fetch"}
            /\ consumer' = "returned" /\ consumer = "errs" /\ UNCHANGED <<pc, outOpen>>
        BY <2>5, <3>1, HeadTailProperties DEF ReceiveError
      <4> QED
        BY <4>1
    <3>2. CASE errs = <<>>
      BY <2>5, <3>2 DEF ReceiveError
    <3> QED
      BY <3>1, <3>2
  <2>6. CASE UNCHANGED vars
    BY <2>6 DEF vars
  <2>7. CASE FetchPage \/ Emit \/ InsertItem \/ RemoveItem
    BY <1>1, <1>2, <1>3, <1>4, <2>7 DEF PageInv
  <2> QED
    BY <2>1, <2>2, <2>3, <2>4, <2>5, <2>6, <2>7 DEF Next, Produce, Drain
<1>b. \/ FetchPage \/ Emit \/ InsertItem \/ RemoveItem
      \/ UNCHANGED <<list, removed, offset, page, last, received>>
  BY DEF Next, Produce, Drain, PageBlocked, FetchFails, EmitCancelled, SendError, CloseErrs,
         CloseOut, RangeEnds, Abandon, Cancel, ReceiveError, vars
<1> QED
  BY <1>1, <1>2, <1>3, <1>4, <1>a, <1>b

-----------------------------------------------------------------------------
(* Theorems                                                                 *)

(* The inductive invariant of the reading.                                  *)
THEOREM PageInvariant == Spec => []PageInv
BY PageInit, PageStep, PTL DEF Spec

(* The drain that returns no error, of BRAIN's own pages, has read all that *)
(* the cursor reached.                                                      *)
LEMMA Drained ==
  ASSUME PageInv, Complete
  PROVE  last /\ page = <<>> /\ Held = Range(received)
<1>1. last /\ page = <<>>
  BY DEF PageInv, Control, Complete, Over, Clean
<1> QED
  BY <1>1, NoValues DEF Held

(* What is collected from a list that stays as it is, at any time and at    *)
(* the end.                                                                 *)
THEOREM ListIsRead == Spec => []UnchangedListIsRead
<1>1. PageInv => UnchangedListIsRead
  <2> SUFFICES ASSUME PageInv, NewItems = 0, removed = <<>>
               PROVE  LET wanted == SubSeq(list, OptOffset + 1, Len(list)) IN
                      /\ IsPrefix(received, wanted)
                      /\ Complete => received = wanted
    BY DEF UnchangedListIsRead
  <2> DEFINE wanted == SubSeq(list, OptOffset + 1, Len(list))
  <2>1. /\ list \in Seq(Nat) /\ received \in Seq(Nat) /\ page \in Seq(Nat)
        /\ Len(list) \in Nat /\ Len(received) \in Nat /\ Len(page) \in Nat
        /\ Len(list) = Stored
    BY PaginateAssumption DEF PageInv, PageTypes, NewItems
  <2>2. /\ \A i \in 1 .. Stored : list[i] = i
        /\ \A i \in 1 .. Len(received) : received[i] = OptOffset + i
        /\ offset = OptOffset + Len(received) + Len(page)
        /\ offset = OptOffset \/ offset <= Stored
        /\ last => Stored <= offset
    BY <2>1 DEF PageInv, InOrder
  <2>3. CASE Stored < OptOffset
    <3>1. offset = OptOffset /\ Len(received) = 0
      BY <2>1, <2>2, <2>3, PaginateAssumption
    <3>2. received = <<>>
      BY <2>1, <3>1
    <3>3. wanted = <<>>
      BY <2>1, <2>3, PaginateAssumption, SubSeqEmpty
    <3>4. IsPrefix(<<>>, <<>>)
      BY DEF IsPrefix
    <3> QED
      BY <3>2, <3>3, <3>4
  <2>4. CASE OptOffset <= Stored
    <3> DEFINE m == OptOffset + 1
    <3>1. m \in Nat /\ 1 <= m /\ m <= Len(list) + 1 /\ m - 1 = OptOffset
      BY <2>1, <2>4, PaginateAssumption
    <3>2. /\ wanted \in Seq(Nat) /\ Len(wanted) = Len(list) + 1 - m
          /\ \A p \in 1 .. Len(list) + 1 - m : wanted[p] = list[m - 1 + p]
      <4>0. list \in Seq(Nat) /\ Len(list) \in Nat /\ Len(list) <= Len(list)
        BY <2>1
      <4> HIDE DEF m
      <4>1. /\ SubSeq(list, m, Len(list)) \in Seq(Nat)
            /\ Len(SubSeq(list, m, Len(list))) = Len(list) + 1 - m
            /\ \A p \in 1 .. Len(list) + 1 - m : SubSeq(list, m, Len(list))[p] = list[m - 1 + p]
        BY <3>1, <4>0, Piece
      <4> QED
        BY <4>1 DEF m
    <3> HIDE DEF wanted
    <3>3. /\ wanted \in Seq(Nat) /\ Len(wanted) = Stored - OptOffset
          /\ \A p \in 1 .. Len(wanted) : wanted[p] = OptOffset + p
      BY <2>1, <2>2, <2>4, <3>1, <3>2, PaginateAssumption
    <3>4. Len(received) <= Len(wanted)
      BY <2>1, <2>2, <2>4, <3>3, PaginateAssumption
    <3>5. \A p \in 1 .. Len(received) : received[p] = wanted[p]
      BY <2>1, <2>2, <3>3, <3>4
    <3>6. IsPrefix(received, wanted)
      <4>1. /\ SubSeq(wanted, 1, Len(received)) \in Seq(Nat)
            /\ Len(SubSeq(wanted, 1, Len(received))) = Len(received) + 1 - 1
            /\ \A p \in 1 .. Len(received) + 1 - 1 :
                 SubSeq(wanted, 1, Len(received))[p] = wanted[1 - 1 + p]
        BY <2>1, <3>3, <3>4, Piece
      <4>2. SubSeq(received, 1, Len(received)) = received
        BY <2>1, SubSeqFull
      <4>3. SubSeq(wanted, 1, Len(received)) = received
        BY <2>1, <3>5, <4>1, SeqEqual
      <4> QED
        BY <3>4, <4>2, <4>3 DEF IsPrefix
    <3>7. Complete => received = wanted
      <4> SUFFICES ASSUME Complete PROVE received = wanted
        OBVIOUS
      <4>1. last /\ page = <<>>
        BY Drained
      <4>2. Len(received) = Len(wanted)
        BY <2>1, <2>2, <2>4, <3>3, <3>4, <4>1, PaginateAssumption
      <4> QED
        BY <2>1, <3>3, <3>5, <4>2, SeqEqual
    <3> QED
      BY <3>6, <3>7 DEF wanted
  <2> QED
    BY <2>3, <2>4, PaginateAssumption
<1> QED
  BY <1>1, PageInvariant, PTL

(* Insertions hide no item, however many there are and wherever they go.    *)
THEOREM InsertionsAreHarmless == Spec => []InsertionsHideNothing
<1>1. PageInv => InsertionsHideNothing
  <2> SUFFICES ASSUME PageInv, removed = <<>>, Complete, NEW x \in OptOffset + 1 .. Stored
               PROVE  Contains(received, x)
    BY DEF InsertionsHideNothing
  <2>1. x \in Range(received)
    BY Drained DEF PageInv, NothingLost
  <2> QED
    BY <2>1, Values DEF PageInv, PageTypes
<1> QED
  BY <1>1, PageInvariant, PTL

(* Removals repeat no item and hide at most one each.                       *)
THEOREM RemovalsAreBounded == Spec => []RemovalsHideFew
<1>1. PageInv => RemovalsHideFew
  <2> SUFFICES ASSUME PageInv, NewItems = 0
               PROVE  /\ IsInjective(received)
                      /\ Complete =>
                           Cardinality({x \in OptOffset + 1 .. Stored :
                                          Stayed(x) /\ ~Contains(received, x)}) <= Len(removed)
    BY DEF RemovalsHideFew
  <2>1. /\ IsInjective(received) /\ Cardinality(Passed) <= Len(removed)
        /\ last => Len(list) <= offset
    BY DEF PageInv, FewLost
  <2>2. ASSUME Complete
        PROVE  {x \in OptOffset + 1 .. Stored : Stayed(x) /\ ~Contains(received, x)} = Passed
    <3>1. Len(list) <= offset /\ Held = Range(received)
      BY <2>1, <2>2, Drained
    <3>2. Ahead = {}
      BY <3>1 DEF Ahead, PageInv, PageTypes
    <3>3. \A x : Contains(received, x) <=> x \in Held \cup Ahead
      BY <3>1, <3>2, Values DEF PageInv, PageTypes
    <3> QED
      BY <3>3 DEF Passed
  <2> QED
    BY <2>1, <2>2
<1> QED
  BY <1>1, PageInvariant, PTL

-----------------------------------------------------------------------------
(* A drain runs out of steps, and is never stuck                            *)

(* The items the list can still have behind the cursor, whatever is         *)
(* inserted from now on.                                                    *)
AheadAtMost == IF offset < Stored + MaxNew THEN Stored + MaxNew - offset ELSE 0

ProducerFuel ==
  CASE pc \in {"fetch", "emit"} -> 2 * AheadAtMost + Len(page) + 3
    [] pc = "close" -> 2
    [] pc = "closeOut" -> 1
    [] pc = "ended" -> 0

ConsumerFuel ==
  CASE consumer = "range" -> 2
    [] consumer = "errs" -> 1
    [] consumer \in {"returned", "gone"} -> 0

(* The measure of a drain: a page for each item that may be left, the item, *)
(* the closing of the channels, and the consumer's own steps.               *)
DrainFuel == ProducerFuel + ConsumerFuel

Done == pc = "ended" /\ consumer \in {"returned", "gone"}

MostDrainSteps == 2 * (Stored + MaxNew) + 5

DrainBounded ==
  /\ DrainFuel \in 0 .. MostDrainSteps
  /\ DrainFuel = 0 <=> Done

(* What a step may do to it: those of the goroutine and of its consumer     *)
(* lower it, and nothing raises it, an insertion neither.                   *)
DrainBurns ==
  /\ DrainFuel' <= DrainFuel
  /\ Produce \/ Drain \/ Abandon => DrainFuel' < DrainFuel

(* The guards of the goroutine and of its consumer: one of them can take a  *)
(* step.                                                                    *)
CanMove ==
  \/ pc \in {"fetch", "close", "closeOut"}
  \/ pc = "emit" /\ (consumer = "range" \/ cancelled)
  \/ consumer = "range" /\ ~outOpen
  \/ consumer = "errs" /\ (errs # <<>> \/ ~errsOpen)

(* What is open, who may leave, and how many items there can be.            *)
ChannelInv ==
  /\ errsOpen \in BOOLEAN /\ outOpen \in BOOLEAN /\ cancelled \in BOOLEAN
  /\ ~errsOpen <=> pc \in {"closeOut", "ended"}
  /\ ~outOpen <=> pc = "ended"
  /\ consumer = "gone" => cancelled
  /\ NewItems <= MaxNew

(* It holds at first, and each step keeps it.                               *)
LEMMA ChannelsKept ==
  /\ Init => ChannelInv
  /\ PageInv /\ PageInv' /\ ChannelInv /\ [Next]_vars => ChannelInv'
<1>1. ASSUME Init PROVE ChannelInv
  <2>1. Len(list) = Stored
    <3>1. list \in Seq(Nat) /\ DOMAIN list = 1 .. Stored
      BY <1>1, PageInit, PaginateAssumption DEF Init, PageInv, PageTypes
    <3> QED
      BY <3>1, PaginateAssumption, LenProperties
  <2>2. NewItems = 0
    BY <1>1, <2>1, PaginateAssumption DEF Init, NewItems
  <2>3. NewItems <= MaxNew
    BY <2>2, PaginateAssumption
  <2> QED
    BY <1>1, <2>3, ZenonT(20) DEF Init, ChannelInv
<1>2. ASSUME PageInv, PageInv', ChannelInv, [Next]_vars PROVE ChannelInv'
  <2>1. NewItems' <= MaxNew
    <3>1. NewItems \in Nat /\ NewItems <= MaxNew /\ MaxNew \in Nat /\ Stored \in Nat
      BY <1>2, PaginateAssumption DEF PageInv, PageTypes, ChannelInv
    <3>2. CASE UNCHANGED server
      BY <3>1, <3>2 DEF server, NewItems
    <3>3. CASE InsertItem
      <4>1. PICK i \in 1 .. Len(list) + 1 : list' = InsertAt(list, i, Stored + NewItems + 1)
        BY <3>3 DEF InsertItem
      <4>2. Len(list') = Len(list) + 1 /\ Len(list) \in Nat
        <5>1. Stored + NewItems + 1 \in Nat /\ list \in Seq(Nat) /\ Len(list) \in Nat
          BY <1>2, <3>1 DEF PageInv, PageTypes
        <5>2. Len(InsertAt(list, i, Stored + NewItems + 1)) = Len(list) + 1
          BY <5>1, Inserted, Zenon
        <5> QED
          BY <4>1, <5>1, <5>2
      <4>3. Len(removed') = Len(removed) /\ Len(removed) \in Nat /\ NewItems < MaxNew
        BY <1>2, <3>3 DEF InsertItem, PageInv, PageTypes
      <4> QED
        BY <3>1, <4>2, <4>3 DEF NewItems
    <3>4. CASE RemoveItem
      <4>1. PICK i \in DOMAIN list :
              list' = RemoveAt(list, i) /\ removed' = Append(removed, list[i])
        BY <3>4 DEF RemoveItem
      <4>2. i \in 1 .. Len(list) /\ Len(list) \in Nat /\ list[i] \in Nat
        BY <1>2, <4>1, SMTT(40) DEF PageInv, PageTypes
      <4>3. Len(list') = Len(list) - 1
        BY <1>2, <4>1, <4>2, Taken DEF PageInv, PageTypes
      <4>4. Len(removed') = Len(removed) + 1 /\ Len(removed) \in Nat
        BY <1>2, <4>1, <4>2 DEF PageInv, PageTypes
      <4> QED
        BY <3>1, <4>2, <4>3, <4>4 DEF NewItems
    <3> QED
      BY <1>2, <3>2, <3>3, <3>4
      DEF Next, Produce, Drain, FetchPage, PageBlocked, FetchFails, Emit, EmitCancelled,
          CloseErrs, CloseOut, RangeEnds, ReceiveError, Abandon, Cancel, vars
  <2>2. (ChannelInv!1 /\ ChannelInv!2 /\ ChannelInv!3 /\ ChannelInv!4)'
    <3>1. ChannelInv!1 /\ ChannelInv!2 /\ ChannelInv!3 /\ ChannelInv!4
      BY <1>2 DEF ChannelInv
    <3>2. CASE FetchPage \/ PageBlocked \/ FetchFails \/ Emit \/ EmitCancelled
      <4>1. /\ UNCHANGED <<errsOpen, outOpen, cancelled, consumer>>
            /\ pc \in {"fetch", "emit"} /\ pc' \in {"fetch", "emit", "close"}
        BY <3>2 DEF FetchPage, PageBlocked, FetchFails, SendError, Emit, EmitCancelled, drain, channels
      <4> QED
        BY <3>1, <4>1
    <3>3. CASE CloseErrs \/ CloseOut
      <4>1. CASE CloseErrs
        <5>1. /\ UNCHANGED <<outOpen, cancelled, consumer>> /\ errsOpen' = FALSE
              /\ pc = "close" /\ pc' = "closeOut"
          BY <4>1 DEF CloseErrs, drain
        <5> QED
          BY <3>1, <5>1
      <4>2. CASE CloseOut
        <5>1. /\ UNCHANGED <<errsOpen, cancelled, consumer>> /\ outOpen' = FALSE
              /\ pc = "closeOut" /\ pc' = "ended"
          BY <4>2 DEF CloseOut, drain
        <5> QED
          BY <3>1, <5>1
      <4> QED
        BY <3>3, <4>1, <4>2
    <3>4. CASE RangeEnds \/ ReceiveError \/ Abandon
      BY <3>1, <3>4 DEF RangeEnds, ReceiveError, Abandon, producer, channels
    <3>5. CASE Cancel
      BY <3>1, <3>5 DEF Cancel, producer, channels, drain
    <3>6. CASE InsertItem \/ RemoveItem
      BY <3>1, <3>6 DEF InsertItem, RemoveItem, producer, channels, drain
    <3>7. CASE UNCHANGED vars
      BY <3>1, <3>7 DEF vars, producer, channels, drain
    <3> QED
      BY <1>2, <3>2, <3>3, <3>4, <3>5, <3>6, <3>7 DEF Next, Produce, Drain
  <2> QED
    BY <2>1, <2>2 DEF ChannelInv
<1> QED
  BY <1>1, <1>2

(* Sums and doubles that go down.                                           *)
LEMMA GoesDown ==
  /\ \A p, q, c, d \in Nat : (p < q /\ c = d) \/ (p = q /\ c < d) => p + c < q + d
  /\ \A p, q \in Nat : p < q => p <= q
  /\ \A a, b, k, m \in Nat : a = b + k /\ k > 0 => 2 * b + k + 3 < 2 * a + m + 3
  /\ \A a, k, m \in Nat : m = k + 1 => 2 * a + k + 3 < 2 * a + m + 3
  /\ \A a, m \in Nat : 2 < 2 * a + m + 3
OBVIOUS

(* The measure is a number, and it is spent when all is over.               *)
LEMMA DrainFuelType ==
  ASSUME PageInv
  PROVE  /\ AheadAtMost \in Nat /\ Len(page) \in Nat
         /\ ProducerFuel \in Nat /\ ConsumerFuel \in Nat /\ DrainFuel \in Nat
         /\ DrainFuel = 0 <=> Done
<1>1. /\ offset \in Nat /\ Len(page) \in Nat
      /\ pc \in {"fetch", "emit", "close", "closeOut", "ended"}
      /\ consumer \in {"range", "errs", "returned", "gone"}
  BY DEF PageInv, PageTypes
<1>2. AheadAtMost \in Nat
  BY <1>1, PaginateAssumption DEF AheadAtMost
<1>3. /\ ProducerFuel \in Nat
      /\ ProducerFuel = 0 <=> pc = "ended"
  BY <1>1, <1>2 DEF ProducerFuel
<1>4. /\ ConsumerFuel \in Nat
      /\ ConsumerFuel = 0 <=> consumer \in {"returned", "gone"}
  BY <1>1 DEF ConsumerFuel
<1> QED
  BY <1>1, <1>2, <1>3, <1>4 DEF DrainFuel, Done

(* Each step of the goroutine and of its consumer burns fuel.               *)
LEMMA DrainStepBurns ==
  ASSUME PageInv, PageInv', ChannelInv, Next
  PROVE  DrainBurns
<1>0. /\ AheadAtMost \in Nat /\ Len(page) \in Nat
      /\ ProducerFuel \in Nat /\ ConsumerFuel \in Nat
      /\ AheadAtMost' \in Nat /\ Len(page') \in Nat
      /\ ProducerFuel' \in Nat /\ ConsumerFuel' \in Nat
  <2>1. (AheadAtMost \in Nat /\ Len(page) \in Nat /\ ProducerFuel \in Nat /\ ConsumerFuel \in Nat)'
    BY DrainFuelType, PTL
  <2> QED
    BY <2>1, DrainFuelType
<1>1. ASSUME UNCHANGED <<pc, offset, page>> PROVE ProducerFuel' = ProducerFuel
  BY <1>1 DEF ProducerFuel, AheadAtMost
<1>2. ASSUME UNCHANGED consumer PROVE ConsumerFuel' = ConsumerFuel
  BY <1>2 DEF ConsumerFuel
<1>a. ASSUME DrainFuel' < DrainFuel PROVE DrainBurns
  <2>1. DrainFuel \in Nat /\ DrainFuel' \in Nat
    <3>1. (DrainFuel \in Nat)'
      BY DrainFuelType, PTL
    <3> QED
      BY <3>1, DrainFuelType
  <2>2. DrainFuel' <= DrainFuel
    BY <1>a, <2>1, GoesDown, Zenon
  <2> QED
    BY <1>a, <2>2, Zenon DEF DrainBurns
<1>3. ASSUME ProducerFuel' < ProducerFuel, UNCHANGED consumer PROVE DrainBurns
  <2>1. DrainFuel' < DrainFuel
    BY <1>0, <1>2, <1>3, GoesDown, ZenonT(20) DEF DrainFuel
  <2> QED
    BY <1>a, <2>1
<1>4. ASSUME UNCHANGED <<pc, offset, page>>, ConsumerFuel' < ConsumerFuel PROVE DrainBurns
  <2>1. DrainFuel' < DrainFuel
    BY <1>0, <1>1, <1>4, GoesDown, ZenonT(20) DEF DrainFuel
  <2> QED
    BY <1>a, <2>1
<1>5. CASE FetchPage
  <2>1. /\ pc = "fetch" /\ page' = PageAt(offset) /\ offset' = offset + Len(page')
        /\ pc' = IF page' = <<>> THEN "close" ELSE "emit"
        /\ consumer' = consumer
    BY <1>5 DEF FetchPage, Advance, drain
  <2>2. page = <<>> /\ offset \in Nat /\ page' \in Seq(Nat)
    BY <2>1 DEF PageInv, PageTypes, Control
  <2>3. CASE page' = <<>>
    <3>1. ProducerFuel' = 2 /\ ProducerFuel = 2 * AheadAtMost + Len(page) + 3
      BY <2>1, <2>3 DEF ProducerFuel
    <3> QED
      BY <1>0, <1>3, <2>1, <3>1
  <2>4. CASE page' # <<>>
    <3>1. Len(page') > 0
      BY <2>2, <2>4
    <3>2. offset' <= Len(list)
      BY <2>1, <3>1, PageOfList DEF PageInv
    <3>3. Len(list) <= Stored + MaxNew
      BY PaginateAssumption DEF ChannelInv, NewItems, PageInv, PageTypes
    <3>4. AheadAtMost = AheadAtMost' + Len(page')
      <4>1. offset' <= Stored + MaxNew /\ offset' = offset + Len(page') /\ Len(list) \in Nat
        BY <1>0, <2>1, <2>2, <3>2, <3>3, PaginateAssumption, SMTT(40) DEF PageInv, PageTypes
      <4>2. AheadAtMost' = Stored + MaxNew - offset' /\ AheadAtMost = Stored + MaxNew - offset
        BY <1>0, <2>2, <3>1, <4>1, PaginateAssumption DEF AheadAtMost
      <4> QED
        BY <1>0, <2>2, <4>1, <4>2, PaginateAssumption
    <3>5. /\ ProducerFuel' = 2 * AheadAtMost' + Len(page') + 3
          /\ ProducerFuel = 2 * AheadAtMost + Len(page) + 3
      BY <2>1, <2>4 DEF ProducerFuel
    <3>6. ProducerFuel' < ProducerFuel
      BY <1>0, <3>1, <3>4, <3>5, GoesDown, ZenonT(20)
    <3> QED
      BY <1>3, <2>1, <3>6
  <2> QED
    BY <2>3, <2>4
<1>6. CASE PageBlocked \/ FetchFails \/ EmitCancelled
  <2>1. pc \in {"fetch", "emit"} /\ pc' = "close" /\ consumer' = consumer
    BY <1>6 DEF PageBlocked, FetchFails, EmitCancelled, SendError, drain
  <2>2. ProducerFuel' = 2 /\ ProducerFuel = 2 * AheadAtMost + Len(page) + 3
    BY <2>1 DEF ProducerFuel
  <2>3. ProducerFuel' < ProducerFuel
    BY <1>0, <2>2, GoesDown, ZenonT(20)
  <2> QED
    BY <1>3, <2>1, <2>3
<1>7. CASE Emit
  <2>1. /\ pc = "emit" /\ page' = Tail(page) /\ pc' \in {"emit", "close", "fetch"}
        /\ offset' = offset /\ consumer' = consumer
    BY <1>7 DEF Emit
  <2>2. page \in Seq(Nat) /\ page # <<>>
    BY <2>1 DEF PageInv, PageTypes, Control
  <2>3. Len(page) = Len(page') + 1
    BY <2>1, <2>2
  <2>4. AheadAtMost' = AheadAtMost
    BY <2>1 DEF AheadAtMost
  <2>5. /\ ProducerFuel = 2 * AheadAtMost + Len(page) + 3
        /\ ProducerFuel' = 2 * AheadAtMost' + Len(page') + 3 \/ ProducerFuel' = 2
    BY <2>1 DEF ProducerFuel
  <2>6. ProducerFuel' < ProducerFuel
    BY <1>0, <2>3, <2>4, <2>5, GoesDown, ZenonT(60)
  <2> QED
    BY <1>3, <2>1, <2>6
<1>8. CASE CloseErrs \/ CloseOut
  <2>1. ProducerFuel' < ProducerFuel /\ consumer' = consumer
    BY <1>8 DEF CloseErrs, CloseOut, ProducerFuel, drain
  <2> QED
    BY <1>3, <2>1
<1>9. CASE RangeEnds \/ ReceiveError \/ Abandon
  <2>1. /\ UNCHANGED <<pc, offset, page>>
        /\ \/ consumer = "range" /\ consumer' \in {"errs", "gone"}
           \/ consumer = "errs" /\ consumer' = "returned"
    BY <1>9 DEF RangeEnds, ReceiveError, Abandon, producer
  <2>2. ConsumerFuel' < ConsumerFuel
    BY <2>1 DEF ConsumerFuel
  <2> QED
    BY <1>4, <2>1, <2>2
<1>10. CASE Cancel \/ InsertItem \/ RemoveItem
  <2>1. UNCHANGED <<pc, offset, page, consumer, errs>>
    BY <1>10 DEF Cancel, InsertItem, RemoveItem, producer, drain, channels
  <2>2. DrainFuel' = DrainFuel
    BY <1>1, <1>2, <2>1 DEF DrainFuel
  <2>3. ~Produce
    <3>1. ~(PageBlocked \/ FetchFails \/ EmitCancelled \/ CloseErrs \/ CloseOut)
      BY <2>1 DEF PageBlocked, FetchFails, EmitCancelled, SendError, CloseErrs, CloseOut
    <3>2. ~FetchPage
      BY <2>1 DEF FetchPage
    <3>3. ~Emit
      <4>1. ASSUME Emit PROVE FALSE
        <5>1. page \in Seq(Nat) /\ page # <<>> /\ page' = Tail(page)
          BY <4>1 DEF Emit, PageInv, PageTypes, Control
        <5>2. Len(page') # Len(page)
          BY <5>1
        <5> QED
          BY <2>1, <5>2
      <4> QED
        BY <4>1
    <3> QED
      BY <3>1, <3>2, <3>3 DEF Produce
  <2>4. ~Drain /\ ~Abandon
    BY <2>1 DEF Drain, RangeEnds, ReceiveError, Abandon
  <2>5. DrainFuel \in Nat
    BY DrainFuelType
  <2> QED
    BY <2>2, <2>3, <2>4, <2>5 DEF DrainBurns
<1> QED
  BY <1>5, <1>6, <1>7, <1>8, <1>9, <1>10 DEF Next, Produce, Drain

(* A drain takes boundedly many steps, two for each item the list can come  *)
(* to hold and five more, for a list of any length that changes while it is *)
(* read; and when they are spent the goroutine has ended and its consumer   *)
(* is gone or has its answer.                                               *)
THEOREM DrainRunsOut == Spec => []DrainBounded /\ [][DrainBurns]_vars
<1> DEFINE Few == DrainFuel <= MostDrainSteps
<1>1. Spec => []PageInv
  BY PageInvariant
<1>2. Init => Few
  <2> SUFFICES ASSUME Init PROVE DrainFuel <= MostDrainSteps
    OBVIOUS
  <2>1. PageInv /\ Len(page) = 0 /\ pc = "fetch" /\ consumer = "range"
    BY PageInit DEF Init
  <2>2. DrainFuel = 2 * AheadAtMost + 5
    BY <2>1, DrainFuelType DEF DrainFuel, ProducerFuel, ConsumerFuel
  <2>3. AheadAtMost <= Stored + MaxNew
    BY <2>1, PaginateAssumption DEF AheadAtMost, PageInv, PageTypes
  <2> QED
    BY <2>1, <2>2, <2>3, DrainFuelType, PaginateAssumption DEF MostDrainSteps
<1>3. PageInv /\ PageInv' /\ ChannelInv /\ [Next]_vars => [DrainBurns]_vars
  BY DrainStepBurns
<1>4. PageInv /\ PageInv' /\ Few /\ [DrainBurns]_vars => Few'
  <2> SUFFICES ASSUME PageInv, PageInv', Few, [DrainBurns]_vars PROVE Few'
    OBVIOUS
  <2>1. DrainFuel' <= DrainFuel
    <3>1. CASE DrainBurns
      BY <3>1 DEF DrainBurns
    <3>2. CASE UNCHANGED vars
      <4>1. DrainFuel' = DrainFuel
        BY <3>2 DEF vars, producer, drain, DrainFuel, ProducerFuel, ConsumerFuel, AheadAtMost
      <4> QED
        BY <4>1, DrainFuelType
    <3> QED
      BY <3>1, <3>2
  <2>2. (DrainFuel \in Nat)'
    BY DrainFuelType, PTL
  <2>3. MostDrainSteps \in Nat /\ DrainFuel \in Nat
    BY DrainFuelType, PaginateAssumption DEF MostDrainSteps
  <2> QED
    BY <2>1, <2>2, <2>3 DEF MostDrainSteps
<1>5. PageInv /\ Few => DrainBounded
  BY DrainFuelType, PaginateAssumption DEF DrainBounded, MostDrainSteps
<1> HIDE DEF Few
<1> QED
  BY <1>1, <1>2, <1>3, <1>4, <1>5, ChannelsKept, PTL DEF Spec

(* Until then nobody waits for the other for good: either the goroutine or  *)
(* its consumer can take a step, with the channel unbuffered, the error     *)
(* channel closed first, and a consumer that leaves only once its context   *)
(* is done.                                                                 *)
THEOREM NeverStuck == Spec => [](CanMove \/ Done)
<1>1. PageInv /\ ChannelInv => CanMove \/ Done
  BY DEF PageInv, PageTypes, Control, ChannelInv, CanMove, Done
<1> QED
  BY <1>1, PageInvariant, ChannelsKept, PTL DEF Spec

=============================================================================
