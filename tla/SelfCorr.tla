------------------------------ MODULE SelfCorr ------------------------------
(***************************************************************************)
(* Local self-correlation: the worst Pearson correlation of a candidate's  *)
(* daily returns with those of its neighbours, over the dates they share.  *)
(*                                                                         *)
(* A series is a sequence, in any order, of records [date, value] with     *)
(* distinct dates; dates are days, values integers or NaN for a value that *)
(* is not finite.  A correlation is exact, num over the square root of     *)
(* den, where the code rounds.  The code's algorithms come first, then     *)
(* what they compute, defined over sets of dates.                          *)
(***************************************************************************)
EXTENDS Integers, Sequences, FiniteSets, SequencesExt, FiniteSetsExt

CONSTANTS
  NaN,            \* a model value
  TrimDays,       \* corrTrimYears, in days
  MinOverlapDays, \* minOverlapDays
  CorrTopK        \* corrTopK

ASSUME SelfCorrAssumption ==
  /\ NaN \notin Int
  /\ TrimDays \in Nat
  /\ MinOverlapDays \in Nat \ {0}
  /\ CorrTopK \in Nat \ {0}

IsFinite(v) == v # NaN

(* The k-th smallest of a set of numbers.                                   *)
Nth(S, k) == CHOOSE x \in S : Cardinality({y \in S : y <= x}) = k

(* What a sequence has at these places, in their order.                     *)
Kept(seq, places) == [k \in 1 .. Cardinality(places) |-> seq[Nth(places, k)]]

(* What corr-local is given: no two records of a series have one date.      *)
IsPnL(records) ==
  /\ records \in Seq([date : Int, value : Int \cup {NaN}])
  /\ \A i, j \in DOMAIN records : records[i].date = records[j].date => i = j

IsInput(in) ==
  /\ IsPnL(in.candidate.records)
  /\ Len(in.neighbours) \in Nat /\ DOMAIN in.neighbours = 1 .. Len(in.neighbours)
  /\ \A i \in DOMAIN in.neighbours : IsPnL(in.neighbours[i].records)

-----------------------------------------------------------------------------
(* The code                                                                 *)

(* sort.Slice: the order is that of the dates, since no two are the same.   *)
ByDate(series) ==
  LET dates == {series[i].date : i \in DOMAIN series}
  IN [k \in DOMAIN series |->
        series[CHOOSE i \in DOMAIN series : series[i].date = Nth(dates, k)]]

(* The trailing window ends at the last finite record.                      *)
TrimPnLToYears(records) ==
  LET clean == ByDate(Kept(records, {i \in DOMAIN records : IsFinite(records[i].value)}))
  IN IF clean = <<>> THEN clean
     ELSE Kept(clean, {i \in DOMAIN clean : clean[i].date >= Last(clean).date - TrimDays})

(* A value that is not finite leaves prev alone.                            *)
ReturnStep(acc, p) ==
  IF IsFinite(p.value)
  THEN [prev |-> p.value,
        out |-> Append(acc.out, [date |-> p.date, ret |-> p.value - acc.prev])]
  ELSE acc

(* The first finite value seeds the differences and has no return itself.   *)
PnLToReturns(records) ==
  LET sorted == ByDate(records)
      seed == SelectInSeq(sorted, LAMBDA p : IsFinite(p.value))
  IN IF Len(records) < 2 \/ seed = 0 THEN <<>>
     ELSE FoldLeft(ReturnStep, [prev |-> sorted[seed].value, out |-> <<>>],
                   SubSeq(sorted, seed + 1, Len(sorted))).out

(* The body of the merge, at a[i] and b[j].                                 *)
AlignStep(a, b, s) ==
  IF s.i > Len(a) \/ s.j > Len(b) THEN s
  ELSE CASE a[s.i].date = b[s.j].date ->
              [i |-> s.i + 1, j |-> s.j + 1,
               out |-> Append(s.out, <<a[s.i].ret, b[s.j].ret>>)]
         [] a[s.i].date < b[s.j].date -> [s EXCEPT !.i = @ + 1]
         [] a[s.i].date > b[s.j].date -> [s EXCEPT !.j = @ + 1]

(* The merge of two sorted series: pairs of returns of the same date.       *)
AlignReturns(a, b) ==
  LET loop[k \in 0 .. Len(a) + Len(b)] ==
        IF k = 0 THEN [i |-> 1, j |-> 1, out |-> <<>>] ELSE AlignStep(a, b, loop[k - 1])
  IN loop[Len(a) + Len(b)].out

Total(f(_), pairs) == FoldLeft(LAMBDA sum, p : sum + f(p), 0, pairs)

(* Deviations from the mean, times n; a series without variance has         *)
(* correlation 0.                                                           *)
Pearson(pairs) ==
  LET n == Len(pairs)
      da(p) == n * p[1] - Total(LAMBDA q : q[1], pairs)
      db(p) == n * p[2] - Total(LAMBDA q : q[2], pairs)
      varA == Total(LAMBDA p : da(p) * da(p), pairs)
      varB == Total(LAMBDA p : db(p) * db(p), pairs)
  IN IF n = 0 \/ varA = 0 \/ varB = 0 THEN [num |-> 0, den |-> 1]
     ELSE [num |-> Total(LAMBDA p : da(p) * db(p), pairs), den |-> varA * varB]

(* |c| > |d|                                                                *)
Beyond(c, d) == c.num * c.num * d.den > d.num * d.num * c.den

Ranks_Signed(c, d) == c.corr.num > d.corr.num

(* less of the sort: neighbours with the larger |corr| first.               *)
Ranks(c, d) == Beyond(c.corr, d.corr)

(* A stable sort.                                                           *)
Ranked(scored) ==
  LET place(i) == Cardinality({j \in DOMAIN scored :
                    \/ Ranks(scored[j], scored[i])
                    \/ j <= i /\ ~Ranks(scored[i], scored[j])})
  IN [k \in DOMAIN scored |-> scored[CHOOSE i \in DOMAIN scored : place(i) = k]]

Nothing(considered, skipped) ==
  [corrMax |-> [num |-> 0, den |-> 1], neighbours |-> <<>>,
   considered |-> considered, skipped |-> skipped]

(* neighbours: records [id, returns].                                       *)
MaxSelfCorr(candidate, neighbours) ==
  LET pairs(nb) == AlignReturns(candidate, nb.returns)
      fit == Kept(neighbours, {i \in DOMAIN neighbours : Len(pairs(neighbours[i])) >= MinOverlapDays})
      all == Ranked([i \in DOMAIN fit |-> [id |-> fit[i].id, corr |-> Pearson(pairs(fit[i])),
                                           overlap |-> Len(pairs(fit[i]))]])
      skipped == Len(neighbours) - Len(fit)
  IN CASE Len(candidate) < MinOverlapDays -> Nothing(Len(neighbours), 0)
       [] Len(candidate) >= MinOverlapDays /\ all = <<>> -> Nothing(Len(neighbours), skipped)
       [] Len(candidate) >= MinOverlapDays /\ all # <<>> ->
            [corrMax |-> all[1].corr, neighbours |-> SubSeq(all, 1, Min({Len(all), CorrTopK})),
             considered |-> Len(neighbours), skipped |-> skipped]

(* The candidate itself is no neighbour, if it has an id at all.            *)
Others(in) ==
  {i \in DOMAIN in.neighbours :
     in.candidate.id = "none" \/ in.neighbours[i].id # in.candidate.id}

Eligible(in) == Kept(in.neighbours, Others(in))

Returns(records) == PnLToReturns(TrimPnLToYears(records))

SelfCorrLocal(in) ==
  LET eligible == Eligible(in)
  IN MaxSelfCorr(Returns(in.candidate.records),
       [i \in DOMAIN eligible |->
          [id |-> eligible[i].id, returns |-> Returns(eligible[i].records)]])

-----------------------------------------------------------------------------
(* What it computes                                                         *)

Value(records, d) == (CHOOSE p \in ToSet(records) : p.date = d).value

(* The finite dates of the window.                                          *)
Window(records) ==
  LET finite == {p.date : p \in {q \in ToSet(records) : IsFinite(q.value)}}
  IN {d \in finite : d >= Max(finite) - TrimDays}

(* The days with a return, and the return since the day before in there.    *)
ReturnDays(records) == {d \in Window(records) : \E e \in Window(records) : e < d}
ReturnOn(records, d) ==
  Value(records, d) - Value(records, Max({e \in Window(records) : e < d}))

Overlap(r, s) == ReturnDays(r) \cap ReturnDays(s)

(* Covariance and variances, by the textbook's other formula.               *)
Covariance(r, s, days) ==
  LET sum(f(_)) == MapThenSumSet(f, days)
  IN Cardinality(days) * sum(LAMBDA d : ReturnOn(r, d) * ReturnOn(s, d))
       - sum(LAMBDA d : ReturnOn(r, d)) * sum(LAMBDA d : ReturnOn(s, d))

TrueCorr(r, s) ==
  LET days == Overlap(r, s)
      vars2 == Covariance(r, r, days) * Covariance(s, s, days)
  IN IF vars2 = 0 THEN [num |-> 0, den |-> 1]
     ELSE [num |-> Covariance(r, s, days), den |-> vars2]

(* The same sign and the same square.                                       *)
SameCorr(c, d) ==
  /\ c.num > 0 <=> d.num > 0
  /\ ~Beyond(c, d)
  /\ ~Beyond(d, c)

(* The result the documentation promises for an input: every neighbour but  *)
(* the candidate is scored or skipped for its overlap, the scores are the   *)
(* correlations, and the first of the ranking are there, the worst of all   *)
(* at its head.                                                             *)
IsSelfCorr(result, in) ==
  LET own == in.candidate.records
      overlap(i) == Cardinality(Overlap(own, in.neighbours[i].records))
      corr(i) == TrueCorr(own, in.neighbours[i].records)
      fit == {i \in Others(in) : overlap(i) >= MinOverlapDays}
      shown == DOMAIN result.neighbours
  IN /\ result.considered = Cardinality(Others(in))
     /\ Cardinality(ReturnDays(own)) >= MinOverlapDays =>
          result.skipped = Cardinality(Others(in) \ fit)
     /\ shown = 1 .. Min({CorrTopK, Cardinality(fit)})
     /\ \E rank \in Injection(shown, fit) :
          \A k \in shown :
            /\ result.neighbours[k].id = in.neighbours[rank[k]].id
            /\ result.neighbours[k].overlap = overlap(rank[k])
            /\ SameCorr(result.neighbours[k].corr, corr(rank[k]))
            /\ \A i \in fit \ {rank[l] : l \in 1 .. k} : ~Beyond(corr(i), corr(rank[k]))
     /\ IF fit = {} THEN result.corrMax.num = 0
        ELSE result.corrMax = result.neighbours[1].corr

=============================================================================
