--------------------------- MODULE SelfCorrProofs ---------------------------
(***************************************************************************)
(* Proofs about SelfCorr, for series of any length and any neighbours: its *)
(* sorts sort, its merge joins, the code's correlation is the textbook's,  *)
(* and what corr-local prints is what the documentation promises.          *)
(***************************************************************************)
EXTENDS SelfCorr, FiniteSetTheorems, WellFoundedInduction, TLAPS

-----------------------------------------------------------------------------
(* Orders and places                                                        *)

(* A set of numbers has a least one.                                        *)
LEMMA Least ==
  ASSUME NEW T, T \subseteq Nat, T # {}
  PROVE  \E x \in T : \A y \in T : x <= y
<1> DEFINE R == OpToRel(<, Nat)
<1>1. IsWellFoundedOn(R, Nat)
  BY NatLessThanWellFounded
<1>2. \A x, y \in Nat : y < x => <<y, x>> \in R
  BY DEF OpToRel
<1> HIDE DEF R
<1>3. PICK x \in T : \A y \in T : ~ (<<y, x>> \in R)
  BY <1>1, WFMin
<1>4. \A y \in T : ~(y < x)
  BY <1>2, <1>3
<1>5. \A y \in T : x <= y
  BY <1>4
<1> QED
  BY <1>5

(* A set with 0, and with each number the next, has them all.               *)
LEMMA Upward ==
  ASSUME NEW S, 0 \in S, \A n \in Nat : n \in S => n + 1 \in S
  PROVE  Nat \subseteq S
<1> SUFFICES ASSUME Nat \ S # {} PROVE FALSE
  OBVIOUS
<1>1. PICK x \in Nat \ S : \A y \in Nat \ S : x <= y
  BY Least
<1>2. x # 0 /\ x - 1 \in Nat /\ x - 1 \in S
  BY <1>1
<1>3. (x - 1) + 1 \in S
  BY <1>2
<1> QED
  BY <1>1, <1>3

(* A linear order of a set.                                                 *)
Orders(R, D) ==
  /\ \A x, y \in D : <<x, y>> \in R \/ <<y, x>> \in R
  /\ \A x, y \in D : <<x, y>> \in R /\ <<y, x>> \in R => x = y
  /\ \A x, y, z \in D : <<x, y>> \in R /\ <<y, z>> \in R => <<x, z>> \in R

(* The elements of a set by their places in the order.                      *)
PlacesOf(at, D, R, n) ==
  /\ \A k \in 1 .. n : at[k] \in D
  /\ \A x \in D : \E k \in 1 .. n : at[k] = x
  /\ \A k, l \in 1 .. n : k < l => at[k] # at[l] /\ <<at[k], at[l]>> \in R

(* What place of an element says: its number, and that it grows.            *)
Placed(place, D, R, n) ==
  /\ \A x \in D : place[x] \in 1 .. n
  /\ \A k \in 1 .. n : \E x \in D : place[x] = k
  /\ \A x, z \in D : <<x, z>> \in R /\ x # z => place[x] < place[z]

(* A finite set in a linear order R: the number of elements up to one is    *)
(* its place.                                                               *)
LEMMA PlacesFill ==
  ASSUME NEW D, IsFiniteSet(D), NEW R,
         Orders(R, D),
         NEW place, place = [x \in D |-> Cardinality({y \in D : <<y, x>> \in R})]
  PROVE  Placed(place, D, R, Cardinality(D))
<1> USE DEF Orders
<1> DEFINE UpTo(x) == {y \in D : <<y, x>> \in R}
<1>0. PICK n \in Nat : n = Cardinality(D)
  BY FS_CardinalityType
<1>1. ASSUME NEW x \in D
      PROVE  /\ IsFiniteSet(UpTo(x))
             /\ Cardinality(UpTo(x)) \in Nat /\ Cardinality(UpTo(x)) \in 1 .. n
  <2>1. UpTo(x) \subseteq D /\ x \in UpTo(x)
    OBVIOUS
  <2>2. IsFiniteSet(UpTo(x)) /\ Cardinality(UpTo(x)) <= n
    BY <1>0, <2>1, FS_Subset
  <2>3. Cardinality(UpTo(x)) \in Nat /\ Cardinality(UpTo(x)) # 0
    BY <2>1, <2>2, FS_CardinalityType, FS_EmptySet
  <2> QED
    BY <2>2, <2>3
<1>2. ASSUME NEW x \in D, NEW z \in D, <<x, z>> \in R, x # z
      PROVE  Cardinality(UpTo(x)) < Cardinality(UpTo(z))
  <2>1. UpTo(x) \subseteq UpTo(z) /\ z \in UpTo(z) /\ z \notin UpTo(x)
    BY <1>2
  <2>2. /\ Cardinality(UpTo(x)) <= Cardinality(UpTo(z))
        /\ Cardinality(UpTo(z)) # Cardinality(UpTo(x))
    BY <1>1, <2>1, FS_Subset
  <2>3. \A a, b \in Nat : a <= b /\ b # a => a < b
    OBVIOUS
  <2>4. Cardinality(UpTo(x)) \in Nat /\ Cardinality(UpTo(z)) \in Nat
    BY <1>1, Zenon
  <2> QED
    BY <2>2, <2>3, <2>4, Zenon
<1>3. \A x \in D : place[x] = Cardinality(UpTo(x))
  OBVIOUS
<1>4. \A x \in D : place[x] \in 1 .. n /\ place[x] \in Nat
  BY <1>1, <1>3
<1> HIDE DEF UpTo
<1>5. \A x, z \in D : <<x, z>> \in R /\ x # z => place[x] < place[z]
  BY <1>2, <1>3, Zenon
<1>6. place \in Injection(D, 1 .. n)
  <2>1. place \in [D -> 1 .. n]
    BY <1>4
  <2>2. \A x, z \in D : place[x] = place[z] => x = z
    <3> TAKE x, z \in D
    <3>1. \A a, b \in Nat : a = b => ~(a < b) /\ ~(b < a)
      OBVIOUS
    <3>2. place[x] \in Nat /\ place[z] \in Nat
      BY <1>4, Zenon
    <3>3. <<x, z>> \in R \/ <<z, x>> \in R
      OBVIOUS
    <3> QED
      BY <1>5, <3>1, <3>2, <3>3, Zenon
  <2> QED
    BY <2>1, <2>2 DEF Injection, IsInjective
<1>7. \A k \in 1 .. n : \E x \in D : place[x] = k
  <2>1. IsFiniteSet(1 .. n) /\ Cardinality(1 .. n) = n
    BY FS_Interval
  <2>2. place \in Surjection(D, 1 .. n)
    BY <1>0, <1>6, <2>1, FS_Injection
  <2> QED
    BY <2>2 DEF Surjection
<1> QED
  BY <1>0, <1>4, <1>5, <1>7, Zenon DEF Placed

(* The elements by their places are in the order.                           *)
LEMMA PlacesGive ==
  ASSUME NEW D, NEW n \in Nat, NEW R, NEW place,
         Orders(R, D), Placed(place, D, R, n),
         NEW at, \A k \in 1 .. n : at[k] = CHOOSE x \in D : place[x] = k
  PROVE  PlacesOf(at, D, R, n)
<1>1. \A k \in 1 .. n : at[k] \in D /\ place[at[k]] = k
  BY DEF Placed
<1>2. \A x \in D : place[x] \in 1 .. n /\ place[x] \in Nat
  BY DEF Placed
<1>3. ASSUME NEW x \in D, NEW z \in D, place[x] = place[z] PROVE x = z
  <2>1. ~(place[x] < place[z]) /\ ~(place[z] < place[x])
    BY <1>2, <1>3
  <2> QED
    BY <2>1, Zenon DEF Orders, Placed
<1>4. \A x \in D : \E k \in 1 .. n : at[k] = x
  BY <1>1, <1>2, <1>3
<1>5. ASSUME NEW k \in 1 .. n, NEW l \in 1 .. n, k < l
      PROVE  at[k] # at[l] /\ <<at[k], at[l]>> \in R
  <2>1. at[k] \in D /\ at[l] \in D /\ place[at[k]] = k /\ place[at[l]] = l
    BY <1>1
  <2>2. at[k] # at[l]
    BY <1>5, <2>1
  <2>3. ASSUME <<at[l], at[k]>> \in R PROVE FALSE
    <3>1. place[at[l]] < place[at[k]]
      BY <2>1, <2>2, <2>3 DEF Placed
    <3> QED
      BY <1>5, <2>1, <3>1
  <2> QED
    BY <2>1, <2>2, <2>3 DEF Orders
<1> QED
  BY <1>1, <1>4, <1>5 DEF PlacesOf

(* Every place of the order has its element.                                *)
LEMMA Places ==
  ASSUME NEW D, IsFiniteSet(D), NEW R,
         Orders(R, D),
         NEW at,
         \A k \in 1 .. Cardinality(D) :
           at[k] = CHOOSE x \in D : Cardinality({y \in D : <<y, x>> \in R}) = k
  PROVE  PlacesOf(at, D, R, Cardinality(D))
<1>1. PICK place : place = [x \in D |-> Cardinality({y \in D : <<y, x>> \in R})]
  OBVIOUS
<1>2. Placed(place, D, R, Cardinality(D))
  BY <1>1, PlacesFill, Zenon
<1>3. ASSUME NEW k \in 1 .. Cardinality(D) PROVE at[k] = CHOOSE x \in D : place[x] = k
  <2>1. \A x : /\ x \in D /\ Cardinality({y \in D : <<y, x>> \in R}) = k
               <=> x \in D /\ place[x] = k
    BY <1>1
  <2>2. at[k] = CHOOSE x \in D : Cardinality({y \in D : <<y, x>> \in R}) = k
    OBVIOUS
  <2> QED
    BY <2>1, <2>2
<1> QED
  BY <1>2, <1>3, PlacesGive, FS_CardinalityType, ZenonT(40)

(* Nth goes through a set of numbers from the smallest to the largest.      *)
LEMMA NthCounts ==
  ASSUME NEW S \in SUBSET Int, IsFiniteSet(S)
  PROVE  /\ \A k \in 1 .. Cardinality(S) : Nth(S, k) \in S
         /\ \A x \in S : \E k \in 1 .. Cardinality(S) : Nth(S, k) = x
         /\ \A k, l \in 1 .. Cardinality(S) : k < l => Nth(S, k) < Nth(S, l)
<1>1. PICK R : R = {p \in S \X S : p[1] <= p[2]}
  OBVIOUS
<1>2. \A x, y \in S : <<x, y>> \in R <=> x <= y
  BY <1>1
<1>3. Orders(R, S)
  BY <1>2 DEF Orders
<1>4. PICK at : at = [k \in 1 .. Cardinality(S) |-> Nth(S, k)]
  OBVIOUS
<1>5. ASSUME NEW k \in 1 .. Cardinality(S)
      PROVE  at[k] = CHOOSE x \in S : Cardinality({y \in S : <<y, x>> \in R}) = k
  <2>1. \A x \in S : {y \in S : <<y, x>> \in R} = {y \in S : y <= x}
    BY <1>2
  <2>2. \A x : /\ x \in S /\ Cardinality({y \in S : <<y, x>> \in R}) = k
               <=> x \in S /\ Cardinality({y \in S : y <= x}) = k
    BY <2>1
  <2>3. at[k] = CHOOSE x \in S : Cardinality({y \in S : y <= x}) = k
    BY <1>4 DEF Nth
  <2> QED
    BY <2>2, <2>3, Zenon
<1>6. \A k \in 1 .. Cardinality(S) : at[k] = Nth(S, k)
  BY <1>4
<1>7. PlacesOf(at, S, R, Cardinality(S))
  BY <1>3, <1>5, Places, Zenon
<1>8. \A x, y \in S : x # y /\ x <= y => x < y
  OBVIOUS
<1>9. ASSUME NEW k \in 1 .. Cardinality(S), NEW l \in 1 .. Cardinality(S), k < l
      PROVE  Nth(S, k) < Nth(S, l)
  <2>1. at[k] \in S /\ at[l] \in S /\ at[k] # at[l] /\ <<at[k], at[l]>> \in R
    BY <1>7, <1>9, Zenon DEF PlacesOf
  <2>2. at[k] < at[l]
    BY <1>2, <1>8, <2>1, Zenon
  <2> QED
    BY <1>6, <2>2, Zenon
<1>10. /\ \A k \in 1 .. Cardinality(S) : Nth(S, k) \in S
       /\ \A x \in S : \E k \in 1 .. Cardinality(S) : Nth(S, k) = x
  BY <1>6, <1>7, Zenon DEF PlacesOf
<1> QED
  BY <1>9, <1>10, Zenon

-----------------------------------------------------------------------------
(* Series of records, kept and sorted                                       *)

(* A function on 1 .. n is a sequence of what its values are in.            *)
LEMMA MakeSeq ==
  ASSUME NEW n \in Nat, NEW T, NEW f, f = [k \in 1 .. n |-> f[k]], \A k \in 1 .. n : f[k] \in T
  PROVE  f \in Seq(T) /\ Len(f) = n /\ DOMAIN f = 1 .. n
<1>1. f \in [1 .. n -> T]
  OBVIOUS
<1>2. f \in Seq(T)
  BY <1>1
<1>3. DOMAIN f = 1 .. n
  BY <1>1
<1> QED
  BY <1>2, <1>3

(* What Kept keeps, and in which order.                                     *)
LEMMA KeptParts ==
  ASSUME NEW n \in Nat, NEW places \in SUBSET (1 .. n), NEW seq
  PROVE  /\ IsFiniteSet(places) /\ Cardinality(places) \in Nat
         /\ Kept(seq, places) = [k \in 1 .. Cardinality(places) |-> seq[Nth(places, k)]]
         /\ \A k \in 1 .. Cardinality(places) : Nth(places, k) \in places
         /\ \A i \in places : \E k \in 1 .. Cardinality(places) : Nth(places, k) = i
         /\ \A k, l \in 1 .. Cardinality(places) : k < l => Nth(places, k) < Nth(places, l)
<1>1. IsFiniteSet(places) /\ Cardinality(places) \in Nat
  <2>1. IsFiniteSet(1 .. n)
    BY FS_Interval
  <2>2. IsFiniteSet(places)
    BY <2>1, FS_Subset
  <2> QED
    BY <2>2, FS_CardinalityType
<1>2. places \in SUBSET Int
  OBVIOUS
<1> QED
  BY <1>1, <1>2, NthCounts, Zenon DEF Kept

PnLPoint == [date : Int, value : Int \cup {NaN}]

(* What a PnL series is made of.                                            *)
LEMMA PnLParts ==
  ASSUME NEW r, IsPnL(r)
  PROVE  /\ Len(r) \in Nat /\ DOMAIN r = 1 .. Len(r) /\ r = [i \in 1 .. Len(r) |-> r[i]]
         /\ \A i \in 1 .. Len(r) : /\ r[i] \in PnLPoint
                                   /\ r[i].date \in Int
                                   /\ r[i].value \in Int \cup {NaN}
         /\ \A i, j \in 1 .. Len(r) : r[i].date = r[j].date => i = j
<1>1. PICK T : T = PnLPoint
  OBVIOUS
<1>2. r \in Seq(T)
  BY <1>1 DEF IsPnL, PnLPoint
<1>3. Len(r) \in Nat /\ DOMAIN r = 1 .. Len(r) /\ r = [i \in 1 .. Len(r) |-> r[i]]
  BY <1>2
<1>4. \A i \in 1 .. Len(r) : r[i] \in T
  BY <1>2
<1>5. \A p \in T : p.date \in Int /\ p.value \in Int \cup {NaN}
  BY <1>1 DEF PnLPoint
<1>6. \A i, j \in 1 .. Len(r) : r[i].date = r[j].date => i = j
  BY <1>3, Zenon DEF IsPnL
<1> QED
  BY <1>1, <1>3, <1>4, <1>5, <1>6

(* And what makes one.                                                      *)
LEMMA MakePnL ==
  ASSUME NEW n \in Nat, NEW f, f = [k \in 1 .. n |-> f[k]], \A k \in 1 .. n : f[k] \in PnLPoint,
         \A k, l \in 1 .. n : f[k].date = f[l].date => k = l
  PROVE  IsPnL(f) /\ Len(f) = n
<1>1. f \in Seq(PnLPoint) /\ Len(f) = n /\ DOMAIN f = 1 .. n
  BY MakeSeq, Zenon
<1> QED
  BY <1>1, Zenon DEF IsPnL, PnLPoint

InOrder(r) == \A k, l \in 1 .. Len(r) : k < l => r[k].date < r[l].date

(* Kept keeps a PnL series one, and in order if it was.                     *)
LEMMA KeptPnL ==
  ASSUME NEW r, IsPnL(r), NEW places \in SUBSET (1 .. Len(r)), NEW out, out = Kept(r, places)
  PROVE  /\ IsPnL(out)
         /\ ToSet(out) = {r[i] : i \in places}
         /\ InOrder(r) => InOrder(out)
<1> DEFINE m == Cardinality(places)
<1>0. Len(r) \in Nat
  BY PnLParts
<1>1. /\ m \in Nat
      /\ out = [k \in 1 .. m |-> r[Nth(places, k)]]
      /\ \A k \in 1 .. m : Nth(places, k) \in places
      /\ \A i \in places : \E k \in 1 .. m : Nth(places, k) = i
      /\ \A k, l \in 1 .. m : k < l => Nth(places, k) < Nth(places, l)
  BY <1>0, KeptParts, Zenon
<1> HIDE DEF m
<1>2. \A k \in 1 .. m : out[k] = r[Nth(places, k)] /\ Nth(places, k) \in 1 .. Len(r)
  BY <1>1
<1>3. \A k, l \in 1 .. m : Nth(places, k) = Nth(places, l) => k = l
  <2> TAKE k, l \in 1 .. m
  <2> HAVE Nth(places, k) = Nth(places, l)
  <2>1. \A x, y \in Int : x = y => ~(x < y) /\ ~(y < x)
    OBVIOUS
  <2>2. Nth(places, k) \in Int /\ Nth(places, l) \in Int
    BY <1>2
  <2>3. ~(k < l) /\ ~(l < k)
    BY <1>1, <2>1, <2>2, Zenon
  <2> QED
    BY <1>1, <2>3
<1>4. out = [k \in 1 .. m |-> out[k]]
  BY <1>1
<1>5. \A k \in 1 .. m : out[k] \in PnLPoint
  BY <1>2, PnLParts, Zenon
<1>6. ASSUME NEW k \in 1 .. m, NEW l \in 1 .. m, out[k].date = out[l].date PROVE k = l
  <2>1. r[Nth(places, k)].date = r[Nth(places, l)].date
    BY <1>2, <1>6
  <2>2. Nth(places, k) = Nth(places, l)
    BY <1>2, <2>1, PnLParts, Zenon
  <2> QED
    BY <1>3, <2>2
<1>7. IsPnL(out) /\ Len(out) = m
  BY <1>1, <1>4, <1>5, <1>6, MakePnL
<1>8. ToSet(out) = {r[i] : i \in places}
  <2>1. DOMAIN out = 1 .. m
    BY <1>1
  <2>2. ToSet(out) = {out[k] : k \in 1 .. m}
    BY <2>1, Zenon DEF ToSet
  <2>3. \A i \in places : \E k \in 1 .. m : out[k] = r[i]
    BY <1>1, <1>2
  <2>4. \A k \in 1 .. m : \E i \in places : out[k] = r[i]
    BY <1>1, <1>2
  <2> QED
    BY <2>2, <2>3, <2>4
<1>9. ASSUME InOrder(r) PROVE InOrder(out)
  <2> SUFFICES ASSUME NEW k \in 1 .. m, NEW l \in 1 .. m, k < l PROVE out[k].date < out[l].date
    BY <1>7 DEF InOrder
  <2>1. Nth(places, k) < Nth(places, l)
    BY <1>1
  <2>2. r[Nth(places, k)].date < r[Nth(places, l)].date
    BY <1>2, <1>9, <2>1, Zenon DEF InOrder
  <2> QED
    BY <1>2, <2>2
<1> QED
  BY <1>7, <1>8, <1>9

(* ByDate sorts.                                                            *)
THEOREM ByDateSorts ==
  ASSUME NEW r, IsPnL(r), NEW out, out = ByDate(r)
  PROVE  IsPnL(out) /\ InOrder(out) /\ ToSet(out) = ToSet(r) /\ Len(out) = Len(r)
<1>0. PICK n \in Nat : n = Len(r)
  BY PnLParts
<1>1. /\ DOMAIN r = 1 .. n
      /\ \A i \in 1 .. n : r[i] \in PnLPoint /\ r[i].date \in Int
      /\ \A i, j \in 1 .. n : r[i].date = r[j].date => i = j
  BY <1>0, PnLParts, Zenon
<1>2. PICK dates : dates = {r[i].date : i \in DOMAIN r}
  OBVIOUS
<1>3. IsFiniteSet(dates) /\ Cardinality(dates) = n /\ dates \in SUBSET Int
  <2>1. PICK f : f = [i \in 1 .. n |-> r[i].date]
    OBVIOUS
  <2>2. f \in Bijection(1 .. n, dates)
    BY <1>1, <1>2, <2>1 DEF Bijection, Injection, Surjection, IsInjective
  <2>3. IsFiniteSet(1 .. n) /\ Cardinality(1 .. n) = n
    BY FS_Interval
  <2>4. ExistsBijection(1 .. n, dates)
    BY <2>2 DEF ExistsBijection
  <2> QED
    BY <1>1, <1>2, <2>3, <2>4, FS_Bijection
<1>4. PICK place : place = [k \in 1 .. n |-> CHOOSE i \in 1 .. n : r[i].date = Nth(dates, k)]
  OBVIOUS
<1>5. out = [k \in 1 .. n |-> r[place[k]]]
  BY <1>1, <1>2, <1>4 DEF ByDate
<1>6. \A k \in 1 .. n : place[k] \in 1 .. n /\ r[place[k]].date = Nth(dates, k)
  <2> TAKE k \in 1 .. n
  <2>1. Nth(dates, k) \in dates
    BY <1>3, NthCounts, Zenon
  <2>2. \E i \in 1 .. n : r[i].date = Nth(dates, k)
    BY <1>1, <1>2, <2>1
  <2> QED
    BY <1>4, <2>2
<1>7. \A k, l \in 1 .. n : k < l => Nth(dates, k) < Nth(dates, l)
  BY <1>3, NthCounts, Zenon
<1>8. \A i \in 1 .. n : \E k \in 1 .. n : place[k] = i
  <2> TAKE i \in 1 .. n
  <2>1. PICK k \in 1 .. n : Nth(dates, k) = r[i].date
    <3>1. r[i].date \in dates
      BY <1>1, <1>2
    <3>2. \E k \in 1 .. Cardinality(dates) : Nth(dates, k) = r[i].date
      BY <1>3, <3>1, NthCounts, Zenon
    <3> QED
      BY <1>3, <3>2
  <2>2. place[k] = i
    BY <1>1, <1>6, <2>1, Zenon
  <2> QED
    BY <2>2
<1>9. \A k \in 1 .. n : out[k] = r[place[k]] /\ out[k].date = Nth(dates, k) /\ out[k] \in PnLPoint
  BY <1>1, <1>5, <1>6
<1>10. \A k, l \in 1 .. n : Nth(dates, k) = Nth(dates, l) => k = l
  <2> TAKE k, l \in 1 .. n
  <2> HAVE Nth(dates, k) = Nth(dates, l)
  <2>1. \A x, y \in Int : x = y => ~(x < y) /\ ~(y < x)
    OBVIOUS
  <2>2. Nth(dates, k) \in Int /\ Nth(dates, l) \in Int
    BY <1>1, <1>6
  <2>3. ~(k < l) /\ ~(l < k)
    BY <1>7, <2>1, <2>2, Zenon
  <2> QED
    BY <2>3
<1>11. IsPnL(out) /\ Len(out) = n
  <2>1. out = [k \in 1 .. n |-> out[k]]
    BY <1>5
  <2>2. ASSUME NEW k \in 1 .. n, NEW l \in 1 .. n, out[k].date = out[l].date PROVE k = l
    <3>1. Nth(dates, k) = Nth(dates, l)
      BY <1>9, <2>2
    <3> QED
      BY <1>10, <3>1
  <2>3. \A k \in 1 .. n : out[k] \in PnLPoint
    BY <1>9
  <2> QED
    BY <2>1, <2>2, <2>3, MakePnL
<1>12. InOrder(out)
  BY <1>7, <1>9, <1>11, Zenon DEF InOrder
<1>13. ToSet(out) = ToSet(r)
  <2>1. DOMAIN out = 1 .. n
    BY <1>5
  <2>2. ToSet(out) = {out[k] : k \in 1 .. n} /\ ToSet(r) = {r[i] : i \in 1 .. n}
    BY <1>1, <2>1, Zenon DEF ToSet
  <2>3. \A i \in 1 .. n : \E k \in 1 .. n : out[k] = r[i]
    BY <1>8, <1>9
  <2>4. \A k \in 1 .. n : \E i \in 1 .. n : out[k] = r[i]
    BY <1>6, <1>9
  <2> QED
    BY <2>2, <2>3, <2>4
<1> QED
  BY <1>0, <1>11, <1>12, <1>13

-----------------------------------------------------------------------------
(* The window                                                               *)

(* Value finds the one record of a date.                                    *)
LEMMA ValueIs ==
  ASSUME NEW r, IsPnL(r), NEW p \in ToSet(r)
  PROVE  Value(r, p.date) = p.value
<1>1. ToSet(r) = {r[i] : i \in 1 .. Len(r)}
  BY PnLParts, Zenon DEF ToSet
<1>2. \A q \in ToSet(r) : q.date = p.date => q = p
  BY <1>1, PnLParts
<1>3. (CHOOSE q \in ToSet(r) : q.date = p.date) = p
  BY <1>2
<1> QED
  BY <1>3 DEF Value

(* The largest of a set, when one is known.                                 *)
LEMMA MaxIs ==
  ASSUME NEW S \in SUBSET Int, NEW x \in S, \A y \in S : y <= x
  PROVE  Max(S) = x
<1>1. \A y \in S : (\A z \in S : y >= z) <=> y = x
  OBVIOUS
<1> QED
  BY <1>1, Zenon DEF Max

(* What TrimPnLToYears gives: the finite records of the window, in order.   *)
LEMMA TrimGives ==
  ASSUME NEW r, IsPnL(r), NEW out, out = TrimPnLToYears(r)
  PROVE  /\ IsPnL(out) /\ InOrder(out)
         /\ \A k \in 1 .. Len(out) : out[k].value \in Int /\ out[k].value = Value(r, out[k].date)
         /\ {out[k].date : k \in 1 .. Len(out)} = Window(r)
<1> DEFINE good == {i \in DOMAIN r : IsFinite(r[i].value)}
           kept == Kept(r, good)
<1>1. PICK clean : clean = ByDate(kept)
  OBVIOUS
<1>2. PICK finite : finite = {p.date : p \in {q \in ToSet(r) : IsFinite(q.value)}}
  OBVIOUS
<1>3. /\ DOMAIN r = 1 .. Len(r)
      /\ \A i \in 1 .. Len(r) : r[i].date \in Int /\ r[i].value \in Int \cup {NaN}
  BY PnLParts, Zenon
<1>4. good \in SUBSET (1 .. Len(r)) /\ \A i \in good : r[i].value \in Int
  BY <1>3 DEF IsFinite
<1>5. IsPnL(kept) /\ ToSet(kept) = {r[i] : i \in good}
  BY <1>4, KeptPnL, Zenon
<1>6. IsPnL(clean) /\ InOrder(clean) /\ ToSet(clean) = {r[i] : i \in good}
  BY <1>1, <1>5, ByDateSorts, Zenon
<1>7. DOMAIN clean = 1 .. Len(clean) /\ Len(clean) \in Nat
  BY <1>6, PnLParts, Zenon
<1>8. ToSet(clean) = {clean[k] : k \in 1 .. Len(clean)}
  BY <1>7, Zenon DEF ToSet
<1>9. {q \in ToSet(r) : IsFinite(q.value)} = {r[i] : i \in good}
  BY <1>3 DEF ToSet
<1>10. finite = {clean[k].date : k \in 1 .. Len(clean)}
  <2>1. PICK X : X = ToSet(clean)
    OBVIOUS
  <2>2. finite = {p.date : p \in X}
    BY <1>2, <1>6, <1>9, <2>1, Zenon
  <2>3. X = {clean[k] : k \in 1 .. Len(clean)}
    BY <1>8, <2>1, Zenon
  <2> QED
    BY <2>2, <2>3
<1>11. ASSUME NEW k \in 1 .. Len(clean)
       PROVE  /\ clean[k].value \in Int /\ clean[k].value = Value(r, clean[k].date)
              /\ clean[k].date \in Int
  <2>1. PICK i \in good : clean[k] = r[i]
    BY <1>6, <1>8
  <2>2. r[i] \in ToSet(r)
    BY <1>3, <1>4, <2>1 DEF ToSet
  <2> QED
    BY <1>3, <1>4, <2>1, <2>2, ValueIs
<1>12. out = IF clean = <<>> THEN clean
             ELSE Kept(clean, {i \in DOMAIN clean : clean[i].date >= Last(clean).date - TrimDays})
  BY <1>1, Zenon DEF TrimPnLToYears
<1>13. Window(r) = {d \in finite : d >= Max(finite) - TrimDays}
  BY <1>2, Zenon DEF Window
<1>14. CASE clean = <<>>
  <2>1. Len(clean) = 0
    BY <1>14
  <2>2. finite = {}
    BY <1>10, <2>1
  <2> QED
    BY <1>6, <1>12, <1>13, <1>14, <2>1, <2>2
<1>15. CASE clean # <<>>
  <2>1. Len(clean) \in 1 .. Len(clean) /\ Len(clean) > 0
    <3>1. Len(clean) # 0
      <4>1. clean = [i \in 1 .. Len(clean) |-> clean[i]]
        BY <1>6, PnLParts, Zenon
      <4> QED
        BY <1>7, <1>15, <4>1
    <3> QED
      BY <1>7, <3>1
  <2>2. PICK last : last = clean[Len(clean)].date
    OBVIOUS
  <2>3. last \in finite /\ finite \in SUBSET Int
    BY <1>10, <1>11, <2>1, <2>2
  <2>4. \A d \in finite : d <= last
    <3> TAKE d \in finite
    <3>1. PICK k \in 1 .. Len(clean) : d = clean[k].date
      BY <1>10
    <3>2. k = Len(clean) \/ k < Len(clean)
      <4>1. \A n \in Nat : \A j \in 1 .. n : j = n \/ j < n
        OBVIOUS
      <4> QED
        BY <1>7, <4>1, Zenon
    <3>3. d = last \/ d < last
      BY <1>6, <2>1, <2>2, <3>1, <3>2 DEF InOrder
    <3> QED
      BY <2>3, <3>3
  <2>5. Max(finite) = last
    BY <2>3, <2>4, MaxIs
  <2>6. PICK places : places = {i \in 1 .. Len(clean) : clean[i].date >= last - TrimDays}
    OBVIOUS
  <2>7. out = Kept(clean, places)
    BY <1>7, <1>12, <1>15, <2>2, <2>6 DEF Last
  <2>8. /\ IsPnL(out) /\ InOrder(out)
        /\ ToSet(out) = {clean[i] : i \in places}
    BY <1>6, <2>6, <2>7, KeptPnL
  <2>9. ToSet(out) = {out[k] : k \in 1 .. Len(out)}
    <3>1. DOMAIN out = 1 .. Len(out)
      BY <2>8, PnLParts, Zenon
    <3> QED
      BY <3>1, Zenon DEF ToSet
  <2>10. \A k \in 1 .. Len(out) : out[k].value \in Int /\ out[k].value = Value(r, out[k].date)
    <3> TAKE k \in 1 .. Len(out)
    <3>1. PICK i \in places : out[k] = clean[i]
      BY <2>8, <2>9
    <3> QED
      BY <1>11, <2>6, <3>1
  <2>11. {out[k].date : k \in 1 .. Len(out)} = {clean[i].date : i \in places}
    <3>1. PICK X : X = ToSet(out)
      OBVIOUS
    <3>2. X = {out[k] : k \in 1 .. Len(out)} /\ X = {clean[i] : i \in places}
      BY <2>8, <2>9, <3>1, Zenon
    <3>3. {out[k].date : k \in 1 .. Len(out)} = {p.date : p \in X}
      BY <3>2
    <3>4. {clean[i].date : i \in places} = {p.date : p \in X}
      <4>1. (\A i \in places : clean[i] \in X) /\ \A p \in X : \E i \in places : p = clean[i]
        BY <3>2, Zenon
      <4> QED
        BY <4>1
    <3> QED
      BY <3>3, <3>4
  <2>12. {clean[i].date : i \in places} = {d \in finite : d >= last - TrimDays}
    BY <1>10, <2>6
  <2> QED
    BY <1>13, <2>5, <2>8, <2>10, <2>11, <2>12
<1> QED
  BY <1>14, <1>15

-----------------------------------------------------------------------------
(* Folds over a sequence                                                    *)

(* A set of places has a last one.                                          *)
LEMMA LastPlace ==
  ASSUME NEW n \in Nat, NEW s \in SUBSET (1 .. n), s # {}
  PROVE  Max(s) \in s /\ \A y \in s : y <= Max(s)
<1>1. PICK t \in {n - y : y \in s} : \A u \in {n - y : y \in s} : t <= u
  <2>1. \A y \in s : n - y \in Nat
    OBVIOUS
  <2>2. {n - y : y \in s} \subseteq Nat /\ {n - y : y \in s} # {}
    BY <2>1
  <2> QED
    BY <2>2, Least
<1>2. PICK x \in s : t = n - x
  BY <1>1
<1>3. \A y \in s : n - x <= n - y
  BY <1>1, <1>2
<1>4. \A y \in s : x >= y
  BY <1>3
<1>5. Max(s) \in s /\ \A y \in s : Max(s) >= y
  BY <1>4, Zenon DEF Max
<1> QED
  BY <1>5

(* With m of them, it is m or they are all before it.                       *)
LEMMA OneMorePlace ==
  ASSUME NEW m \in Nat, NEW s \in SUBSET (1 .. m + 1)
  PROVE  \/ s \in SUBSET (1 .. m)
         \/ s # {} /\ Max(s) = m + 1 /\ s \ {Max(s)} \in SUBSET (1 .. m)
<1>1. CASE m + 1 \in s
  <2>1. m + 1 \in Nat
    OBVIOUS
  <2>2. Max(s) \in s /\ m + 1 <= Max(s)
    BY <1>1, <2>1, LastPlace
  <2>3. \A x \in 1 .. m + 1 : m + 1 <= x => x = m + 1
    OBVIOUS
  <2>4. Max(s) \in 1 .. m + 1
    BY <2>2
  <2>5. Max(s) = m + 1
    BY <2>2, <2>3, <2>4, Zenon
  <2>6. s \ {m + 1} \in SUBSET (1 .. m)
    OBVIOUS
  <2> QED
    BY <1>1, <2>5, <2>6
<1>2. CASE m + 1 \notin s
  BY <1>2
<1> QED
  BY <1>1, <1>2

(* A fold with ReturnStep over the sets of the places of a sequence.        *)
IsReturnFold(g, n, seed, q) ==
  g = [s \in SUBSET (1 .. n) |-> IF s = {} THEN seed ELSE ReturnStep(g[s \ {Max(s)}], q[Max(s)])]

(* There is such a fold.                                                    *)
LEMMA ReturnFoldExists ==
  ASSUME NEW n \in Nat, NEW seed, NEW q
  PROVE  \E g : IsReturnFold(g, n, seed, q)
<1> DEFINE S == {m \in Nat : m <= n => \E g : IsReturnFold(g, m, seed, q)}
<1>1. 0 \in S
  <2>1. PICK g : g = [s \in SUBSET (1 .. 0) |-> seed]
    OBVIOUS
  <2>2. \A s \in SUBSET (1 .. 0) : s = {}
    OBVIOUS
  <2>3. IsReturnFold(g, 0, seed, q)
    BY <2>1, <2>2 DEF IsReturnFold
  <2> QED
    BY <2>3
<1>2. ASSUME NEW m \in Nat, m \in S PROVE m + 1 \in S
  <2> SUFFICES ASSUME m + 1 <= n PROVE \E g : IsReturnFold(g, m + 1, seed, q)
    OBVIOUS
  <2>1. PICK g : IsReturnFold(g, m, seed, q)
    BY <1>2
  <2>2. PICK h : h = [s \in SUBSET (1 .. m + 1) |->
                        IF s \in SUBSET (1 .. m) THEN g[s]
                        ELSE ReturnStep(g[s \ {Max(s)}], q[Max(s)])]
    OBVIOUS
  <2>3. \A s \in SUBSET (1 .. m) :
          g[s] = IF s = {} THEN seed ELSE ReturnStep(g[s \ {Max(s)}], q[Max(s)])
    BY <2>1 DEF IsReturnFold
  <2>4. SUBSET (1 .. m) \subseteq SUBSET (1 .. m + 1)
    OBVIOUS
  <2>5. \A s \in SUBSET (1 .. m) : h[s] = g[s]
    BY <2>2, <2>4
  <2>6. ASSUME NEW s \in SUBSET (1 .. m + 1)
        PROVE  h[s] = IF s = {} THEN seed ELSE ReturnStep(h[s \ {Max(s)}], q[Max(s)])
    <3>1. CASE s \in SUBSET (1 .. m)
      <4>1. s \ {Max(s)} \in SUBSET (1 .. m)
        BY <3>1
      <4> QED
        BY <2>3, <2>5, <3>1, <4>1
    <3>2. CASE s \notin SUBSET (1 .. m)
      <4>1. s # {} /\ s \ {Max(s)} \in SUBSET (1 .. m)
        BY <3>2, OneMorePlace
      <4>2. h[s] = ReturnStep(g[s \ {Max(s)}], q[Max(s)])
        BY <2>2, <3>2
      <4> QED
        BY <2>5, <4>1, <4>2
    <3> QED
      BY <3>1, <3>2
  <2>7. h = [s \in SUBSET (1 .. m + 1) |-> h[s]]
    BY <2>2
  <2>8. IsReturnFold(h, m + 1, seed, q)
    BY <2>6, <2>7, Zenon DEF IsReturnFold
  <2> QED
    BY <2>8
<1>3. n \in S
  <2> HIDE DEF S
  <2>1. Nat \subseteq S
    BY <1>1, <1>2, Upward
  <2> QED
    BY <2>1
<1> QED
  BY <1>3

(* Series, in the order of their days.                                      *)
Series == {s \in Seq([date : Int, ret : Int]) :
             \A x, y \in 1 .. Len(s) : x < y => s[x].date < s[y].date}

(* The differences of the values of a sorted series.                        *)
Differences(s, out, n) ==
  /\ out \in Seq([date : Int, ret : Int]) /\ Len(out) = n
  /\ \A k \in 1 .. n : out[k] = [date |-> s[k + 1].date, ret |-> s[k + 1].value - s[k].value]

(* The fold gives them.                                                     *)
LEMMA FoldDiffers ==
  ASSUME NEW n \in Nat, NEW s, NEW q,
         \A k \in 1 .. n + 1 : s[k].date \in Int /\ s[k].value \in Int,
         \A k \in 1 .. n : q[k] = s[k + 1],
         NEW g, IsReturnFold(g, n, [prev |-> s[1].value, out |-> <<>>], q)
  PROVE  Differences(s, g[1 .. n].out, n)
<1> DEFINE Point == [date : Int, ret : Int]
           S == {m \in Nat : m <= n => /\ g[1 .. m].prev = s[m + 1].value
                                      /\ Differences(s, g[1 .. m].out, m)}
<1>1. \A t \in SUBSET (1 .. n) :
        g[t] = IF t = {} THEN [prev |-> s[1].value, out |-> <<>>]
               ELSE ReturnStep(g[t \ {Max(t)}], q[Max(t)])
  BY DEF IsReturnFold
<1>2. 0 \in S
  <2>1. 1 .. 0 = {} /\ 1 .. 0 \in SUBSET (1 .. n)
    OBVIOUS
  <2>2. g[1 .. 0] = [prev |-> s[1].value, out |-> <<>>]
    BY <1>1, <2>1
  <2>3. <<>> \in Seq(Point) /\ Len(<<>>) = 0
    OBVIOUS
  <2>4. g[1 .. 0].prev = s[0 + 1].value /\ g[1 .. 0].out = <<>>
    BY <2>2
  <2>5. Differences(s, g[1 .. 0].out, 0)
    BY <2>3, <2>4 DEF Differences
  <2> QED
    BY <2>4, <2>5
<1>3. ASSUME NEW m \in Nat, m \in S PROVE m + 1 \in S
  <2> SUFFICES ASSUME m + 1 <= n
               PROVE  /\ g[1 .. m + 1].prev = s[m + 2].value
                      /\ Differences(s, g[1 .. m + 1].out, m + 1)
    OBVIOUS
  <2>1. g[1 .. m].prev = s[m + 1].value /\ Differences(s, g[1 .. m].out, m)
    BY <1>3
  <2>2. /\ 1 .. m + 1 \in SUBSET (1 .. n) /\ 1 .. m + 1 # {}
        /\ (1 .. m + 1) \ {m + 1} = 1 .. m
    <3>1. \A k \in 1 .. m + 1 : k \in 1 .. n
      OBVIOUS
    <3>2. m + 1 \in 1 .. m + 1
      OBVIOUS
    <3>3. \A k : k \in (1 .. m + 1) \ {m + 1} <=> k \in 1 .. m
      OBVIOUS
    <3> QED
      BY <3>1, <3>2, <3>3
  <2>3. Max(1 .. m + 1) = m + 1
    <3>1. 1 .. m + 1 \in SUBSET Int /\ m + 1 \in 1 .. m + 1 /\ \A k \in 1 .. m + 1 : k <= m + 1
      OBVIOUS
    <3> QED
      BY <3>1, MaxIs, Zenon
  <2>4. g[1 .. m + 1] = ReturnStep(g[1 .. m], s[m + 2])
    <3>1. q[m + 1] = s[m + 2]
      OBVIOUS
    <3> QED
      BY <1>1, <2>2, <2>3, <3>1
  <2>5. s[m + 2].value \in Int /\ s[m + 2].date \in Int /\ s[m + 1].value \in Int
    <3>1. m + 1 \in 1 .. n + 1 /\ m + 2 \in 1 .. n + 1
      OBVIOUS
    <3> QED
      BY <3>1
  <2>6. IsFinite(s[m + 2].value)
    BY <2>5, SelfCorrAssumption DEF IsFinite
  <2>7. PICK p : p = [date |-> s[m + 2].date, ret |-> s[m + 2].value - s[m + 1].value]
    OBVIOUS
  <2>8. g[1 .. m + 1] = [prev |-> s[m + 2].value, out |-> Append(g[1 .. m].out, p)]
    BY <2>1, <2>4, <2>6, <2>7 DEF ReturnStep
  <2>9. p \in Point
    BY <2>5, <2>7
  <2>10. PICK out : out = g[1 .. m].out
    OBVIOUS
  <2>11. PICK more : more = Append(out, p)
    OBVIOUS
  <2>12. out \in Seq(Point) /\ Len(out) = m
    BY <2>1, <2>10 DEF Differences
  <2>13. /\ more \in Seq(Point) /\ Len(more) = m + 1
         /\ \A k \in 1 .. m : more[k] = out[k]
         /\ more[m + 1] = p
    <3> HIDE DEF Point
    <3> QED
      BY <2>9, <2>11, <2>12
  <2>14. \A k \in 1 .. m + 1 :
           more[k] = [date |-> s[k + 1].date, ret |-> s[k + 1].value - s[k].value]
    <3>1. \A k \in 1 .. m :
            out[k] = [date |-> s[k + 1].date, ret |-> s[k + 1].value - s[k].value]
      BY <2>1, <2>10 DEF Differences
    <3>2. \A k \in 1 .. m + 1 : k \in 1 .. m \/ (k = m + 1 /\ k + 1 = m + 2)
      OBVIOUS
    <3> QED
      BY <2>7, <2>13, <3>1, <3>2, Zenon
  <2>15. Differences(s, more, m + 1)
    BY <2>13, <2>14, Zenon DEF Differences
  <2> QED
    BY <2>8, <2>10, <2>11, <2>15
<1>4. n \in S
  <2> HIDE DEF S
  <2>1. Nat \subseteq S
    BY <1>2, <1>3, Upward
  <2> QED
    BY <2>1
<1> QED
  BY <1>4

-----------------------------------------------------------------------------
(* Returns                                                                  *)

(* PnLToReturns takes the differences of a series of finite values.         *)
LEMMA DifferencesTaken ==
  ASSUME NEW t, IsPnL(t), \A k \in 1 .. Len(t) : t[k].value \in Int, Len(t) >= 2,
         NEW s, s = ByDate(t)
  PROVE  Differences(s, PnLToReturns(t), Len(s) - 1)
<1>1. IsPnL(s) /\ ToSet(s) = ToSet(t) /\ Len(s) = Len(t)
  BY ByDateSorts, Zenon
<1>2. PICK n \in Nat : n = Len(t) - 1 /\ Len(t) = n + 1 /\ n # 0
  <2>1. \A m \in Nat : m >= 2 => m - 1 \in Nat /\ m = (m - 1) + 1 /\ m - 1 # 0
    OBVIOUS
  <2> QED
    BY <2>1, PnLParts, Zenon
<1>3. DOMAIN s = 1 .. n + 1 /\ Len(s) = n + 1
  BY <1>1, <1>2, PnLParts
<1>4. \A k \in 1 .. n + 1 : s[k].date \in Int /\ s[k].value \in Int
  <2>1. \A k \in 1 .. n + 1 : s[k] \in ToSet(s) /\ s[k].date \in Int
    BY <1>1, <1>3, PnLParts, Zenon DEF ToSet
  <2>2. \A p \in ToSet(t) : p.value \in Int
    BY PnLParts, Zenon DEF ToSet
  <2> QED
    BY <1>1, <2>1, <2>2
<1>5. PICK q : q = SubSeq(s, 2, n + 1)
  OBVIOUS
<1>6. DOMAIN q = 1 .. n /\ \A k \in 1 .. n : q[k] = s[k + 1]
  <2>1. PICK T : T = PnLPoint
    OBVIOUS
  <2>2. s \in Seq(T)
    BY <1>1, <2>1 DEF IsPnL, PnLPoint
  <2> QED
    BY <1>3, <1>5, <2>2
<1>7. SelectInSeq(s, LAMBDA p : IsFinite(p.value)) = 1
  <2>1. PICK I : I = {i \in 1 .. Len(s) : IsFinite(s[i].value)}
    OBVIOUS
  <2>2. I = 1 .. n + 1
    BY <1>3, <1>4, <2>1, SelfCorrAssumption DEF IsFinite
  <2>3. 1 \in I /\ \A x \in I : (\A y \in I : x <= y) <=> x = 1
    BY <2>2
  <2>4. Min(I) = 1
    BY <2>3, Zenon DEF Min
  <2>5. SelectInSeq(s, LAMBDA p : IsFinite(p.value)) = IF I # {} THEN Min(I) ELSE 0
    BY <2>1, Zenon DEF SelectInSeq
  <2> QED
    BY <2>3, <2>4, <2>5
<1>8. PICK seed : seed = [prev |-> s[1].value, out |-> <<>>]
  OBVIOUS
<1>9. PnLToReturns(t) = FoldLeft(ReturnStep, seed, q).out
  <2>1. PnLToReturns(t) =
          IF Len(t) < 2 \/ SelectInSeq(s, LAMBDA p : IsFinite(p.value)) = 0 THEN <<>>
          ELSE FoldLeft(ReturnStep,
                        [prev |-> s[SelectInSeq(s, LAMBDA p : IsFinite(p.value))].value, out |-> <<>>],
                        SubSeq(s, SelectInSeq(s, LAMBDA p : IsFinite(p.value)) + 1, Len(s))).out
    BY Zenon DEF PnLToReturns
  <2>2. ~(Len(t) < 2) /\ 1 # 0 /\ 1 + 1 = 2
    BY <1>2
  <2>3. PnLToReturns(t) =
          FoldLeft(ReturnStep, [prev |-> s[1].value, out |-> <<>>], SubSeq(s, 1 + 1, Len(s))).out
    BY <1>7, <2>1, <2>2, Zenon
  <2> QED
    BY <1>3, <1>5, <1>8, <2>2, <2>3, Zenon
<1>10. PICK g : g = CHOOSE h : h = [x \in SUBSET DOMAIN q |->
                  IF x = {} THEN seed ELSE ReturnStep(h[x \ {Max(x)}], q[Max(x)])]
  OBVIOUS
<1>11. FoldLeft(ReturnStep, seed, q) = g[DOMAIN q]
  BY <1>10, Zenon DEF FoldLeft, MapThenFoldSet
<1>12. IsReturnFold(g, n, seed, q)
  <2>1. \A h : IsReturnFold(h, n, seed, q) <=>
          h = [x \in SUBSET DOMAIN q |->
                 IF x = {} THEN seed ELSE ReturnStep(h[x \ {Max(x)}], q[Max(x)])]
    BY <1>6 DEF IsReturnFold
  <2> QED
    BY <1>10, <2>1, ReturnFoldExists, Zenon
<1>13. Differences(s, g[1 .. n].out, n)
  BY <1>4, <1>6, <1>8, <1>12, FoldDiffers
<1>14. Len(s) - 1 = n
  BY <1>3
<1> QED
  BY <1>6, <1>9, <1>11, <1>13, <1>14, Zenon

(* The returns of a series: one for every return day, in order.             *)
THEOREM ReturnsGive ==
  ASSUME NEW r, IsPnL(r), NEW a, a = Returns(r)
  PROVE  /\ a \in Series
         /\ {a[k].date : k \in 1 .. Len(a)} = ReturnDays(r)
         /\ \A k \in 1 .. Len(a) : a[k].ret = ReturnOn(r, a[k].date)
<1>1. PICK t : t = TrimPnLToYears(r)
  OBVIOUS
<1>2. /\ IsPnL(t)
      /\ \A k \in 1 .. Len(t) : t[k].value \in Int /\ t[k].value = Value(r, t[k].date)
      /\ {t[k].date : k \in 1 .. Len(t)} = Window(r)
  BY <1>1, TrimGives
<1>3. a = PnLToReturns(t)
  BY <1>1 DEF Returns
<1>4. PICK s : s = ByDate(t)
  OBVIOUS
<1>5. IsPnL(s) /\ InOrder(s) /\ ToSet(s) = ToSet(t) /\ Len(s) = Len(t)
  BY <1>2, <1>4, ByDateSorts, Zenon
<1>6. Len(s) \in Nat /\ DOMAIN s = 1 .. Len(s) /\ DOMAIN t = 1 .. Len(s)
  BY <1>2, <1>5, PnLParts, Zenon
<1>7. PICK X : X = ToSet(t)
  OBVIOUS
<1>8. X = {s[k] : k \in 1 .. Len(s)} /\ X = {t[k] : k \in 1 .. Len(s)}
  BY <1>5, <1>6, <1>7, Zenon DEF ToSet
<1>9. \A p \in X : p.date \in Int /\ p.value \in Int /\ p.value = Value(r, p.date)
  <2>1. \A k \in 1 .. Len(s) : t[k].date \in Int
    BY <1>2, <1>5, PnLParts, Zenon
  <2> QED
    BY <1>2, <1>5, <1>8, <2>1
<1>10. \A k \in 1 .. Len(s) : /\ s[k].date \in Int /\ s[k].value \in Int
                              /\ s[k].value = Value(r, s[k].date)
                              /\ s[k].date \in Window(r)
  <2>1. \A p \in X : p.date \in Window(r)
    BY <1>2, <1>5, <1>8
  <2>2. \A k \in 1 .. Len(s) : s[k] \in X
    BY <1>8
  <2> QED
    BY <1>9, <2>1, <2>2, Zenon
<1>11. \A d \in Window(r) : \E k \in 1 .. Len(s) : d = s[k].date
  <2>1. \A d \in Window(r) : \E p \in X : d = p.date
    BY <1>2, <1>5, <1>8
  <2>2. \A p \in X : \E k \in 1 .. Len(s) : p = s[k]
    BY <1>8
  <2> TAKE d \in Window(r)
  <2>3. PICK p \in X : d = p.date
    BY <2>1
  <2>4. PICK k \in 1 .. Len(s) : p = s[k]
    BY <2>2
  <2> QED
    BY <2>3, <2>4
<1>12. \A k, l \in 1 .. Len(s) : s[k].date < s[l].date <=> k < l
  <2> TAKE k, l \in 1 .. Len(s)
  <2>1. (k < l => s[k].date < s[l].date) /\ (l < k => s[l].date < s[k].date)
    BY <1>5 DEF InOrder
  <2>2. k < l \/ l < k \/ k = l
    BY <1>6
  <2>3. s[k].date \in Int /\ s[l].date \in Int
    BY <1>10
  <2> QED
    BY <1>6, <2>1, <2>2, <2>3
<1>13. ReturnDays(r) = {d \in Window(r) : \E e \in Window(r) : e < d}
  BY DEF ReturnDays
<1>14. CASE Len(s) < 2
  <2>1. a = <<>>
    BY <1>3, <1>5, <1>14, Zenon DEF PnLToReturns
  <2>2. \A k, l \in 1 .. Len(s) : ~(k < l)
    BY <1>6, <1>14
  <2>3. ReturnDays(r) = {}
    BY <1>11, <1>12, <1>13, <2>2
  <2>4. a \in Series /\ Len(a) = 0
    <3>1. a \in Seq([date : Int, ret : Int]) /\ Len(a) = 0
      BY <2>1
    <3>2. 1 .. 0 = {}
      OBVIOUS
    <3> QED
      BY <3>1, <3>2 DEF Series
  <2> QED
    BY <2>3, <2>4
<1>15. CASE Len(s) >= 2
  <2>1. Differences(s, a, Len(s) - 1)
    BY <1>2, <1>3, <1>4, <1>5, <1>15, DifferencesTaken
  <2>2. PICK n \in Nat : n = Len(s) - 1 /\ Len(s) = n + 1
    <3>1. \A m \in Nat : m >= 2 => m - 1 \in Nat /\ m = (m - 1) + 1
      OBVIOUS
    <3> QED
      BY <1>6, <1>15, <3>1, Zenon
  <2>3. /\ a \in Seq([date : Int, ret : Int]) /\ Len(a) = n
        /\ \A k \in 1 .. n : /\ a[k].date = s[k + 1].date
                             /\ a[k].ret = s[k + 1].value - s[k].value
    <3>1. Differences(s, a, n)
      BY <2>1, <2>2, Zenon
    <3>2. /\ a \in Seq([date : Int, ret : Int]) /\ Len(a) = n
          /\ \A k \in 1 .. n :
               a[k] = [date |-> s[k + 1].date, ret |-> s[k + 1].value - s[k].value]
      BY <3>1, Zenon DEF Differences
    <3>3. ASSUME NEW k \in 1 .. n
          PROVE  a[k].date = s[k + 1].date /\ a[k].ret = s[k + 1].value - s[k].value
      <4>1. a[k] = [date |-> s[k + 1].date, ret |-> s[k + 1].value - s[k].value]
        BY <3>2
      <4> QED
        BY <4>1
    <3> QED
      BY <3>2, <3>3
  <2>4. \A k \in 1 .. n : k \in 1 .. Len(s) /\ k + 1 \in 1 .. Len(s) /\ k < k + 1
    BY <2>2
  <2>5. a \in Series
    <3>1. \A x, y \in 1 .. n : x < y => x + 1 < y + 1
      OBVIOUS
    <3>2. \A x, y \in 1 .. n : x < y => a[x].date < a[y].date
      <4> TAKE x, y \in 1 .. n
      <4> HAVE x < y
      <4>1. x + 1 < y + 1 /\ x + 1 \in 1 .. Len(s) /\ y + 1 \in 1 .. Len(s)
        BY <2>4, <3>1
      <4>2. s[x + 1].date < s[y + 1].date
        BY <1>12, <4>1
      <4> QED
        BY <2>3, <4>2
    <3> QED
      BY <2>3, <3>2, Zenon DEF Series
  <2>6. {a[k].date : k \in 1 .. n} = ReturnDays(r)
    <3>1. ASSUME NEW k \in 1 .. n PROVE a[k].date \in ReturnDays(r)
      <4>1. s[k].date \in Window(r) /\ s[k + 1].date \in Window(r) /\ s[k].date < s[k + 1].date
        BY <1>10, <1>12, <2>4, Zenon
      <4> QED
        BY <1>13, <2>3, <4>1
    <3>2. ASSUME NEW d \in ReturnDays(r) PROVE \E k \in 1 .. n : d = a[k].date
      <4>1. PICK l \in 1 .. Len(s), k \in 1 .. Len(s) : d = s[l].date /\ s[k].date < s[l].date
        BY <1>11, <1>13
      <4>2. k < l
        BY <1>12, <4>1
      <4>3. l - 1 \in 1 .. n /\ (l - 1) + 1 = l
        BY <2>2, <4>2
      <4>4. a[l - 1].date = s[l].date
        BY <2>3, <4>3
      <4> QED
        BY <4>1, <4>3, <4>4
    <3> QED
      BY <3>1, <3>2
  <2>7. ASSUME NEW k \in 1 .. n PROVE a[k].ret = ReturnOn(r, a[k].date)
    <3> DEFINE earlier == {e \in Window(r) : e < s[k + 1].date}
    <3>1. s[k].date \in earlier
      BY <1>10, <1>12, <2>4
    <3>2. earlier \in SUBSET Int
      BY <1>10, <1>11
    <3>3. \A e \in earlier : e <= s[k].date
      <4> TAKE e \in earlier
      <4>1. PICK l \in 1 .. Len(s) : e = s[l].date
        BY <1>11
      <4>2. l < k + 1
        BY <1>12, <2>4, <4>1
      <4>3. l = k \/ l < k
        BY <4>2
      <4>4. s[l].date = s[k].date \/ s[l].date < s[k].date
        BY <1>12, <2>4, <4>3
      <4>5. s[l].date \in Int /\ s[k].date \in Int
        BY <1>10, <2>4
      <4> QED
        BY <4>1, <4>4, <4>5
    <3>4. Max(earlier) = s[k].date
      <4> HIDE DEF earlier
      <4> QED
        BY <3>1, <3>2, <3>3, MaxIs
    <3>5. ReturnOn(r, s[k + 1].date) = Value(r, s[k + 1].date) - Value(r, Max(earlier))
      BY DEF ReturnOn
    <3> HIDE DEF earlier
    <3> QED
      BY <1>10, <2>3, <2>4, <3>4, <3>5
  <2> QED
    BY <2>3, <2>5, <2>6, <2>7
<1>16. Len(s) < 2 \/ Len(s) >= 2
  BY <1>6
<1> QED
  BY <1>14, <1>15, <1>16

-----------------------------------------------------------------------------
(* The merge                                                                *)

LoopStart == [i |-> 1, j |-> 1, out |-> <<>>]

(* A run of the merge, of so many steps.                                    *)
IsLoop(f, a, b, steps) ==
  f = [k \in 0 .. steps |-> IF k = 0 THEN LoopStart ELSE AlignStep(a, b, f[k - 1])]

(* There is one.                                                            *)
LEMMA LoopRuns ==
  ASSUME NEW a, NEW b, NEW steps \in Nat
  PROVE  \E f : IsLoop(f, a, b, steps)
<1> DEFINE S == {m \in Nat : \E f : IsLoop(f, a, b, m)}
<1>1. 0 \in S
  <2>1. IsLoop([k \in 0 .. 0 |-> LoopStart], a, b, 0)
    BY DEF IsLoop
  <2> QED
    BY <2>1
<1>2. ASSUME NEW m \in Nat, m \in S PROVE m + 1 \in S
  <2>1. PICK f : IsLoop(f, a, b, m)
    BY <1>2
  <2> DEFINE g == [k \in 0 .. m + 1 |-> IF k = m + 1 THEN AlignStep(a, b, f[m]) ELSE f[k]]
  <2>2. \A k \in 0 .. m : f[k] = IF k = 0 THEN LoopStart ELSE AlignStep(a, b, f[k - 1])
    BY <2>1 DEF IsLoop
  <2>3. ASSUME NEW k \in 0 .. m + 1
        PROVE  g[k] = IF k = 0 THEN LoopStart ELSE AlignStep(a, b, g[k - 1])
    <3>1. CASE k = m + 1
      <4>1. g[k] = AlignStep(a, b, f[m]) /\ k # 0 /\ k - 1 = m /\ g[m] = f[m]
        BY <3>1
      <4> QED
        BY <4>1
    <3>2. CASE k \in 1 .. m
      <4>1. g[k] = f[k] /\ k - 1 \in 0 .. m /\ g[k - 1] = f[k - 1] /\ k # 0 /\ k \in 0 .. m
        BY <3>2
      <4> QED
        BY <2>2, <4>1
    <3>3. CASE k = 0
      <4>1. g[k] = f[0]
        BY <3>3
      <4> QED
        BY <2>2, <3>3, <4>1
    <3> QED
      BY <3>1, <3>2, <3>3
  <2> HIDE DEF g
  <2>4. g = [k \in 0 .. m + 1 |-> g[k]]
    BY DEF g
  <2>5. IsLoop(g, a, b, m + 1)
    BY <2>3, <2>4 DEF IsLoop
  <2> QED
    BY <2>5
<1>3. Nat \subseteq S
  <2> HIDE DEF S
  <2> QED
    BY <1>1, <1>2, Upward
<1> QED
  BY <1>3

(* What of a join is there when the merge is at a[i] and b[j]: pairs of     *)
(* returns of one day each, in the order of the days, and all of those that *)
(* it has passed.  left and right are the places they come from.            *)
JoinedUpTo(a, b, i, j, pairs, left, right) ==
  /\ pairs \in Seq(Int \X Int)
  /\ \A k \in 1 .. Len(pairs) :
       /\ left[k] \in 1 .. Len(a) /\ left[k] < i
       /\ right[k] \in 1 .. Len(b) /\ right[k] < j
       /\ a[left[k]].date = b[right[k]].date
       /\ pairs[k] = <<a[left[k]].ret, b[right[k]].ret>>
  /\ \A k, l \in 1 .. Len(pairs) : k < l => left[k] < left[l] /\ right[k] < right[l]
  /\ \A x \in 1 .. Len(a), y \in 1 .. Len(b) :
       a[x].date = b[y].date /\ (x < i \/ y < j) =>
         \E k \in 1 .. Len(pairs) : left[k] = x /\ right[k] = y

(* A join on the date, without what it has passed.                          *)
IsJoin(pairs, a, b) ==
  \E left, right : JoinedUpTo(a, b, Len(a) + 1, Len(b) + 1, pairs, left, right)

LoopInv(a, b, k, s) ==
  /\ s \in [i : 1 .. Len(a) + 1, j : 1 .. Len(b) + 1, out : Seq(Int \X Int)]
  /\ s.i > Len(a) \/ s.j > Len(b) \/ k + 2 <= s.i + s.j
  /\ \E left, right : JoinedUpTo(a, b, s.i, s.j, s.out, left, right)

(* What a series is made of.                                                *)
LEMMA SeriesParts ==
  ASSUME NEW a \in Series
  PROVE  /\ a \in Seq([date : Int, ret : Int]) /\ Len(a) \in Nat
         /\ \A x \in 1 .. Len(a) : a[x].date \in Int /\ a[x].ret \in Int
         /\ \A x, y \in 1 .. Len(a) : x < y => a[x].date < a[y].date
<1>1. a \in Seq([date : Int, ret : Int])
  BY DEF Series
<1>2. \A x, y \in 1 .. Len(a) : x < y => a[x].date < a[y].date
  BY Zenon DEF Series
<1>3. \A x \in 1 .. Len(a) : a[x] \in [date : Int, ret : Int]
  <2>1. PICK T : T = [date : Int, ret : Int]
    OBVIOUS
  <2>2. a \in Seq(T)
    BY <1>1, <2>1
  <2>3. \A x \in 1 .. Len(a) : a[x] \in T
    BY <2>2
  <2> QED
    BY <2>1, <2>3
<1>4. \A r \in [date : Int, ret : Int] : r.date \in Int /\ r.ret \in Int
  OBVIOUS
<1> QED
  BY <1>1, <1>2, <1>3, <1>4

(* A day of b, if it is not a[i]'s and b[j] is past that, was passed before *)
(* b[j].                                                                    *)
LEMMA DayPassed ==
  ASSUME NEW b \in Series, NEW j \in 1 .. Len(b), NEW y \in 1 .. Len(b), b[y].date < b[j].date
  PROVE  y < j
<1>1. Len(b) \in Nat /\ b[y].date \in Int /\ b[j].date \in Int
  BY SeriesParts
<1>2. j < y => b[j].date < b[y].date
  BY SeriesParts
<1>3. ~(j < y)
  <2>1. \A d, e \in Int : d < e => ~(e < d)
    OBVIOUS
  <2> QED
    BY <1>1, <1>2, <2>1
<1>4. j # y
  <2>1. \A d, e \in Int : d < e => d # e
    OBVIOUS
  <2> QED
    BY <1>1, <2>1
<1> QED
  BY <1>1, <1>3, <1>4

(* The merge may pass a[i] when b[j] is a later day, and the other way      *)
(* round.                                                                   *)
LEMMA Passes ==
  ASSUME NEW a \in Series, NEW b \in Series, NEW i \in 1 .. Len(a), NEW j \in 1 .. Len(b),
         NEW pairs, NEW left, NEW right, JoinedUpTo(a, b, i, j, pairs, left, right)
  PROVE  /\ a[i].date < b[j].date => JoinedUpTo(a, b, i + 1, j, pairs, left, right)
         /\ b[j].date < a[i].date => JoinedUpTo(a, b, i, j + 1, pairs, left, right)
<1>0. Len(a) \in Nat /\ Len(b) \in Nat
  BY SeriesParts
<1>1. /\ pairs \in Seq(Int \X Int)
      /\ \A k \in 1 .. Len(pairs) :
           /\ left[k] \in 1 .. Len(a) /\ left[k] < i
           /\ right[k] \in 1 .. Len(b) /\ right[k] < j
           /\ a[left[k]].date = b[right[k]].date
           /\ pairs[k] = <<a[left[k]].ret, b[right[k]].ret>>
      /\ \A k, l \in 1 .. Len(pairs) : k < l => left[k] < left[l] /\ right[k] < right[l]
      /\ \A x \in 1 .. Len(a), y \in 1 .. Len(b) :
           a[x].date = b[y].date /\ (x < i \/ y < j) =>
             \E k \in 1 .. Len(pairs) : left[k] = x /\ right[k] = y
  BY Zenon DEF JoinedUpTo
<1>2. \A k \in 1 .. Len(pairs) : left[k] < i + 1 /\ right[k] < j + 1
  <2>1. \A x \in 1 .. Len(a) : x < i => x < i + 1
    BY <1>0
  <2>2. \A y \in 1 .. Len(b) : y < j => y < j + 1
    BY <1>0
  <2> QED
    BY <1>1, <2>1, <2>2, Zenon
<1>3. ASSUME a[i].date < b[j].date
      PROVE  JoinedUpTo(a, b, i + 1, j, pairs, left, right)
  <2>1. ASSUME NEW x \in 1 .. Len(a), NEW y \in 1 .. Len(b),
               a[x].date = b[y].date, x < i + 1 \/ y < j
        PROVE  x < i \/ y < j
    <3>1. x < i \/ x = i \/ y < j
      BY <1>0, <2>1
    <3>2. x = i => y < j
      BY <1>3, <2>1, DayPassed
    <3> QED
      BY <3>1, <3>2
  <2> QED
    BY <1>1, <1>2, <2>1, ZenonT(60) DEF JoinedUpTo
<1>4. ASSUME b[j].date < a[i].date
      PROVE  JoinedUpTo(a, b, i, j + 1, pairs, left, right)
  <2>1. ASSUME NEW x \in 1 .. Len(a), NEW y \in 1 .. Len(b),
               a[x].date = b[y].date, x < i \/ y < j + 1
        PROVE  x < i \/ y < j
    <3>1. x < i \/ y = j \/ y < j
      BY <1>0, <2>1
    <3>2. y = j => x < i
      BY <1>4, <2>1, DayPassed
    <3> QED
      BY <3>1, <3>2
  <2> QED
    BY <1>1, <1>2, <2>1, ZenonT(60) DEF JoinedUpTo
<1> QED
  BY <1>3, <1>4

(* And it pairs the two when they are of one day.                           *)
LEMMA Pairs ==
  ASSUME NEW a \in Series, NEW b \in Series, NEW i \in 1 .. Len(a), NEW j \in 1 .. Len(b),
         NEW pairs, NEW left, NEW right, JoinedUpTo(a, b, i, j, pairs, left, right),
         a[i].date = b[j].date
  PROVE  \E left1, right1 :
           JoinedUpTo(a, b, i + 1, j + 1, Append(pairs, <<a[i].ret, b[j].ret>>), left1, right1)
<1>0. Len(a) \in Nat /\ Len(b) \in Nat
  BY SeriesParts
<1>1. /\ pairs \in Seq(Int \X Int)
      /\ \A k \in 1 .. Len(pairs) :
           /\ left[k] \in 1 .. Len(a) /\ left[k] < i
           /\ right[k] \in 1 .. Len(b) /\ right[k] < j
           /\ a[left[k]].date = b[right[k]].date
           /\ pairs[k] = <<a[left[k]].ret, b[right[k]].ret>>
      /\ \A k, l \in 1 .. Len(pairs) : k < l => left[k] < left[l] /\ right[k] < right[l]
      /\ \A x \in 1 .. Len(a), y \in 1 .. Len(b) :
           a[x].date = b[y].date /\ (x < i \/ y < j) =>
             \E k \in 1 .. Len(pairs) : left[k] = x /\ right[k] = y
  BY Zenon DEF JoinedUpTo
<1>2. PICK n \in Nat : n = Len(pairs)
  BY <1>1
<1>3. PICK more : more = Append(pairs, <<a[i].ret, b[j].ret>>)
  OBVIOUS
<1>4. /\ more \in Seq(Int \X Int) /\ Len(more) = n + 1
      /\ more[n + 1] = <<a[i].ret, b[j].ret>>
      /\ \A m \in 1 .. n : more[m] = pairs[m]
  <2>1. <<a[i].ret, b[j].ret>> \in Int \X Int
    BY SeriesParts
  <2> QED
    BY <1>1, <1>2, <1>3, <2>1
<1>5. PICK left1 : left1 = [m \in 1 .. n + 1 |-> IF m = n + 1 THEN i ELSE left[m]]
  OBVIOUS
<1>6. PICK right1 : right1 = [m \in 1 .. n + 1 |-> IF m = n + 1 THEN j ELSE right[m]]
  OBVIOUS
<1>7. /\ left1[n + 1] = i /\ right1[n + 1] = j
      /\ \A m \in 1 .. n : left1[m] = left[m] /\ right1[m] = right[m]
  BY <1>5, <1>6
<1>8. \A m \in 1 .. n + 1 : m \in 1 .. n \/ m = n + 1
  OBVIOUS
<1>9. /\ \A x \in 1 .. Len(a) : x < i => x < i + 1
      /\ \A y \in 1 .. Len(b) : y < j => y < j + 1
      /\ i < i + 1 /\ j < j + 1
      /\ n + 1 \in 1 .. n + 1
      /\ \A m \in 1 .. n : m \in 1 .. n + 1
  BY <1>0
<1>10. ASSUME NEW m \in 1 .. n + 1
       PROVE  /\ left1[m] \in 1 .. Len(a) /\ left1[m] < i + 1
              /\ right1[m] \in 1 .. Len(b) /\ right1[m] < j + 1
              /\ a[left1[m]].date = b[right1[m]].date
              /\ more[m] = <<a[left1[m]].ret, b[right1[m]].ret>>
  <2>1. CASE m = n + 1
    BY <1>4, <1>7, <1>9, <2>1, Zenon
  <2>2. CASE m \in 1 .. n
    BY <1>1, <1>2, <1>4, <1>7, <1>9, <2>2, ZenonT(60)
  <2> QED
    BY <1>8, <2>1, <2>2
<1>11. ASSUME NEW m \in 1 .. n + 1, NEW l \in 1 .. n + 1, m < l
       PROVE  left1[m] < left1[l] /\ right1[m] < right1[l]
  <2>1. m \in 1 .. n
    BY <1>11
  <2>2. CASE l \in 1 .. n
    BY <1>1, <1>2, <1>7, <1>11, <2>1, <2>2, Zenon
  <2>3. CASE l = n + 1
    BY <1>1, <1>2, <1>7, <2>1, <2>3, Zenon
  <2> QED
    BY <1>8, <2>2, <2>3
<1>12. ASSUME NEW x \in 1 .. Len(a), NEW y \in 1 .. Len(b),
              a[x].date = b[y].date, x < i + 1 \/ y < j + 1
       PROVE  \E m \in 1 .. n + 1 : left1[m] = x /\ right1[m] = y
  <2>1. CASE x < i \/ y < j
    <3>1. PICK k \in 1 .. n : left[k] = x /\ right[k] = y
      BY <1>1, <1>2, <1>12, <2>1, Zenon
    <3> QED
      BY <1>7, <1>9, <3>1, Zenon
  <2>2. CASE ~(x < i \/ y < j)
    <3>1. x = i \/ y = j
      BY <1>0, <1>12, <2>2
    <3>2. x = i => ~(b[j].date < b[y].date) /\ ~(b[y].date < b[j].date)
      <4>1. \A d \in Int : ~(d < d)
        OBVIOUS
      <4>2. x = i => b[y].date = b[j].date
        BY <1>12
      <4> QED
        BY <4>1, <4>2, SeriesParts
    <3>3. y = j => ~(a[i].date < a[x].date) /\ ~(a[x].date < a[i].date)
      <4>1. \A d \in Int : ~(d < d)
        OBVIOUS
      <4>2. y = j => a[x].date = a[i].date
        BY <1>12
      <4> QED
        BY <4>1, <4>2, SeriesParts
    <3>4. x = i => y = j
      <4>1. j < y => b[j].date < b[y].date
        BY SeriesParts
      <4>2. y < j \/ y = j \/ j < y
        BY <1>0
      <4> QED
        BY <2>2, <3>2, <4>1, <4>2
    <3>5. y = j => x = i
      <4>1. i < x => a[i].date < a[x].date
        BY SeriesParts
      <4>2. x < i \/ x = i \/ i < x
        BY <1>0
      <4> QED
        BY <2>2, <3>3, <4>1, <4>2
    <3> QED
      BY <1>7, <1>9, <3>1, <3>4, <3>5
  <2> QED
    BY <2>1, <2>2
<1>13. JoinedUpTo(a, b, i + 1, j + 1, more, left1, right1)
  <2>1. more \in Seq(Int \X Int) /\ 1 .. Len(more) = 1 .. n + 1
    BY <1>4
  <2>2. \A k \in 1 .. Len(more) :
          /\ left1[k] \in 1 .. Len(a) /\ left1[k] < i + 1
          /\ right1[k] \in 1 .. Len(b) /\ right1[k] < j + 1
          /\ a[left1[k]].date = b[right1[k]].date
          /\ more[k] = <<a[left1[k]].ret, b[right1[k]].ret>>
    BY <1>10, <2>1, Zenon
  <2>3. \A k, l \in 1 .. Len(more) : k < l => left1[k] < left1[l] /\ right1[k] < right1[l]
    BY <1>11, <2>1, Zenon
  <2>4. \A x \in 1 .. Len(a), y \in 1 .. Len(b) :
          a[x].date = b[y].date /\ (x < i + 1 \/ y < j + 1) =>
            \E k \in 1 .. Len(more) : left1[k] = x /\ right1[k] = y
    <3> SUFFICES ASSUME NEW x \in 1 .. Len(a), NEW y \in 1 .. Len(b),
                        a[x].date = b[y].date, x < i + 1 \/ y < j + 1
                 PROVE  \E k \in 1 .. Len(more) : left1[k] = x /\ right1[k] = y
      OBVIOUS
    <3>1. PICK k \in 1 .. n + 1 : left1[k] = x /\ right1[k] = y
      BY <1>12
    <3>2. k \in 1 .. Len(more)
      BY <2>1
    <3> QED
      BY <3>1, <3>2
  <2> QED
    BY <2>1, <2>2, <2>3, <2>4, Zenon DEF JoinedUpTo
<1> QED
  BY <1>3, <1>13

(* The loop invariant holds before the first round.                         *)
LEMMA LoopBegins ==
  ASSUME NEW a \in Series, NEW b \in Series
  PROVE  LoopInv(a, b, 0, LoopStart)
<1>1. Len(a) \in Nat /\ Len(b) \in Nat
  BY SeriesParts
<1>2. <<>> \in Seq(Int \X Int) /\ Len(<<>>) = 0
  OBVIOUS
<1>3. JoinedUpTo(a, b, 1, 1, <<>>, <<>>, <<>>)
  BY <1>1, <1>2 DEF JoinedUpTo
<1> QED
  BY <1>1, <1>2, <1>3 DEF LoopInv, LoopStart

(* What makes it hold.                                                      *)
LEMMA MakeLoopInv ==
  ASSUME NEW a, NEW b, NEW i \in 1 .. Len(a) + 1, NEW j \in 1 .. Len(b) + 1,
         NEW pairs \in Seq(Int \X Int), NEW k, i > Len(a) \/ j > Len(b) \/ k + 2 <= i + j,
         NEW left, NEW right, JoinedUpTo(a, b, i, j, pairs, left, right)
  PROVE  LoopInv(a, b, k, [i |-> i, j |-> j, out |-> pairs])
BY DEF LoopInv

(* Each round keeps it.                                                     *)
LEMMA LoopGoesOn ==
  ASSUME NEW a \in Series, NEW b \in Series, NEW k \in Nat, NEW s, LoopInv(a, b, k, s)
  PROVE  LoopInv(a, b, k + 1, AlignStep(a, b, s))
<1>0. Len(a) \in Nat /\ Len(b) \in Nat
  BY SeriesParts
<1>1. PICK i \in 1 .. Len(a) + 1, j \in 1 .. Len(b) + 1, pairs \in Seq(Int \X Int) :
        s = [i |-> i, j |-> j, out |-> pairs]
  BY DEF LoopInv
<1>2. i > Len(a) \/ j > Len(b) \/ k + 2 <= i + j
  BY <1>1 DEF LoopInv
<1>3. PICK left, right : JoinedUpTo(a, b, i, j, pairs, left, right)
  BY <1>1 DEF LoopInv
<1>4. CASE i > Len(a) \/ j > Len(b)
  <2>1. AlignStep(a, b, s) = s
    BY <1>1, <1>4 DEF AlignStep
  <2> QED
    BY <1>1, <1>4, <2>1 DEF LoopInv
<1>5. CASE ~(i > Len(a) \/ j > Len(b))
  <2>1. i \in 1 .. Len(a) /\ j \in 1 .. Len(b) /\ k + 2 <= i + j
    BY <1>0, <1>2, <1>5
  <2>2. a[i].date \in Int /\ b[j].date \in Int /\ a[i].ret \in Int /\ b[j].ret \in Int
    BY <2>1, SeriesParts
  <2>a. /\ s.i = i /\ s.j = j /\ s.out = pairs
        /\ ~(s.i > Len(a) \/ s.j > Len(b))
    BY <1>1, <1>5
  <2>b. \A d, e \in Int : /\ d < e => ~(d > e) /\ d # e
                          /\ e < d => d > e /\ ~(d < e) /\ d # e
                          /\ d = e => ~(d > e) /\ ~(d < e)
    OBVIOUS
  <2>3. /\ i + 1 \in 1 .. Len(a) + 1 /\ j + 1 \in 1 .. Len(b) + 1
        /\ (k + 1) + 2 <= (i + 1) + j
        /\ (k + 1) + 2 <= i + (j + 1)
        /\ (k + 1) + 2 <= (i + 1) + (j + 1)
    BY <1>0, <2>1
  <2>4. CASE a[i].date < b[j].date
    <3>1. AlignStep(a, b, s) = [i |-> i + 1, j |-> j, out |-> pairs]
      <4>1. AlignStep(a, b, s) = [s EXCEPT !.i = i + 1]
        BY <2>2, <2>4, <2>a, <2>b, ZenonT(30) DEF AlignStep
      <4> QED
        BY <1>1, <4>1
    <3>2. JoinedUpTo(a, b, i + 1, j, pairs, left, right)
      BY <1>3, <2>1, <2>4, Passes
    <3> QED
      BY <2>3, <3>1, <3>2, MakeLoopInv
  <2>5. CASE b[j].date < a[i].date
    <3>1. AlignStep(a, b, s) = [i |-> i, j |-> j + 1, out |-> pairs]
      <4>1. AlignStep(a, b, s) = [s EXCEPT !.j = j + 1]
        BY <2>2, <2>5, <2>a, <2>b, ZenonT(30) DEF AlignStep
      <4> QED
        BY <1>1, <4>1
    <3>2. JoinedUpTo(a, b, i, j + 1, pairs, left, right)
      BY <1>3, <2>1, <2>5, Passes
    <3> QED
      BY <2>3, <3>1, <3>2, MakeLoopInv
  <2>6. CASE a[i].date = b[j].date
    <3>1. AlignStep(a, b, s) =
            [i |-> i + 1, j |-> j + 1, out |-> Append(pairs, <<a[i].ret, b[j].ret>>)]
      BY <2>2, <2>6, <2>a, <2>b, ZenonT(30) DEF AlignStep
    <3>2. PICK left1, right1 :
            JoinedUpTo(a, b, i + 1, j + 1, Append(pairs, <<a[i].ret, b[j].ret>>), left1, right1)
      BY <1>3, <2>1, <2>6, Pairs
    <3>3. PICK more : more = Append(pairs, <<a[i].ret, b[j].ret>>)
      OBVIOUS
    <3>a. more \in Seq(Int \X Int)
      <4>1. <<a[i].ret, b[j].ret>> \in Int \X Int
        BY <2>2
      <4> QED
        BY <1>1, <3>3, <4>1
    <3>4. AlignStep(a, b, s) = [i |-> i + 1, j |-> j + 1, out |-> more]
      BY <3>1, <3>3
    <3>5. JoinedUpTo(a, b, i + 1, j + 1, more, left1, right1)
      BY <3>2, <3>3
    <3> QED
      BY <2>3, <3>a, <3>4, <3>5 DEF LoopInv
  <2> QED
    BY <2>2, <2>4, <2>5, <2>6
<1> QED
  BY <1>4, <1>5

(* alignReturns is an inner join.                                           *)
THEOREM AlignJoins ==
  ASSUME NEW a \in Series, NEW b \in Series
  PROVE  IsJoin(AlignReturns(a, b), a, b)
<1>0. Len(a) \in Nat /\ Len(b) \in Nat
  BY SeriesParts
<1>a. PICK N \in Nat : N = Len(a) + Len(b)
  BY <1>0
<1>b. PICK loop : loop = CHOOSE f : IsLoop(f, a, b, Len(a) + Len(b))
  OBVIOUS
<1>1. AlignReturns(a, b) = loop[Len(a) + Len(b)].out
  BY <1>b, Zenon DEF AlignReturns, IsLoop, LoopStart
<1>2. IsLoop(loop, a, b, N)
  BY <1>a, <1>b, LoopRuns
<1>3. \A k \in 0 .. N : loop[k] = IF k = 0 THEN LoopStart ELSE AlignStep(a, b, loop[k - 1])
  BY <1>2 DEF IsLoop
<1> DEFINE S == {k \in Nat : k <= N => LoopInv(a, b, k, loop[k])}
<1>4. 0 \in S
  <2>1. loop[0] = LoopStart
    BY <1>3
  <2> QED
    BY <2>1, LoopBegins
<1>5. ASSUME NEW k \in Nat, k \in S PROVE k + 1 \in S
  <2> SUFFICES ASSUME k + 1 <= N PROVE LoopInv(a, b, k + 1, loop[k + 1])
    OBVIOUS
  <2>1. LoopInv(a, b, k, loop[k])
    BY <1>5
  <2>2. loop[k + 1] = AlignStep(a, b, loop[k])
    <3>1. k + 1 \in 0 .. N /\ k + 1 # 0 /\ (k + 1) - 1 = k
      OBVIOUS
    <3> QED
      BY <1>3, <3>1
  <2> QED
    BY <2>1, <2>2, LoopGoesOn
<1>6. N \in S
  <2> HIDE DEF S
  <2>1. Nat \subseteq S
    BY <1>4, <1>5, Upward
  <2> QED
    BY <2>1
<1>7. LoopInv(a, b, N, loop[N])
  BY <1>6
<1>8. PICK i \in 1 .. Len(a) + 1, j \in 1 .. Len(b) + 1, pairs \in Seq(Int \X Int) :
        loop[N] = [i |-> i, j |-> j, out |-> pairs]
  BY <1>7 DEF LoopInv
<1>9. i > Len(a) \/ j > Len(b)
  <2>1. i > Len(a) \/ j > Len(b) \/ N + 2 <= i + j
    BY <1>7, <1>8 DEF LoopInv
  <2> QED
    BY <1>0, <1>a, <2>1
<1>10. PICK left, right : JoinedUpTo(a, b, i, j, pairs, left, right)
  BY <1>7, <1>8 DEF LoopInv
<1>11. /\ \A x \in 1 .. Len(a) : x < Len(a) + 1
       /\ \A y \in 1 .. Len(b) : y < Len(b) + 1
       /\ \A x \in 1 .. Len(a), y \in 1 .. Len(b) : x < i \/ y < j
  BY <1>0, <1>9
<1>12. JoinedUpTo(a, b, Len(a) + 1, Len(b) + 1, pairs, left, right)
  BY <1>10, <1>11, ZenonT(30) DEF JoinedUpTo
<1>13. AlignReturns(a, b) = pairs
  BY <1>1, <1>8, <1>a
<1> QED
  BY <1>12, <1>13, Zenon DEF IsJoin

(* day numbers a set, from 1 on.                                            *)
Numbers(day, n, D) ==
  /\ \A k \in 1 .. n : day[k] \in D
  /\ \A d \in D : \E k \in 1 .. n : day[k] = d
  /\ \A k, l \in 1 .. n : day[k] = day[l] => k = l

(* It has as many elements as numbers.                                      *)
LEMMA NumbersCount ==
  ASSUME NEW n \in Nat, NEW D, NEW day, Numbers(day, n, D)
  PROVE  IsFiniteSet(D) /\ Cardinality(D) = n
<1>1. PICK f : f = [k \in 1 .. n |-> day[k]]
  OBVIOUS
<1>2. f \in Bijection(1 .. n, D)
  BY <1>1 DEF Numbers, Bijection, Injection, Surjection, IsInjective
<1>3. IsFiniteSet(1 .. n) /\ Cardinality(1 .. n) = n
  BY FS_Interval
<1>4. ExistsBijection(1 .. n, D)
  BY <1>2 DEF ExistsBijection
<1> QED
  BY <1>3, <1>4, FS_Bijection

(* Pairs of returns of two series, one for each day both have one on.       *)
IsPairs(pairs, r, t, day) ==
  /\ Numbers(day, Len(pairs), Overlap(r, t))
  /\ \A k \in 1 .. Len(pairs) : pairs[k] = <<ReturnOn(r, day[k]), ReturnOn(t, day[k])>>

(* The pairs are the returns of the days that both have, each day once.     *)
LEMMA PairsGive ==
  ASSUME NEW r, IsPnL(r), NEW t, IsPnL(t),
         NEW pairs, pairs = AlignReturns(Returns(r), Returns(t))
  PROVE  pairs \in Seq(Int \X Int) /\ \E day : IsPairs(pairs, r, t, day)
<1>1. PICK a, b : a = Returns(r) /\ b = Returns(t)
  OBVIOUS
<1>2. /\ a \in Series
      /\ {a[k].date : k \in 1 .. Len(a)} = ReturnDays(r)
      /\ \A k \in 1 .. Len(a) : a[k].ret = ReturnOn(r, a[k].date)
  BY <1>1, ReturnsGive
<1>3. /\ b \in Series
      /\ {b[k].date : k \in 1 .. Len(b)} = ReturnDays(t)
      /\ \A k \in 1 .. Len(b) : b[k].ret = ReturnOn(t, b[k].date)
  BY <1>1, ReturnsGive
<1>4. PICK left, right : JoinedUpTo(a, b, Len(a) + 1, Len(b) + 1, pairs, left, right)
  BY <1>1, <1>2, <1>3, AlignJoins, Zenon DEF IsJoin
<1>5. /\ pairs \in Seq(Int \X Int)
      /\ \A k \in 1 .. Len(pairs) :
           /\ left[k] \in 1 .. Len(a)
           /\ right[k] \in 1 .. Len(b)
           /\ a[left[k]].date = b[right[k]].date
           /\ pairs[k] = <<a[left[k]].ret, b[right[k]].ret>>
      /\ \A k, l \in 1 .. Len(pairs) : k < l => left[k] < left[l]
      /\ \A x \in 1 .. Len(a), y \in 1 .. Len(b) :
           a[x].date = b[y].date /\ x < Len(a) + 1 =>
             \E k \in 1 .. Len(pairs) : left[k] = x
  BY <1>4, Zenon DEF JoinedUpTo
<1>6. /\ Len(a) \in Nat
      /\ \A x \in 1 .. Len(a) : a[x].date \in Int
      /\ \A x, y \in 1 .. Len(a) : x < y => a[x].date < a[y].date
  BY <1>2, SeriesParts
<1>7. PICK day : day = [k \in 1 .. Len(pairs) |-> a[left[k]].date]
  OBVIOUS
<1>8. \A k \in 1 .. Len(pairs) : day[k] = a[left[k]].date /\ day[k] = b[right[k]].date
  BY <1>5, <1>7
<1>9. ASSUME NEW k \in 1 .. Len(pairs) PROVE day[k] \in Overlap(r, t)
  <2>1. left[k] \in 1 .. Len(a) /\ right[k] \in 1 .. Len(b)
    BY <1>5
  <2>2. a[left[k]].date \in ReturnDays(r)
    BY <1>2, <2>1
  <2>3. b[right[k]].date \in ReturnDays(t)
    BY <1>3, <2>1
  <2> QED
    BY <1>8, <2>2, <2>3 DEF Overlap
<1>10. ASSUME NEW d \in Overlap(r, t) PROVE \E k \in 1 .. Len(pairs) : day[k] = d
  <2>1. d \in ReturnDays(r) /\ d \in ReturnDays(t)
    BY DEF Overlap
  <2>2. PICK x \in 1 .. Len(a) : d = a[x].date
    BY <1>2, <2>1
  <2>3. PICK y \in 1 .. Len(b) : d = b[y].date
    BY <1>3, <2>1
  <2>4. x < Len(a) + 1
    BY <1>6
  <2>5. PICK k \in 1 .. Len(pairs) : left[k] = x
    BY <1>5, <2>2, <2>3, <2>4
  <2> QED
    BY <1>8, <2>2, <2>5
<1>11. ASSUME NEW k \in 1 .. Len(pairs), NEW l \in 1 .. Len(pairs), k < l PROVE day[k] < day[l]
  <2>1. left[k] < left[l] /\ left[k] \in 1 .. Len(a) /\ left[l] \in 1 .. Len(a)
    BY <1>5, <1>11
  <2> QED
    BY <1>6, <1>8, <2>1
<1>12. ASSUME NEW k \in 1 .. Len(pairs), NEW l \in 1 .. Len(pairs), day[k] = day[l] PROVE k = l
  <2>1. day[k] \in Int /\ day[l] \in Int
    BY <1>5, <1>6, <1>8
  <2>2. ~(day[k] < day[l]) /\ ~(day[l] < day[k])
    BY <1>12, <2>1
  <2>3. ~(k < l) /\ ~(l < k)
    BY <1>11, <2>2
  <2>4. Len(pairs) \in Nat
    BY <1>5
  <2> QED
    BY <2>3, <2>4
<1>13. ASSUME NEW k \in 1 .. Len(pairs)
       PROVE  pairs[k] = <<ReturnOn(r, day[k]), ReturnOn(t, day[k])>>
  <2>0. left[k] \in 1 .. Len(a) /\ right[k] \in 1 .. Len(b)
    BY <1>5
  <2>1. a[left[k]].ret = ReturnOn(r, day[k])
    BY <1>2, <1>8, <2>0
  <2>2. b[right[k]].ret = ReturnOn(t, day[k])
    BY <1>3, <1>8, <2>0
  <2> QED
    BY <1>5, <2>1, <2>2, Zenon
<1>14. Numbers(day, Len(pairs), Overlap(r, t))
  BY <1>9, <1>10, <1>12 DEF Numbers
<1>15. IsPairs(pairs, r, t, day)
  BY <1>13, <1>14, Zenon DEF IsPairs
<1>16. pairs \in Seq(Int \X Int)
  BY <1>5
<1> QED
  BY <1>15, <1>16, Zenon

(* The returns number the return days.                                      *)
LEMMA ReturnDaysCount ==
  ASSUME NEW r, IsPnL(r)
  PROVE  /\ IsFiniteSet(ReturnDays(r))
         /\ Cardinality(ReturnDays(r)) = Len(Returns(r)) /\ Len(Returns(r)) \in Nat
<1>1. PICK a : a = Returns(r)
  OBVIOUS
<1>2. a \in Series /\ {a[k].date : k \in 1 .. Len(a)} = ReturnDays(r)
  BY <1>1, ReturnsGive
<1>3. /\ Len(a) \in Nat
      /\ \A x \in 1 .. Len(a) : a[x].date \in Int
      /\ \A x, y \in 1 .. Len(a) : x < y => a[x].date < a[y].date
  BY <1>2, SeriesParts
<1>4. PICK day : day = [k \in 1 .. Len(a) |-> a[k].date]
  OBVIOUS
<1>5. \A x, y \in 1 .. Len(a) : a[x].date = a[y].date => x = y
  BY <1>3
<1>6. Numbers(day, Len(a), ReturnDays(r))
  BY <1>2, <1>4, <1>5 DEF Numbers
<1> QED
  BY <1>1, <1>3, <1>6, NumbersCount

-----------------------------------------------------------------------------
(* Sums, in whatever order                                                  *)

(* A sum over the sets of the places of a sequence, the last place first.   *)
IsSum(g, n, v) ==
  g = [s \in SUBSET (1 .. n) |-> IF s = {} THEN 0 ELSE g[s \ {Max(s)}] + v[Max(s)]]

(* There is such a sum.                                                     *)
LEMMA SumExists ==
  ASSUME NEW n \in Nat, NEW v
  PROVE  \E g : IsSum(g, n, v)
<1> DEFINE S == {m \in Nat : m <= n => \E g : IsSum(g, m, v)}
<1>1. 0 \in S
  <2>1. PICK g : g = [s \in SUBSET (1 .. 0) |-> 0]
    OBVIOUS
  <2>2. \A s \in SUBSET (1 .. 0) : s = {}
    OBVIOUS
  <2>3. IsSum(g, 0, v)
    BY <2>1, <2>2 DEF IsSum
  <2> QED
    BY <2>3
<1>2. ASSUME NEW m \in Nat, m \in S PROVE m + 1 \in S
  <2> SUFFICES ASSUME m + 1 <= n PROVE \E g : IsSum(g, m + 1, v)
    OBVIOUS
  <2>1. PICK g : IsSum(g, m, v)
    BY <1>2
  <2>2. PICK h : h = [s \in SUBSET (1 .. m + 1) |->
                        IF s \in SUBSET (1 .. m) THEN g[s]
                        ELSE g[s \ {Max(s)}] + v[Max(s)]]
    OBVIOUS
  <2>3. \A s \in SUBSET (1 .. m) : g[s] = IF s = {} THEN 0 ELSE g[s \ {Max(s)}] + v[Max(s)]
    BY <2>1 DEF IsSum
  <2>4. SUBSET (1 .. m) \subseteq SUBSET (1 .. m + 1)
    OBVIOUS
  <2>5. \A s \in SUBSET (1 .. m) : h[s] = g[s]
    BY <2>2, <2>4
  <2>6. ASSUME NEW s \in SUBSET (1 .. m + 1)
        PROVE  h[s] = IF s = {} THEN 0 ELSE h[s \ {Max(s)}] + v[Max(s)]
    <3>1. CASE s \in SUBSET (1 .. m)
      <4>1. s \ {Max(s)} \in SUBSET (1 .. m)
        BY <3>1
      <4> QED
        BY <2>3, <2>5, <3>1, <4>1
    <3>2. CASE s \notin SUBSET (1 .. m)
      <4>1. s # {} /\ s \ {Max(s)} \in SUBSET (1 .. m)
        BY <3>2, OneMorePlace
      <4>2. h[s] = g[s \ {Max(s)}] + v[Max(s)]
        BY <2>2, <3>2
      <4> QED
        BY <2>5, <4>1, <4>2
    <3> QED
      BY <3>1, <3>2
  <2>7. h = [s \in SUBSET (1 .. m + 1) |-> h[s]]
    BY <2>2
  <2>8. IsSum(h, m + 1, v)
    BY <2>6, <2>7, Zenon DEF IsSum
  <2> QED
    BY <2>8
<1>3. n \in S
  <2> HIDE DEF S
  <2>1. Nat \subseteq S
    BY <1>1, <1>2, Upward
  <2> QED
    BY <2>1
<1> QED
  BY <1>3

(* The sums of the first so many terms.                                     *)
IsTally(sum, n, v) ==
  /\ sum[0] = 0
  /\ \A k \in 1 .. n : sum[k] \in Int /\ sum[k] = sum[k - 1] + v[k]

(* Such a sum ends with a tally.                                            *)
LEMMA SumTallies ==
  ASSUME NEW n \in Nat, NEW v, \A k \in 1 .. n : v[k] \in Int, NEW g, IsSum(g, n, v)
  PROVE  IsTally([k \in 0 .. n |-> g[1 .. k]], n, v)
<1>0. PICK sum : sum = [k \in 0 .. n |-> g[1 .. k]]
  OBVIOUS
<1> DEFINE S == {m \in Nat : m <= n => \A k \in 1 .. m : sum[k] \in Int /\ sum[k] = sum[k - 1] + v[k]}
<1>1. \A s \in SUBSET (1 .. n) : g[s] = IF s = {} THEN 0 ELSE g[s \ {Max(s)}] + v[Max(s)]
  BY DEF IsSum
<1>2. sum[0] = 0
  <2>1. 1 .. 0 = {} /\ 1 .. 0 \in SUBSET (1 .. n) /\ 0 \in 0 .. n
    OBVIOUS
  <2>2. sum[0] = g[1 .. 0]
    BY <1>0, <2>1
  <2> QED
    BY <1>1, <2>1, <2>2
<1>3. ASSUME NEW m \in Nat, m + 1 <= n PROVE sum[m + 1] = sum[m] + v[m + 1]
  <2>1. /\ 1 .. m + 1 \in SUBSET (1 .. n) /\ 1 .. m + 1 # {}
        /\ (1 .. m + 1) \ {m + 1} = 1 .. m
    <3>1. \A k \in 1 .. m + 1 : k \in 1 .. n
      BY <1>3
    <3>2. m + 1 \in 1 .. m + 1
      OBVIOUS
    <3>3. \A k : k \in (1 .. m + 1) \ {m + 1} <=> k \in 1 .. m
      OBVIOUS
    <3> QED
      BY <3>1, <3>2, <3>3
  <2>2. Max(1 .. m + 1) = m + 1
    <3>1. 1 .. m + 1 \in SUBSET Int /\ m + 1 \in 1 .. m + 1 /\ \A k \in 1 .. m + 1 : k <= m + 1
      OBVIOUS
    <3> QED
      BY <3>1, MaxIs, Zenon
  <2>3. g[1 .. m + 1] = g[1 .. m] + v[m + 1]
    BY <1>1, <2>1, <2>2
  <2>4. m \in 0 .. n /\ m + 1 \in 0 .. n
    BY <1>3
  <2> QED
    BY <1>0, <2>3, <2>4
<1>4. 0 \in S
  OBVIOUS
<1>5. ASSUME NEW m \in Nat, m \in S PROVE m + 1 \in S
  <2> SUFFICES ASSUME m + 1 <= n
               PROVE  \A k \in 1 .. m + 1 : sum[k] \in Int /\ sum[k] = sum[k - 1] + v[k]
    OBVIOUS
  <2>1. \A k \in 1 .. m : sum[k] \in Int /\ sum[k] = sum[k - 1] + v[k]
    BY <1>5
  <2>2. sum[m] \in Int
    BY <1>2, <2>1
  <2>3. v[m + 1] \in Int
    OBVIOUS
  <2>4. sum[m + 1] \in Int /\ sum[m + 1] = sum[m] + v[m + 1]
    BY <1>3, <2>2, <2>3
  <2>5. \A k \in 1 .. m + 1 : k \in 1 .. m \/ (k = m + 1 /\ k - 1 = m)
    OBVIOUS
  <2> QED
    BY <2>1, <2>4, <2>5, Zenon
<1>6. n \in S
  <2> HIDE DEF S
  <2>1. Nat \subseteq S
    BY <1>4, <1>5, Upward
  <2> QED
    BY <2>1
<1>7. IsTally(sum, n, v)
  BY <1>2, <1>6 DEF IsTally
<1> QED
  BY <1>0, <1>7

(* A series has one tally.                                                  *)
LEMMA OneTally ==
  ASSUME NEW n \in Nat, NEW v, NEW sum, IsTally(sum, n, v), NEW other, IsTally(other, n, v)
  PROVE  sum[n] = other[n]
<1> DEFINE S == {m \in Nat : m <= n => sum[m] = other[m]}
<1>1. 0 \in S
  BY DEF IsTally
<1>2. ASSUME NEW m \in Nat, m \in S PROVE m + 1 \in S
  <2> SUFFICES ASSUME m + 1 <= n PROVE sum[m + 1] = other[m + 1]
    OBVIOUS
  <2>1. m + 1 \in 1 .. n /\ (m + 1) - 1 = m /\ sum[m] = other[m]
    BY <1>2
  <2> QED
    BY <2>1 DEF IsTally
<1>3. n \in S
  <2> HIDE DEF S
  <2>1. Nat \subseteq S
    BY <1>1, <1>2, Upward
  <2> QED
    BY <2>1
<1> QED
  BY <1>3

(* A sum over the sets of the members of a set, in whatever order.          *)
Some(s) == CHOOSE x \in s : TRUE

IsSetSum(g, D, v) ==
  g = [s \in SUBSET D |-> IF s = {} THEN 0 ELSE v[Some(s)] + g[s \ {Some(s)}]]

(* The sets up to a size.                                                   *)
Small(D, m) == {s \in SUBSET D : IsFiniteSet(s) /\ Cardinality(s) <= m}

(* One more: the set without one of its members is smaller.                 *)
LEMMA SmallerSet ==
  ASSUME NEW D, NEW m \in Nat, NEW s \in Small(D, m + 1), NEW x \in s
  PROVE  s \ {x} \in Small(D, m)
<1>1. IsFiniteSet(s) /\ Cardinality(s) \in Nat /\ Cardinality(s) <= m + 1
  BY FS_CardinalityType DEF Small
<1>2. IsFiniteSet(s \ {x}) /\ Cardinality(s \ {x}) = Cardinality(s) - 1
  BY <1>1, FS_RemoveElement
<1> QED
  BY <1>1, <1>2 DEF Small

(* There is such a sum for a finite set.                                    *)
LEMMA SetSumExists ==
  ASSUME NEW D, IsFiniteSet(D), NEW v
  PROVE  \E g : IsSetSum(g, D, v)
<1> DEFINE Good(g, m) == g = [s \in Small(D, m) |->
                                IF s = {} THEN 0 ELSE v[Some(s)] + g[s \ {Some(s)}]]
           S == {m \in Nat : \E g : Good(g, m)}
<1>1. 0 \in S
  <2>1. PICK g : g = [s \in Small(D, 0) |-> 0]
    OBVIOUS
  <2>2. \A s \in Small(D, 0) : s = {}
    BY FS_EmptySet, FS_CardinalityType DEF Small
  <2>3. Good(g, 0)
    BY <2>1, <2>2
  <2> QED
    BY <2>3
<1>2. ASSUME NEW m \in Nat, m \in S PROVE m + 1 \in S
  <2>1. PICK g : Good(g, m)
    BY <1>2
  <2>2. PICK h : h = [s \in Small(D, m + 1) |->
                        IF s = {} THEN 0 ELSE v[Some(s)] + g[s \ {Some(s)}]]
    OBVIOUS
  <2>3. Small(D, m) \subseteq Small(D, m + 1)
    BY FS_CardinalityType DEF Small
  <2>4. \A s \in Small(D, m) : h[s] = g[s]
    BY <2>1, <2>2, <2>3
  <2>5. ASSUME NEW s \in Small(D, m + 1)
        PROVE  h[s] = IF s = {} THEN 0 ELSE v[Some(s)] + h[s \ {Some(s)}]
    <3>1. CASE s = {}
      BY <2>2, <3>1
    <3>2. CASE s # {}
      <4>1. Some(s) \in s
        BY <3>2 DEF Some
      <4>2. s \ {Some(s)} \in Small(D, m)
        BY <4>1, SmallerSet
      <4> QED
        BY <2>2, <2>4, <3>2, <4>2
    <3> QED
      BY <3>1, <3>2
  <2>6. h = [s \in Small(D, m + 1) |-> h[s]]
    BY <2>2
  <2>7. Good(h, m + 1)
    BY <2>5, <2>6, Zenon
  <2> HIDE DEF Good
  <2> QED
    BY <2>7
<1>3. Cardinality(D) \in Nat /\ Small(D, Cardinality(D)) = SUBSET D
  BY FS_CardinalityType, FS_Subset DEF Small
<1>4. Cardinality(D) \in S
  <2> HIDE DEF S
  <2>1. Nat \subseteq S
    BY <1>1, <1>2, Upward
  <2> QED
    BY <1>3, <2>1
<1> QED
  BY <1>3, <1>4 DEF IsSetSum

(* Any member may be the one that is added last.                            *)
LEMMA AnyOrder ==
  ASSUME NEW D, IsFiniteSet(D), NEW v, \A x \in D : v[x] \in Int, NEW g, IsSetSum(g, D, v)
  PROVE  \A s \in SUBSET D : g[s] \in Int /\ \A x \in s : g[s] = v[x] + g[s \ {x}]
<1> DEFINE Free(s) == g[s] \in Int /\ \A x \in s : g[s] = v[x] + g[s \ {x}]
           S == {m \in Nat : \A s \in Small(D, m) : Free(s)}
<1>0. \A s \in SUBSET D : g[s] = IF s = {} THEN 0 ELSE v[Some(s)] + g[s \ {Some(s)}]
  BY DEF IsSetSum
<1>1. 0 \in S
  <2>1. \A s \in Small(D, 0) : s = {} /\ s \in SUBSET D
    BY FS_EmptySet, FS_CardinalityType DEF Small
  <2> QED
    BY <1>0, <2>1
<1>2. ASSUME NEW m \in Nat, m \in S PROVE m + 1 \in S
  <2> SUFFICES ASSUME NEW s \in Small(D, m + 1) PROVE Free(s)
    OBVIOUS
  <2>0. s \in SUBSET D
    BY DEF Small
  <2>1. \A t \in Small(D, m) : Free(t)
    BY <1>2
  <2>2. CASE s = {}
    <3>1. g[s] = 0
      BY <1>0, <2>0, <2>2
    <3> QED
      BY <2>2, <3>1
  <2>3. CASE s # {}
    <3>1. PICK p \in s : p = Some(s)
      BY <2>3 DEF Some
    <3>2. g[s] = v[p] + g[s \ {p}]
      BY <1>0, <2>0, <2>3, <3>1
    <3>3. s \ {p} \in Small(D, m)
      BY SmallerSet
    <3>4. g[s \ {p}] \in Int /\ v[p] \in Int
      BY <2>0, <2>1, <3>3
    <3>5. ASSUME NEW x \in s PROVE g[s] = v[x] + g[s \ {x}]
      <4>1. CASE x = p
        BY <3>2, <4>1
      <4>2. CASE x # p
        <5>1. s \ {x} \in Small(D, m)
          BY SmallerSet
        <5>2. PICK rest : rest = (s \ {p}) \ {x}
          OBVIOUS
        <5>3. rest = (s \ {x}) \ {p} /\ x \in s \ {p} /\ p \in s \ {x}
          BY <4>2, <5>2
        <5>4. g[s \ {p}] = v[x] + g[rest]
          BY <2>1, <3>3, <5>2, <5>3, Zenon
        <5>5. g[s \ {x}] = v[p] + g[rest]
          BY <2>1, <5>1, <5>3, Zenon
        <5>6. g[rest] \in Int /\ v[x] \in Int
          <6>1. rest \in Small(D, m)
            <7>1. Small(D, m) \subseteq Small(D, m + 1)
              BY FS_CardinalityType DEF Small
            <7>2. s \ {p} \in Small(D, m + 1) /\ x \in s \ {p}
              BY <3>3, <5>3, <7>1
            <7> QED
              BY <5>2, <7>2, SmallerSet
          <6> QED
            BY <2>0, <2>1, <6>1
        <5>7. \A i, j, k \in Int : i + (j + k) = j + (i + k)
          OBVIOUS
        <5>8. v[p] + (v[x] + g[rest]) = v[x] + (v[p] + g[rest])
          BY <3>4, <5>6, <5>7, Zenon
        <5> QED
          BY <3>2, <5>4, <5>5, <5>8, Zenon
      <4> QED
        BY <4>1, <4>2
    <3>6. g[s] \in Int
      BY <3>2, <3>4
    <3> QED
      BY <3>5, <3>6
  <2> QED
    BY <2>2, <2>3
<1>3. Cardinality(D) \in Nat /\ Small(D, Cardinality(D)) = SUBSET D
  BY FS_CardinalityType, FS_Subset DEF Small
<1>4. Cardinality(D) \in S
  <2> HIDE DEF S
  <2>1. Nat \subseteq S
    BY <1>1, <1>2, Upward
  <2> QED
    BY <1>3, <2>1
<1> QED
  BY <1>3, <1>4

(* So a numbering adds up to the same.                                      *)
LEMMA SetSumTallies ==
  ASSUME NEW n \in Nat, NEW D, NEW day, Numbers(day, n, D),
         NEW v, \A x \in D : v[x] \in Int, NEW g, IsSetSum(g, D, v)
  PROVE  IsTally([k \in 0 .. n |-> g[{day[i] : i \in 1 .. k}]], n, [k \in 1 .. n |-> v[day[k]]])
<1>1. IsFiniteSet(D)
  BY NumbersCount
<1>2. \A s \in SUBSET D : g[s] \in Int /\ \A x \in s : g[s] = v[x] + g[s \ {x}]
  BY <1>1, AnyOrder
<1>3. PICK sum : sum = [k \in 0 .. n |-> g[{day[i] : i \in 1 .. k}]]
  OBVIOUS
<1>4. PICK w : w = [k \in 1 .. n |-> v[day[k]]]
  OBVIOUS
<1>5. sum[0] = 0
  <2>1. {day[i] : i \in 1 .. 0} = {} /\ 0 \in 0 .. n
    OBVIOUS
  <2>2. sum[0] = g[{}]
    BY <1>3, <2>1
  <2> QED
    BY <2>2 DEF IsSetSum
<1>6. ASSUME NEW k \in 1 .. n PROVE sum[k] \in Int /\ sum[k] = sum[k - 1] + w[k]
  <2>1. PICK s, t : s = {day[i] : i \in 1 .. k} /\ t = {day[i] : i \in 1 .. k - 1}
    OBVIOUS
  <2>2. /\ \A i \in 1 .. n : day[i] \in D
        /\ \A i, j \in 1 .. n : day[i] = day[j] => i = j
    BY DEF Numbers
  <2>3. \A i \in 1 .. k : i \in 1 .. n /\ (i \in 1 .. k - 1 <=> i # k)
    OBVIOUS
  <2>4. k \in 1 .. k /\ \A i \in 1 .. k - 1 : i \in 1 .. k
    OBVIOUS
  <2>5. s \in SUBSET D /\ day[k] \in s /\ t = s \ {day[k]} /\ t \in SUBSET D
    BY <2>1, <2>2, <2>3, <2>4
  <2>6. sum[k] = g[s] /\ sum[k - 1] = g[t] /\ w[k] = v[day[k]]
    <3>1. k \in 0 .. n /\ k - 1 \in 0 .. n
      OBVIOUS
    <3> QED
      BY <1>3, <1>4, <2>1, <3>1
  <2>7. g[s] = v[day[k]] + g[t] /\ g[s] \in Int /\ g[t] \in Int /\ v[day[k]] \in Int
    BY <1>2, <2>2, <2>5, Zenon
  <2>8. \A i, j \in Int : i + j = j + i
    OBVIOUS
  <2> QED
    BY <2>6, <2>7, <2>8, Zenon
<1>7. IsTally(sum, n, w)
  BY <1>5, <1>6, Zenon DEF IsTally
<1> QED
  BY <1>3, <1>4, <1>7, Zenon

-----------------------------------------------------------------------------
(* Deviations from the mean                                                 *)

(* A tally is of integers.                                                  *)
LEMMA TallyType ==
  ASSUME NEW n \in Nat, NEW v, NEW sum, IsTally(sum, n, v)
  PROVE  \A k \in 0 .. n : sum[k] \in Int
<1>1. sum[0] \in Int /\ \A k \in 1 .. n : sum[k] \in Int
  BY DEF IsTally
<1>2. \A k \in 0 .. n : k = 0 \/ k \in 1 .. n
  OBVIOUS
<1> QED
  BY <1>1, <1>2

Integers(x, n) == \A k \in 1 .. n : x[k] \in Int
Products(p, x, y, n) == \A k \in 1 .. n : p[k] = x[k] * y[k]
Deviations(d, x, y, N, A, B, n) == \A k \in 1 .. n : d[k] = (N * x[k] - A) * (N * y[k] - B)

(* The sums of x, of y and of their products.                               *)
Sums(n, x, y, p, X, Y, P) ==
  /\ Integers(x, n) /\ IsTally(X, n, x)
  /\ Integers(y, n) /\ IsTally(Y, n, y)
  /\ Products(p, x, y, n) /\ IsTally(P, n, p)

(* The sum of the products of the deviations, times n each.                 *)
LEMMA DeviationsAdd ==
  ASSUME NEW n \in Nat, NEW A \in Int, NEW B \in Int, NEW N \in Int,
         NEW x, NEW y, NEW p, NEW X, NEW Y, NEW P, Sums(n, x, y, p, X, Y, P),
         NEW d, Deviations(d, x, y, N, A, B, n), NEW Q, IsTally(Q, n, d)
  PROVE  Q[n] = N * N * P[n] - N * B * X[n] - N * A * Y[n] + n * A * B
<1> DEFINE S == {m \in Nat : m <= n =>
                   Q[m] = N * N * P[m] - N * B * X[m] - N * A * Y[m] + m * A * B}
<1>1. 0 \in S
  BY DEF Sums, IsTally
<1>2. ASSUME NEW m \in Nat, m \in S PROVE m + 1 \in S
  <2> SUFFICES ASSUME m + 1 <= n
               PROVE  Q[m + 1] = N * N * P[m + 1] - N * B * X[m + 1] - N * A * Y[m + 1] + (m + 1) * A * B
    OBVIOUS
  <2>1. Q[m] = N * N * P[m] - N * B * X[m] - N * A * Y[m] + m * A * B
    BY <1>2
  <2>2. m + 1 \in 1 .. n /\ (m + 1) - 1 = m /\ m \in 0 .. n
    OBVIOUS
  <2>3. /\ X[m + 1] = X[m] + x[m + 1]
        /\ Y[m + 1] = Y[m] + y[m + 1]
        /\ P[m + 1] = P[m] + x[m + 1] * y[m + 1]
        /\ Q[m + 1] = Q[m] + (N * x[m + 1] - A) * (N * y[m + 1] - B)
    BY <2>2, Zenon DEF Sums, IsTally, Products, Deviations
  <2>4. x[m + 1] \in Int /\ y[m + 1] \in Int /\ X[m] \in Int /\ Y[m] \in Int /\ P[m] \in Int
    BY <2>2, TallyType DEF Sums, Integers
  <2>5. \A a, b, i, j, h, l \in Int :
          (N * N * h - N * B * i - N * A * j + l * A * B) + (N * a - A) * (N * b - B)
            = N * N * (h + a * b) - N * B * (i + a) - N * A * (j + b) + (l + 1) * A * B
    OBVIOUS
  <2>6. m \in Int
    OBVIOUS
  <2>7. PICK a \in Int, b \in Int, i \in Int, j \in Int, h \in Int :
          a = x[m + 1] /\ b = y[m + 1] /\ i = X[m] /\ j = Y[m] /\ h = P[m]
    BY <2>4
  <2>8. (N * N * h - N * B * i - N * A * j + m * A * B) + (N * a - A) * (N * b - B)
          = N * N * (h + a * b) - N * B * (i + a) - N * A * (j + b) + (m + 1) * A * B
    BY <2>6
  <2> QED
    BY <2>1, <2>3, <2>7, <2>8, Zenon
<1>3. n \in S
  <2> HIDE DEF S
  <2>1. Nat \subseteq S
    BY <1>1, <1>2, Upward
  <2> QED
    BY <2>1
<1> QED
  BY <1>3

(* About the means, that is n times n times the covariance.                 *)
LEMMA DeviationsAreCovariance ==
  ASSUME NEW n \in Nat,
         NEW x, NEW y, NEW p, NEW X, NEW Y, NEW P, Sums(n, x, y, p, X, Y, P),
         NEW d, Deviations(d, x, y, n, X[n], Y[n], n), NEW Q, IsTally(Q, n, d)
  PROVE  Q[n] = n * (n * P[n] - X[n] * Y[n])
<1>1. PICK a \in Int, b \in Int, c \in Int : a = X[n] /\ b = Y[n] /\ c = P[n]
  BY TallyType DEF Sums
<1>2. Deviations(d, x, y, n, a, b, n)
  BY <1>1, Zenon
<1>3. n \in Int
  OBVIOUS
<1>4. Q[n] = n * n * P[n] - n * b * X[n] - n * a * Y[n] + n * a * b
  <2>1. PICK N \in Int : N = n
    BY <1>3
  <2>2. Deviations(d, x, y, N, a, b, n)
    BY <1>2, <2>1
  <2>3. Q[n] = N * N * P[n] - N * b * X[n] - N * a * Y[n] + n * a * b
    BY <2>2, DeviationsAdd
  <2> QED
    BY <2>1, <2>3, Zenon
<1>5. n * n * c - n * b * a - n * a * b + n * a * b = n * (n * c - a * b)
  BY <1>3
<1> QED
  BY <1>1, <1>4, <1>5, Zenon

(* What pairs of returns add up to, as Total goes through them.             *)
LEMMA TotalTallies ==
  ASSUME NEW n \in Nat, NEW v, \A k \in 1 .. n : v[k] \in Int,
         NEW g, IsSum(g, n, v), NEW sum, IsTally(sum, n, v)
  PROVE  g[1 .. n] = sum[n]
<1>2. PICK t : t = [k \in 0 .. n |-> g[1 .. k]]
  OBVIOUS
<1>3. IsTally(t, n, v)
  BY <1>2, SumTallies
<1>4. t[n] = sum[n]
  BY <1>3, OneTally
<1>5. t[n] = g[1 .. n]
  BY <1>2
<1> QED
  BY <1>4, <1>5

(* And as a sum over the days does.                                         *)
LEMMA DaysTally ==
  ASSUME NEW n \in Nat, NEW D, NEW day, Numbers(day, n, D),
         NEW v, \A x \in D : v[x] \in Int, NEW g, IsSetSum(g, D, v),
         NEW w, \A k \in 1 .. n : w[k] = v[day[k]], NEW sum, IsTally(sum, n, w)
  PROVE  g[D] = sum[n]
<1>3. PICK t : t = [k \in 0 .. n |-> g[{day[i] : i \in 1 .. k}]]
  OBVIOUS
<1>4. IsTally(t, n, [k \in 1 .. n |-> v[day[k]]])
  BY <1>3, SetSumTallies
<1>5. IsTally(t, n, w)
  BY <1>4 DEF IsTally
<1>6. t[n] = sum[n]
  BY <1>5, OneTally
<1>7. t[n] = g[D]
  <2>1. {day[i] : i \in 1 .. n} = D
    BY DEF Numbers
  <2>2. n \in 0 .. n
    OBVIOUS
  <2>3. t[n] = g[{day[i] : i \in 1 .. n}]
    BY <1>3, <2>2, Zenon
  <2> QED
    BY <2>1, <2>3
<1> QED
  BY <1>6, <1>7

-----------------------------------------------------------------------------
(* Pearson                                                                  *)

(* Integers add up.                                                         *)
LEMMA TallyExists ==
  ASSUME NEW n \in Nat, NEW v, Integers(v, n)
  PROVE  \E sum : IsTally(sum, n, v)
<1>1. PICK g : IsSum(g, n, v)
  BY SumExists
<1>2. \A k \in 1 .. n : v[k] \in Int
  BY DEF Integers
<1>3. IsTally([k \in 0 .. n |-> g[1 .. k]], n, v)
  BY <1>1, <1>2, SumTallies
<1> QED
  BY <1>3

Columns(x, y, pairs, n) ==
  n = Len(pairs) /\ \A k \in 1 .. n : x[k] = pairs[k][1] /\ y[k] = pairs[k][2]

(* n squared times the covariance.                                          *)
Cov(n, X, Y, P) == n * P[n] - X[n] * Y[n]

(* The columns of pairs, their products and their sums.                     *)
AllSums(pairs, n, x, y, p, q, w, X, Y, P, Q, W) ==
  /\ Columns(x, y, pairs, n)
  /\ Sums(n, x, y, p, X, Y, P)
  /\ Sums(n, x, x, q, X, X, Q)
  /\ Sums(n, y, y, w, Y, Y, W)

(* The deviations Pearson adds up, over all the pairs.                      *)
LEMMA PearsonAdds ==
  ASSUME NEW n \in Nat, NEW pairs \in Seq(Int \X Int),
         NEW x, NEW y, NEW p, NEW q, NEW w, NEW X, NEW Y, NEW P, NEW Q, NEW W,
         AllSums(pairs, n, x, y, p, q, w, X, Y, P, Q, W)
  PROVE  Pearson(pairs) =
           IF n = 0 \/ n * Cov(n, X, X, Q) = 0 \/ n * Cov(n, Y, Y, W) = 0
           THEN [num |-> 0, den |-> 1]
           ELSE [num |-> n * Cov(n, X, Y, P),
                 den |-> (n * Cov(n, X, X, Q)) * (n * Cov(n, Y, Y, W))]
<1>0. /\ Columns(x, y, pairs, n) /\ Sums(n, x, y, p, X, Y, P)
      /\ Sums(n, x, x, q, X, X, Q) /\ Sums(n, y, y, w, Y, Y, W)
  BY Zenon DEF AllSums
<1> USE <1>0
<1>1. /\ DOMAIN pairs = 1 .. n
      /\ \A i \in 1 .. n : pairs[i][1] \in Int /\ pairs[i][2] \in Int
      /\ \A s \in SUBSET (1 .. n) : s # {} => Max(s) \in 1 .. n
  <2>1. DOMAIN pairs = 1 .. n
    BY DEF Columns
  <2>2. ASSUME NEW i \in 1 .. n PROVE pairs[i][1] \in Int /\ pairs[i][2] \in Int
    <3>1. pairs[i] \in Int \X Int
      BY <2>1
    <3> QED
      BY <3>1
  <2>3. \A s \in SUBSET (1 .. n) : s # {} => Max(s) \in 1 .. n
    BY LastPlace
  <2> QED
    BY <2>1, <2>2, <2>3
<1>2. Total(LAMBDA e : e[1], pairs) = X[n]
  <2>1. PICK v : v = [i \in 1 .. n |-> pairs[i][1]]
    OBVIOUS
  <2>2. PICK g : g = CHOOSE h : h = [s \in SUBSET DOMAIN pairs |->
                       IF s = {} THEN 0 ELSE h[s \ {Max(s)}] + pairs[Max(s)][1]]
    OBVIOUS
  <2>3. Total(LAMBDA e : e[1], pairs) = g[DOMAIN pairs]
    BY <2>2, Zenon DEF Total, FoldLeft, MapThenFoldSet
  <2>4. \A h : IsSum(h, n, v) <=>
          h = [s \in SUBSET DOMAIN pairs |->
                 IF s = {} THEN 0 ELSE h[s \ {Max(s)}] + pairs[Max(s)][1]]
    BY <1>1, <2>1 DEF IsSum
  <2>5. IsSum(g, n, v)
    BY <2>2, <2>4, SumExists, Zenon
  <2>6. \A k \in 1 .. n : v[k] = x[k] /\ v[k] \in Int
    BY <1>1, <2>1 DEF Columns
  <2>7. IsTally(X, n, v)
    BY <2>6, Zenon DEF Sums, IsTally
  <2>8. g[1 .. n] = X[n]
    BY <2>5, <2>6, <2>7, TotalTallies
  <2> QED
    BY <1>1, <2>3, <2>8
<1>3. Total(LAMBDA e : e[2], pairs) = Y[n]
  <2>1. PICK v : v = [i \in 1 .. n |-> pairs[i][2]]
    OBVIOUS
  <2>2. PICK g : g = CHOOSE h : h = [s \in SUBSET DOMAIN pairs |->
                       IF s = {} THEN 0 ELSE h[s \ {Max(s)}] + pairs[Max(s)][2]]
    OBVIOUS
  <2>3. Total(LAMBDA e : e[2], pairs) = g[DOMAIN pairs]
    BY <2>2, Zenon DEF Total, FoldLeft, MapThenFoldSet
  <2>4. \A h : IsSum(h, n, v) <=>
          h = [s \in SUBSET DOMAIN pairs |->
                 IF s = {} THEN 0 ELSE h[s \ {Max(s)}] + pairs[Max(s)][2]]
    BY <1>1, <2>1 DEF IsSum
  <2>5. IsSum(g, n, v)
    BY <2>2, <2>4, SumExists, Zenon
  <2>6. \A k \in 1 .. n : v[k] = y[k] /\ v[k] \in Int
    BY <1>1, <2>1 DEF Columns
  <2>7. IsTally(Y, n, v)
    BY <2>6, Zenon DEF Sums, IsTally
  <2>8. g[1 .. n] = Y[n]
    BY <2>5, <2>6, <2>7, TotalTallies
  <2> QED
    BY <1>1, <2>3, <2>8
<1>4. PICK A \in Int, B \in Int : A = X[n] /\ B = Y[n]
  BY TallyType DEF Sums
<1> DEFINE da(e) == Len(pairs) * e[1] - Total(LAMBDA e1 : e1[1], pairs)
           db(e) == Len(pairs) * e[2] - Total(LAMBDA e1 : e1[2], pairs)
<1>5. \A i \in 1 .. n : da(pairs[i]) = n * x[i] - A /\ db(pairs[i]) = n * y[i] - B
  BY <1>2, <1>3, <1>4, Zenon DEF Columns
<1>6. \A i \in 1 .. n : da(pairs[i]) \in Int /\ db(pairs[i]) \in Int
  <2>1. \A a \in Int : n * a - A \in Int /\ n * a - B \in Int
    OBVIOUS
  <2> QED
    BY <1>5, <2>1, Zenon DEF Sums, Integers
<1>7. \A a, b \in Int : a * b \in Int
  OBVIOUS
<1> HIDE DEF da, db
<1>8. Total(LAMBDA e : da(e) * db(e), pairs) = n * Cov(n, X, Y, P)
  <2>1. PICK v : v = [i \in 1 .. n |-> da(pairs[i]) * db(pairs[i])]
    OBVIOUS
  <2>2. PICK g : g = CHOOSE h : h = [s \in SUBSET DOMAIN pairs |->
                       IF s = {} THEN 0 ELSE h[s \ {Max(s)}] + da(pairs[Max(s)]) * db(pairs[Max(s)])]
    OBVIOUS
  <2>3. Total(LAMBDA e : da(e) * db(e), pairs) = g[DOMAIN pairs]
    BY <2>2, Zenon DEF Total, FoldLeft, MapThenFoldSet
  <2>4. \A h : IsSum(h, n, v) <=>
          h = [s \in SUBSET DOMAIN pairs |->
                 IF s = {} THEN 0 ELSE h[s \ {Max(s)}] + da(pairs[Max(s)]) * db(pairs[Max(s)])]
    BY <1>1, <2>1 DEF IsSum
  <2>5. IsSum(g, n, v)
    BY <2>2, <2>4, SumExists, Zenon
  <2>6. Integers(v, n)
    BY <1>6, <1>7, <2>1 DEF Integers
  <2>7. Deviations(v, x, y, n, X[n], Y[n], n)
    BY <1>4, <1>5, <2>1, Zenon DEF Deviations
  <2>8. PICK D : IsTally(D, n, v)
    BY <2>6, TallyExists
  <2>9. D[n] = n * (n * P[n] - X[n] * Y[n])
    BY <2>7, <2>8, DeviationsAreCovariance
  <2>10. g[1 .. n] = D[n]
    BY <2>5, <2>6, <2>8, TotalTallies DEF Integers
  <2> QED
    BY <1>1, <2>3, <2>9, <2>10, Zenon DEF Cov
<1>9. Total(LAMBDA e : da(e) * da(e), pairs) = n * Cov(n, X, X, Q)
  <2>1. PICK v : v = [i \in 1 .. n |-> da(pairs[i]) * da(pairs[i])]
    OBVIOUS
  <2>2. PICK g : g = CHOOSE h : h = [s \in SUBSET DOMAIN pairs |->
                       IF s = {} THEN 0 ELSE h[s \ {Max(s)}] + da(pairs[Max(s)]) * da(pairs[Max(s)])]
    OBVIOUS
  <2>3. Total(LAMBDA e : da(e) * da(e), pairs) = g[DOMAIN pairs]
    BY <2>2, Zenon DEF Total, FoldLeft, MapThenFoldSet
  <2>4. \A h : IsSum(h, n, v) <=>
          h = [s \in SUBSET DOMAIN pairs |->
                 IF s = {} THEN 0 ELSE h[s \ {Max(s)}] + da(pairs[Max(s)]) * da(pairs[Max(s)])]
    BY <1>1, <2>1 DEF IsSum
  <2>5. IsSum(g, n, v)
    BY <2>2, <2>4, SumExists, Zenon
  <2>6. Integers(v, n)
    BY <1>6, <1>7, <2>1 DEF Integers
  <2>7. Deviations(v, x, x, n, X[n], X[n], n)
    BY <1>4, <1>5, <2>1, Zenon DEF Deviations
  <2>8. PICK D : IsTally(D, n, v)
    BY <2>6, TallyExists
  <2>9. D[n] = n * (n * Q[n] - X[n] * X[n])
    BY <2>7, <2>8, DeviationsAreCovariance
  <2>10. g[1 .. n] = D[n]
    BY <2>5, <2>6, <2>8, TotalTallies DEF Integers
  <2> QED
    BY <1>1, <2>3, <2>9, <2>10, Zenon DEF Cov
<1>10. Total(LAMBDA e : db(e) * db(e), pairs) = n * Cov(n, Y, Y, W)
  <2>1. PICK v : v = [i \in 1 .. n |-> db(pairs[i]) * db(pairs[i])]
    OBVIOUS
  <2>2. PICK g : g = CHOOSE h : h = [s \in SUBSET DOMAIN pairs |->
                       IF s = {} THEN 0 ELSE h[s \ {Max(s)}] + db(pairs[Max(s)]) * db(pairs[Max(s)])]
    OBVIOUS
  <2>3. Total(LAMBDA e : db(e) * db(e), pairs) = g[DOMAIN pairs]
    BY <2>2, Zenon DEF Total, FoldLeft, MapThenFoldSet
  <2>4. \A h : IsSum(h, n, v) <=>
          h = [s \in SUBSET DOMAIN pairs |->
                 IF s = {} THEN 0 ELSE h[s \ {Max(s)}] + db(pairs[Max(s)]) * db(pairs[Max(s)])]
    BY <1>1, <2>1 DEF IsSum
  <2>5. IsSum(g, n, v)
    BY <2>2, <2>4, SumExists, Zenon
  <2>6. Integers(v, n)
    BY <1>6, <1>7, <2>1 DEF Integers
  <2>7. Deviations(v, y, y, n, Y[n], Y[n], n)
    BY <1>4, <1>5, <2>1, Zenon DEF Deviations
  <2>8. PICK D : IsTally(D, n, v)
    BY <2>6, TallyExists
  <2>9. D[n] = n * (n * W[n] - Y[n] * Y[n])
    BY <2>7, <2>8, DeviationsAreCovariance
  <2>10. g[1 .. n] = D[n]
    BY <2>5, <2>6, <2>8, TotalTallies DEF Integers
  <2> QED
    BY <1>1, <2>3, <2>9, <2>10, Zenon DEF Cov
<1>11. Pearson(pairs) =
         LET varA == Total(LAMBDA e : da(e) * da(e), pairs)
             varB == Total(LAMBDA e : db(e) * db(e), pairs)
         IN IF Len(pairs) = 0 \/ varA = 0 \/ varB = 0 THEN [num |-> 0, den |-> 1]
            ELSE [num |-> Total(LAMBDA e : da(e) * db(e), pairs), den |-> varA * varB]
  BY Zenon DEF Pearson, da, db
<1> QED
  BY <1>8, <1>9, <1>10, <1>11, Zenon DEF Columns

-----------------------------------------------------------------------------
(* Covariances over days                                                    *)

(* The sums Covariance takes.                                               *)
SumOf(r, D) == MapThenSumSet(LAMBDA d : ReturnOn(r, d), D)
SumOfProducts(r, t, D) == MapThenSumSet(LAMBDA d : ReturnOn(r, d) * ReturnOn(t, d), D)

(* Returns by the number of their day.                                      *)
ReturnsBy(x, r, day, n) == \A k \in 1 .. n : x[k] = ReturnOn(r, day[k])

(* The returns of a set of days.                                            *)
LEMMA ReturnsAdd ==
  ASSUME NEW n \in Nat, NEW D, NEW day, Numbers(day, n, D), NEW r,
         NEW x, Integers(x, n), ReturnsBy(x, r, day, n), NEW X, IsTally(X, n, x)
  PROVE  SumOf(r, D) = X[n]
<1>1. PICK v : v = [d \in D |-> ReturnOn(r, d)]
  OBVIOUS
<1>2. PICK g : g = CHOOSE h : h = [s \in SUBSET D |->
                     IF s = {} THEN 0
                     ELSE ReturnOn(r, Some(s)) + h[s \ {Some(s)}]]
  OBVIOUS
<1>3. SumOf(r, D) = g[D]
  BY <1>2, Zenon DEF SumOf, SumOfProducts, MapThenSumSet, MapThenFoldSet, Some
<1>4. \A s \in SUBSET D : s # {} => v[Some(s)] = ReturnOn(r, Some(s))
  BY <1>1 DEF Some
<1>5. \A h : IsSetSum(h, D, v) <=>
        h = [s \in SUBSET D |->
               IF s = {} THEN 0
               ELSE ReturnOn(r, Some(s)) + h[s \ {Some(s)}]]
  BY <1>4 DEF IsSetSum
<1>6. IsSetSum(g, D, v)
  <2>1. IsFiniteSet(D)
    BY NumbersCount
  <2>2. \E h : IsSetSum(h, D, v)
    BY <2>1, SetSumExists
  <2> QED
    BY <1>2, <1>5, <2>2, Zenon
<1>7. \A k \in 1 .. n : day[k] \in D /\ x[k] = v[day[k]]
  BY <1>1 DEF Numbers, ReturnsBy
<1>8. \A d \in D : v[d] \in Int
  BY <1>7 DEF Numbers, Integers
<1>9. g[D] = X[n]
  BY <1>6, <1>7, <1>8, DaysTally
<1> QED
  BY <1>3, <1>9

(* And the products of two series' returns.                                 *)
LEMMA ProductsAdd ==
  ASSUME NEW n \in Nat, NEW D, NEW day, Numbers(day, n, D), NEW r, NEW t,
         NEW x, NEW y, ReturnsBy(x, r, day, n), ReturnsBy(y, t, day, n),
         NEW p, Integers(p, n), Products(p, x, y, n), NEW P, IsTally(P, n, p)
  PROVE  SumOfProducts(r, t, D) = P[n]
<1>1. PICK v : v = [d \in D |-> ReturnOn(r, d) * ReturnOn(t, d)]
  OBVIOUS
<1>2. PICK g : g = CHOOSE h : h = [s \in SUBSET D |->
                     IF s = {} THEN 0
                     ELSE ReturnOn(r, Some(s)) * ReturnOn(t, Some(s))
                            + h[s \ {Some(s)}]]
  OBVIOUS
<1>3. SumOfProducts(r, t, D) = g[D]
  BY <1>2, Zenon DEF SumOf, SumOfProducts, MapThenSumSet, MapThenFoldSet, Some
<1>4. \A s \in SUBSET D : s # {} => v[Some(s)] = ReturnOn(r, Some(s)) * ReturnOn(t, Some(s))
  BY <1>1 DEF Some
<1>5. \A h : IsSetSum(h, D, v) <=>
        h = [s \in SUBSET D |->
               IF s = {} THEN 0
               ELSE ReturnOn(r, Some(s)) * ReturnOn(t, Some(s))
                      + h[s \ {Some(s)}]]
  BY <1>4 DEF IsSetSum
<1>6. IsSetSum(g, D, v)
  <2>1. IsFiniteSet(D)
    BY NumbersCount
  <2>2. \E h : IsSetSum(h, D, v)
    BY <2>1, SetSumExists
  <2> QED
    BY <1>2, <1>5, <2>2, Zenon
<1>7. \A k \in 1 .. n : day[k] \in D /\ p[k] = v[day[k]]
  BY <1>1, Zenon DEF Numbers, ReturnsBy, Products
<1>8. \A d \in D : v[d] \in Int
  BY <1>7 DEF Numbers, Integers
<1>9. g[D] = P[n]
  BY <1>6, <1>7, <1>8, DaysTally
<1> QED
  BY <1>3, <1>9

(* The covariance of two series over numbered days.                         *)
LEMMA CovarianceIs ==
  ASSUME NEW n \in Nat, NEW D, NEW day, Numbers(day, n, D), NEW r, NEW t,
         NEW x, NEW y, ReturnsBy(x, r, day, n), ReturnsBy(y, t, day, n),
         NEW p, NEW X, NEW Y, NEW P, Sums(n, x, y, p, X, Y, P)
  PROVE  Covariance(r, t, D) = Cov(n, X, Y, P)
<1>1. Cardinality(D) = n
  BY NumbersCount
<1>2. Integers(p, n)
  <2>1. \A k \in 1 .. n : p[k] = x[k] * y[k] /\ x[k] \in Int /\ y[k] \in Int
    BY DEF Sums, Products, Integers
  <2>2. \A a, b \in Int : a * b \in Int
    OBVIOUS
  <2> QED
    BY <2>1, <2>2, Zenon DEF Integers
<1>3. SumOf(r, D) = X[n]
  BY ReturnsAdd, ZenonT(40) DEF Sums
<1>4. SumOf(t, D) = Y[n]
  BY ReturnsAdd, ZenonT(40) DEF Sums
<1>5. SumOfProducts(r, t, D) = P[n]
  <2>1. Products(p, x, y, n) /\ IsTally(P, n, p)
    BY DEF Sums
  <2> QED
    BY <1>2, <2>1, ProductsAdd
<1> QED
  BY <1>1, <1>3, <1>4, <1>5, Zenon DEF Covariance, Cov, SumOf, SumOfProducts

-----------------------------------------------------------------------------
(* The correlation                                                          *)

(* What is nowhere negative adds up to what is not.                         *)
LEMMA TallyGrows ==
  ASSUME NEW n \in Nat, NEW v, \A k \in 1 .. n : v[k] \in Nat, NEW sum, IsTally(sum, n, v)
  PROVE  sum[n] \in Nat
<1> DEFINE S == {m \in Nat : m <= n => sum[m] \in Nat}
<1>1. 0 \in S
  BY DEF IsTally
<1>2. ASSUME NEW m \in Nat, m \in S PROVE m + 1 \in S
  <2> SUFFICES ASSUME m + 1 <= n PROVE sum[m + 1] \in Nat
    OBVIOUS
  <2>1. m + 1 \in 1 .. n /\ (m + 1) - 1 = m /\ sum[m] \in Nat
    BY <1>2
  <2>2. sum[m + 1] = sum[m] + v[m + 1] /\ v[m + 1] \in Nat
    BY <2>1 DEF IsTally
  <2> QED
    BY <2>1, <2>2
<1>3. n \in S
  <2> HIDE DEF S
  <2>1. Nat \subseteq S
    BY <1>1, <1>2, Upward
  <2> QED
    BY <2>1
<1> QED
  BY <1>3

(* A series' covariance with itself is not negative.                        *)
LEMMA VarianceType ==
  ASSUME NEW n \in Nat, NEW x, NEW q, NEW X, NEW Q, Sums(n, x, x, q, X, X, Q)
  PROVE  n * Cov(n, X, X, Q) \in Nat
<1>1. PICK A \in Int : A = X[n]
  BY TallyType DEF Sums
<1>2. PICK d : d = [k \in 1 .. n |-> (n * x[k] - A) * (n * x[k] - A)]
  OBVIOUS
<1>3. \A k \in 1 .. n : d[k] \in Nat
  <2>1. \A a \in Int : (n * a - A) * (n * a - A) \in Nat
    <3>1. \A i \in Int : i * i \in Nat
      OBVIOUS
    <3>2. \A a \in Int : n * a - A \in Int
      OBVIOUS
    <3> QED
      BY <3>1, <3>2, Zenon
  <2>2. \A k \in 1 .. n : x[k] \in Int
    BY DEF Sums, Integers
  <2> QED
    BY <1>2, <2>1, <2>2
<1>4. Integers(d, n)
  BY <1>3 DEF Integers
<1>5. PICK D : IsTally(D, n, d)
  BY <1>4, TallyExists
<1>6. Deviations(d, x, x, n, X[n], X[n], n)
  BY <1>1, <1>2, Zenon DEF Deviations
<1>7. D[n] = n * (n * Q[n] - X[n] * X[n])
  BY <1>5, <1>6, DeviationsAreCovariance
<1>8. D[n] \in Nat
  BY <1>3, <1>5, TallyGrows
<1> QED
  BY <1>7, <1>8, Zenon DEF Cov

(* A correlation: num over the square root of den.                          *)
Fractions == [num : Int, den : Nat \ {0}]

(* The same correlation from n squared times the covariances and, as the    *)
(* code does, from n times that.                                            *)
LEMMA SameFraction ==
  ASSUME NEW n \in Nat, NEW a \in Int, NEW b \in Int, NEW k \in Int,
         n * a \in Nat, n * b \in Nat, n = 0 => a = 0,
         NEW c, c = IF n = 0 \/ n * a = 0 \/ n * b = 0 THEN [num |-> 0, den |-> 1]
                    ELSE [num |-> n * k, den |-> (n * a) * (n * b)],
         NEW e, e = IF a * b = 0 THEN [num |-> 0, den |-> 1] ELSE [num |-> k, den |-> a * b]
  PROVE  c \in Fractions /\ e \in Fractions /\ SameCorr(c, e)
<1>1. CASE n = 0 \/ a = 0 \/ b = 0
  <2>1. n * a = 0 \/ n * b = 0
    BY <1>1
  <2>2. a * b = 0
    BY <1>1
  <2>3. c = [num |-> 0, den |-> 1] /\ e = [num |-> 0, den |-> 1]
    BY <2>1, <2>2
  <2> QED
    BY <2>3 DEF Fractions, SameCorr, Beyond
<1>2. CASE n # 0 /\ a # 0 /\ b # 0
  <2>1. \A i \in Int : n * i \in Nat /\ i # 0 => i \in Nat \ {0} /\ n * i \in Nat \ {0}
    BY <1>2
  <2>2. a \in Nat \ {0} /\ b \in Nat \ {0} /\ n * a \in Nat \ {0} /\ n * b \in Nat \ {0}
    BY <1>2, <2>1
  <2>3. \A i, j \in Nat \ {0} : i * j \in Nat \ {0}
    OBVIOUS
  <2>4. a * b \in Nat \ {0} /\ (n * a) * (n * b) \in Nat \ {0}
    BY <2>2, <2>3
  <2>5. c = [num |-> n * k, den |-> (n * a) * (n * b)] /\ e = [num |-> k, den |-> a * b]
    BY <1>2, <2>2, <2>4
  <2>6. n * k \in Int /\ (n * k > 0 <=> k > 0)
    BY <1>2
  <2>7. (n * k) * (n * k) * (a * b) = k * k * ((n * a) * (n * b))
    OBVIOUS
  <2>8. (n * k) * (n * k) * (a * b) \in Int
    OBVIOUS
  <2>9. c \in Fractions /\ e \in Fractions
    BY <2>4, <2>5, <2>6 DEF Fractions
  <2>10. \A i, j \in Int : i = j => ~(i > j) /\ ~(j > i)
    OBVIOUS
  <2>11. ~Beyond(c, e) /\ ~Beyond(e, c)
    <3>1. c.num = n * k /\ c.den = (n * a) * (n * b) /\ e.num = k /\ e.den = a * b
      BY <2>5
    <3> QED
      BY <2>7, <2>8, <2>10, <3>1, Zenon DEF Beyond
  <2>12. c.num > 0 <=> e.num > 0
    BY <2>5, <2>6
  <2> QED
    BY <2>9, <2>11, <2>12 DEF SameCorr
<1> QED
  BY <1>1, <1>2

(* Their correlation is that over the days.                                 *)
LEMMA PairsCorrelate ==
  ASSUME NEW r, NEW t, NEW pairs \in Seq(Int \X Int), NEW day, IsPairs(pairs, r, t, day)
  PROVE  /\ Len(pairs) \in Nat /\ Len(pairs) = Cardinality(Overlap(r, t))
         /\ Pearson(pairs) \in Fractions /\ TrueCorr(r, t) \in Fractions
         /\ SameCorr(Pearson(pairs), TrueCorr(r, t))
<1>2. PICK n \in Nat : n = Len(pairs)
  OBVIOUS
<1>3. PICK D : D = Overlap(r, t)
  OBVIOUS
<1>4. /\ Numbers(day, n, D)
      /\ \A k \in 1 .. n : pairs[k] = <<ReturnOn(r, day[k]), ReturnOn(t, day[k])>>
  BY <1>2, <1>3, Zenon DEF IsPairs
<1>5. PICK x, y : x = [k \in 1 .. n |-> pairs[k][1]] /\ y = [k \in 1 .. n |-> pairs[k][2]]
  OBVIOUS
<1>6. Integers(x, n) /\ Integers(y, n) /\ Columns(x, y, pairs, n)
  <2>1. \A k \in 1 .. n : pairs[k] \in Int \X Int
    BY <1>2
  <2>2. \A k \in 1 .. n : pairs[k][1] \in Int /\ pairs[k][2] \in Int
    BY <2>1
  <2> QED
    BY <1>2, <1>5, <2>2 DEF Integers, Columns
<1>7. ReturnsBy(x, r, day, n) /\ ReturnsBy(y, t, day, n)
  BY <1>4, <1>5 DEF ReturnsBy
<1>8. PICK p, q, w : /\ p = [k \in 1 .. n |-> x[k] * y[k]]
                     /\ q = [k \in 1 .. n |-> x[k] * x[k]]
                     /\ w = [k \in 1 .. n |-> y[k] * y[k]]
  OBVIOUS
<1>9. /\ Products(p, x, y, n) /\ Products(q, x, x, n) /\ Products(w, y, y, n)
      /\ Integers(p, n) /\ Integers(q, n) /\ Integers(w, n)
  <2>1. \A i, j \in Int : i * j \in Int
    OBVIOUS
  <2>2. \A k \in 1 .. n : x[k] * y[k] \in Int /\ x[k] * x[k] \in Int /\ y[k] * y[k] \in Int
    BY <1>6, <2>1, Zenon DEF Integers
  <2>3. Products(p, x, y, n) /\ Products(q, x, x, n) /\ Products(w, y, y, n)
    BY <1>8 DEF Products
  <2> QED
    BY <2>2, <2>3 DEF Integers, Products
<1>10. PICK X : IsTally(X, n, x)
  BY <1>6, TallyExists
<1>11. PICK Y : IsTally(Y, n, y)
  BY <1>6, TallyExists
<1>12. PICK P : IsTally(P, n, p)
  BY <1>9, TallyExists
<1>13. PICK Q : IsTally(Q, n, q)
  BY <1>9, TallyExists
<1>14. PICK W : IsTally(W, n, w)
  BY <1>9, TallyExists
<1>15. Sums(n, x, y, p, X, Y, P) /\ Sums(n, x, x, q, X, X, Q) /\ Sums(n, y, y, w, Y, Y, W)
  BY <1>6, <1>9, <1>10, <1>11, <1>12, <1>13, <1>14, Zenon DEF Sums
<1>16. PICK a \in Int, b \in Int, c \in Int :
         a = Cov(n, X, X, Q) /\ b = Cov(n, Y, Y, W) /\ c = Cov(n, X, Y, P)
  <2>1. X[n] \in Int /\ Y[n] \in Int /\ P[n] \in Int /\ Q[n] \in Int /\ W[n] \in Int
    BY <1>10, <1>11, <1>12, <1>13, <1>14, TallyType
  <2>2. \A i, j, h \in Int : n * h - i * j \in Int
    OBVIOUS
  <2> QED
    BY <2>1, <2>2, Zenon DEF Cov
<1>17. n * a \in Nat /\ n * b \in Nat
  BY <1>15, <1>16, VarianceType
<1>18. n = 0 => a = 0
  <2> SUFFICES ASSUME n = 0 PROVE a = 0
    OBVIOUS
  <2>1. X[0] = 0 /\ Q[0] = 0
    BY <1>10, <1>13 DEF IsTally
  <2> QED
    BY <1>16, <2>1 DEF Cov
<1>19. Pearson(pairs) =
         IF n = 0 \/ n * a = 0 \/ n * b = 0 THEN [num |-> 0, den |-> 1]
         ELSE [num |-> n * c, den |-> (n * a) * (n * b)]
  <2>1. Pearson(pairs) =
           IF n = 0 \/ n * Cov(n, X, X, Q) = 0 \/ n * Cov(n, Y, Y, W) = 0
           THEN [num |-> 0, den |-> 1]
           ELSE [num |-> n * Cov(n, X, Y, P),
                 den |-> (n * Cov(n, X, X, Q)) * (n * Cov(n, Y, Y, W))]
    <3>1. AllSums(pairs, n, x, y, p, q, w, X, Y, P, Q, W)
      BY <1>6, <1>15, Zenon DEF AllSums
    <3> QED
      BY <3>1, PearsonAdds
  <2> QED
    BY <1>16, <2>1, Zenon
<1>20. Covariance(r, t, D) = c
  BY <1>4, <1>7, <1>15, <1>16, CovarianceIs
<1>21. Covariance(r, r, D) = a
  BY <1>4, <1>7, <1>15, <1>16, CovarianceIs
<1>22. Covariance(t, t, D) = b
  BY <1>4, <1>7, <1>15, <1>16, CovarianceIs
<1>23. TrueCorr(r, t) = IF a * b = 0 THEN [num |-> 0, den |-> 1] ELSE [num |-> c, den |-> a * b]
  BY <1>3, <1>20, <1>21, <1>22, Zenon DEF TrueCorr
<1>24. /\ Pearson(pairs) \in Fractions /\ TrueCorr(r, t) \in Fractions
       /\ SameCorr(Pearson(pairs), TrueCorr(r, t))
  BY <1>17, <1>18, <1>19, <1>23, SameFraction
<1>25. Cardinality(D) = n
  BY <1>4, NumbersCount
<1> QED
  BY <1>2, <1>3, <1>24, <1>25

(* What MaxSelfCorr scores a neighbour with is the correlation over the     *)
(* days both series have a return on.                                       *)
THEOREM CorrelationIs ==
  ASSUME NEW r, IsPnL(r), NEW t, IsPnL(t)
  PROVE  LET pairs == AlignReturns(Returns(r), Returns(t))
         IN /\ Len(pairs) \in Nat /\ Len(pairs) = Cardinality(Overlap(r, t))
            /\ Pearson(pairs) \in Fractions /\ TrueCorr(r, t) \in Fractions
            /\ SameCorr(Pearson(pairs), TrueCorr(r, t))
<1>0. PICK pairs : pairs = AlignReturns(Returns(r), Returns(t))
  OBVIOUS
<1>1. /\ pairs \in Seq(Int \X Int)
      /\ \E day : IsPairs(pairs, r, t, day)
  BY <1>0, PairsGive
<1>2. /\ Len(pairs) \in Nat /\ Len(pairs) = Cardinality(Overlap(r, t))
      /\ Pearson(pairs) \in Fractions /\ TrueCorr(r, t) \in Fractions
      /\ SameCorr(Pearson(pairs), TrueCorr(r, t))
  BY <1>1, PairsCorrelate
<1> QED
  BY <1>0, <1>2, Zenon

-----------------------------------------------------------------------------
(* The ranking                                                              *)

(* A sort of what was scored: every neighbour at one place, none beyond one *)
(* before it, and those that tie in the order they came in.                 *)
IsRanking(all, scored, moved) ==
  /\ moved \in Bijection(DOMAIN scored, DOMAIN scored)
  /\ all = [k \in DOMAIN scored |-> scored[moved[k]]]
  /\ \A k, l \in DOMAIN scored : k < l =>
       /\ ~Ranks(all[l], all[k])
       /\ ~Ranks(all[k], all[l]) => moved[k] < moved[l]

(* Fractions are compared by cross-multiplication.                          *)
LEMMA CrossMultiply ==
  \A x, y, z \in Nat, p, q, r \in Nat \ {0} :
    y * p <= x * q /\ z * q <= y * r => z * p <= x * r
<1> SUFFICES ASSUME NEW x \in Nat, NEW y \in Nat, NEW z \in Nat,
                    NEW p \in Nat \ {0}, NEW q \in Nat \ {0}, NEW r \in Nat \ {0},
                    y * p <= x * q, z * q <= y * r, z * p > x * r
             PROVE  FALSE
  OBVIOUS
<1>0. \A a, b, c \in Nat : a <= b => a * c <= b * c
  OBVIOUS
<1>1. \A a, b \in Nat, c \in Nat \ {0} : a < b => a * c < b * c
  OBVIOUS
<1>a. \A a, b, c \in Nat : (a * b) * c = (a * c) * b /\ a * b \in Nat
  OBVIOUS
<1>2. (x * r) * q < (z * p) * q
  BY <1>1, <1>a, Zenon
<1>3. (z * q) * p <= (y * r) * p
  BY <1>0
<1>4. (y * p) * r <= (x * q) * r
  BY <1>0
<1>5. (z * p) * q = (z * q) * p /\ (y * r) * p = (y * p) * r /\ (x * q) * r = (x * r) * q
  BY <1>a
<1>6. (x * r) * q \in Nat /\ (z * p) * q \in Nat /\ (y * r) * p \in Nat
  BY <1>a
<1> QED
  BY <1>2, <1>3, <1>4, <1>5, <1>6

(* To be beyond is a strict weak order.                                     *)
LEMMA BeyondOrders ==
  ASSUME NEW d \in Fractions, NEW e \in Fractions, NEW f \in Fractions
  PROVE  /\ Beyond(d, e) => ~Beyond(e, d)
         /\ ~Beyond(d, e) /\ ~Beyond(e, f) => ~Beyond(d, f)
<1>1. \A c \in Fractions : c.num * c.num \in Nat /\ c.den \in Nat \ {0} /\ c.num \in Int
  <2>1. \A i \in Int : i * i \in Nat
    OBVIOUS
  <2> QED
    BY <2>1 DEF Fractions
<1>2. \A b, c \in Fractions : ~Beyond(b, c) <=> b.num * b.num * c.den <= c.num * c.num * b.den
  <2>1. \A x, y \in Nat, p, q \in Nat \ {0} : ~(x * p > y * q) <=> x * p <= y * q
    OBVIOUS
  <2> QED
    BY <1>1, <2>1 DEF Beyond
<1>3. ASSUME Beyond(d, e) PROVE ~Beyond(e, d)
  <2>1. \A x, y \in Nat, p, q \in Nat \ {0} : x * p > y * q => ~(y * q > x * p)
    OBVIOUS
  <2> QED
    BY <1>1, <1>3, <2>1 DEF Beyond
<1>4. ASSUME ~Beyond(d, e), ~Beyond(e, f) PROVE ~Beyond(d, f)
  <2>1. d.num * d.num * e.den <= e.num * e.num * d.den
    BY <1>2, <1>4
  <2>2. e.num * e.num * f.den <= f.num * f.num * e.den
    BY <1>2, <1>4
  <2>3. d.num * d.num * f.den <= f.num * f.num * d.den
    BY <1>1, <2>1, <2>2, CrossMultiply
  <2> QED
    BY <1>2, <2>3
<1> QED
  BY <1>3, <1>4

(* less is one, which a sort needs.                                         *)
LEMMA RanksOrders ==
  ASSUME NEW a, NEW b, NEW c,
         a.corr \in Fractions, b.corr \in Fractions, c.corr \in Fractions
  PROVE  /\ Ranks(a, b) => ~Ranks(b, a)
         /\ ~Ranks(a, b) /\ ~Ranks(b, c) => ~Ranks(a, c)
  BY BeyondOrders DEF Ranks

(* It does not tell a correlation from the same one.                        *)
LEMMA SameOrder ==
  ASSUME NEW c \in Fractions, NEW d \in Fractions, NEW c1 \in Fractions, NEW d1 \in Fractions,
         SameCorr(c, c1), SameCorr(d, d1), ~Beyond(c, d)
  PROVE  ~Beyond(c1, d1)
<1>1. ~Beyond(c1, c) /\ ~Beyond(d, d1)
  BY DEF SameCorr
<1>2. ~Beyond(c1, d)
  BY <1>1, BeyondOrders
<1> QED
  BY <1>1, <1>2, BeyondOrders

(* Ranked sorts.                                                            *)
THEOREM RankedSorts ==
  ASSUME NEW n \in Nat, NEW scored, DOMAIN scored = 1 .. n,
         \A i \in 1 .. n : scored[i].corr \in Fractions
  PROVE  \E moved : IsRanking(Ranked(scored), scored, moved)
<1> DEFINE Before(j, i) == Ranks(scored[j], scored[i]) \/ (j <= i /\ ~Ranks(scored[i], scored[j]))
           Place(i) == {j \in 1 .. n : Before(j, i)}
           place == [i \in 1 .. n |-> Cardinality(Place(i))]
           moved == [k \in 1 .. n |-> CHOOSE i \in 1 .. n : place[i] = k]
<1>1. \A i, j, k \in 1 .. n :
        /\ Ranks(scored[i], scored[j]) => ~Ranks(scored[j], scored[i])
        /\ ~Ranks(scored[i], scored[j]) /\ ~Ranks(scored[j], scored[k]) => ~Ranks(scored[i], scored[k])
  BY RanksOrders
<1>2. \A i, j \in 1 .. n :
        /\ Before(i, i)
        /\ Before(i, j) \/ Before(j, i)
        /\ Before(i, j) /\ Before(j, i) => i = j
        /\ Before(i, j) => ~Ranks(scored[j], scored[i])
        /\ Before(i, j) /\ ~Ranks(scored[i], scored[j]) => i <= j
  BY <1>1
<1>3. \A i, j, k \in 1 .. n : Before(i, j) /\ Before(j, k) => Before(i, k)
  <2> SUFFICES ASSUME NEW i \in 1 .. n, NEW j \in 1 .. n, NEW k \in 1 .. n,
                      Before(i, j), Before(j, k), ~Ranks(scored[i], scored[k])
               PROVE  i <= k /\ ~Ranks(scored[k], scored[i])
    OBVIOUS
  <2>1. ~Ranks(scored[j], scored[i]) /\ ~Ranks(scored[k], scored[j])
    BY <1>2
  <2>2. ~Ranks(scored[k], scored[i]) /\ ~Ranks(scored[i], scored[j]) /\ ~Ranks(scored[j], scored[k])
    BY <1>1, <2>1
  <2>3. i <= j /\ j <= k
    BY <2>2
  <2> QED
    BY <2>2, <2>3
<1> HIDE DEF Before
<1>4. IsFiniteSet(1 .. n) /\ Cardinality(1 .. n) = n
  BY FS_Interval
<1>5. ASSUME NEW i \in 1 .. n
      PROVE  /\ IsFiniteSet(Place(i))
             /\ Cardinality(Place(i)) \in Nat /\ Cardinality(Place(i)) \in 1 .. n
  <2>1. Place(i) \subseteq 1 .. n /\ i \in Place(i)
    BY <1>2
  <2>2. IsFiniteSet(Place(i)) /\ Cardinality(Place(i)) <= n
    BY <1>4, <2>1, FS_Subset
  <2>3. Cardinality(Place(i)) \in Nat /\ Cardinality(Place(i)) # 0
    BY <2>1, <2>2, FS_CardinalityType, FS_EmptySet
  <2> QED
    BY <2>2, <2>3
<1>6. ASSUME NEW i \in 1 .. n, NEW k \in 1 .. n, Before(i, k), i # k
      PROVE  Cardinality(Place(i)) < Cardinality(Place(k))
  <2>1. Place(i) \subseteq Place(k) /\ k \in Place(k) /\ k \notin Place(i)
    BY <1>2, <1>3, <1>6
  <2>2. /\ Cardinality(Place(i)) <= Cardinality(Place(k))
        /\ Cardinality(Place(k)) # Cardinality(Place(i))
    BY <1>5, <2>1, FS_Subset
  <2>3. \A a, b \in Nat : a <= b /\ b # a => a < b
    OBVIOUS
  <2>4. Cardinality(Place(i)) \in Nat /\ Cardinality(Place(k)) \in Nat
    BY <1>5, Zenon
  <2> QED
    BY <2>2, <2>3, <2>4, Zenon
<1>7. place \in Injection(1 .. n, 1 .. n)
  <2>1. place \in [1 .. n -> 1 .. n]
    BY <1>5
  <2>2. ASSUME NEW i \in 1 .. n, NEW k \in 1 .. n, place[i] = place[k] PROVE i = k
    <3>1. ~(Cardinality(Place(i)) < Cardinality(Place(k))) /\ ~(Cardinality(Place(k)) < Cardinality(Place(i)))
      <4>1. \A a, b \in Nat : a = b => ~(a < b) /\ ~(b < a)
        OBVIOUS
      <4>2. Cardinality(Place(i)) \in Nat /\ Cardinality(Place(k)) \in Nat
        BY <1>5, Zenon
      <4>3. Cardinality(Place(i)) = Cardinality(Place(k))
        BY <2>2
      <4> QED
        BY <4>1, <4>2, <4>3, Zenon
    <3> QED
      BY <1>2, <1>6, <3>1
  <2> QED
    BY <2>1, <2>2 DEF Injection, IsInjective
<1>8. \A k \in 1 .. n : \E i \in 1 .. n : place[i] = k
  <2>1. place \in Surjection(1 .. n, 1 .. n)
    BY <1>4, <1>7, FS_Injection
  <2> QED
    BY <2>1 DEF Surjection
<1>9. \A k \in 1 .. n : moved[k] \in 1 .. n /\ place[moved[k]] = k
  BY <1>8
<1>10. \A i \in 1 .. n : place[i] \in 1 .. n /\ place[i] = Cardinality(Place(i))
  BY <1>5
<1>11. Ranked(scored) = [k \in 1 .. n |-> scored[moved[k]]]
  <2> DEFINE Rank(i) == Cardinality({j \in DOMAIN scored :
                           \/ Ranks(scored[j], scored[i])
                           \/ j <= i /\ ~Ranks(scored[i], scored[j])})
             At(k) == CHOOSE i \in DOMAIN scored : Rank(i) = k
  <2>1. Ranked(scored) = [k \in DOMAIN scored |-> scored[At(k)]]
    BY Zenon DEF Ranked
  <2>2. \A i \in 1 .. n : place[i] = Rank(i)
    BY DEF Before
  <2> HIDE DEF Rank, place
  <2>3. ASSUME NEW k \in 1 .. n PROVE moved[k] = At(k)
    <3>1. \A i : i \in 1 .. n /\ place[i] = k <=> i \in DOMAIN scored /\ Rank(i) = k
      BY <2>2
    <3>2. moved[k] = CHOOSE i \in 1 .. n : place[i] = k
      OBVIOUS
    <3> QED
      BY <3>1, <3>2
  <2> HIDE DEF At, moved
  <2> QED
    BY <2>1, <2>3
<1> HIDE DEF place, moved, Place
<1>12. moved \in Bijection(1 .. n, 1 .. n)
  <2>0. moved \in [1 .. n -> 1 .. n]
    <3>1. DOMAIN moved = 1 .. n /\ moved = [k \in 1 .. n |-> moved[k]]
      BY DEF moved
    <3> QED
      BY <1>9, <3>1
  <2>1. \A k, l \in 1 .. n : moved[k] = moved[l] => k = l
    BY <1>9
  <2>2. \A i \in 1 .. n : \E k \in 1 .. n : moved[k] = i
    <3> TAKE i \in 1 .. n
    <3>1. place[i] \in 1 .. n /\ place[moved[place[i]]] = place[i] /\ moved[place[i]] \in 1 .. n
      BY <1>9, <1>10
    <3>2. moved[place[i]] = i
      BY <1>7, <3>1 DEF Injection, IsInjective
    <3> QED
      BY <3>1, <3>2
  <2> QED
    BY <2>0, <2>1, <2>2 DEF Bijection, Injection, Surjection, IsInjective
<1>13. ASSUME NEW k \in 1 .. n, NEW l \in 1 .. n, k < l
       PROVE  Before(moved[k], moved[l]) /\ moved[k] # moved[l]
  <2>1. place[moved[k]] = k /\ place[moved[l]] = l /\ moved[k] \in 1 .. n /\ moved[l] \in 1 .. n
    BY <1>9
  <2>2. moved[k] # moved[l]
    BY <1>13, <2>1
  <2>3. ASSUME Before(moved[l], moved[k]) PROVE FALSE
    <3>1. Cardinality(Place(moved[l])) < Cardinality(Place(moved[k]))
      BY <1>6, <2>1, <2>2, <2>3
    <3>2. l < k
      BY <1>10, <2>1, <3>1
    <3> QED
      BY <1>13, <3>2
  <2> QED
    BY <1>2, <2>1, <2>2, <2>3
<1>14. ASSUME NEW k \in 1 .. n, NEW l \in 1 .. n, k < l
       PROVE  /\ ~Ranks(scored[moved[l]], scored[moved[k]])
              /\ ~Ranks(scored[moved[k]], scored[moved[l]]) => moved[k] < moved[l]
  <2>1. moved[k] \in 1 .. n /\ moved[l] \in 1 .. n
    BY <1>9
  <2>2. ~Ranks(scored[moved[k]], scored[moved[l]]) => moved[k] <= moved[l]
    BY <1>2, <1>13, <1>14, <2>1
  <2>3. ~Ranks(scored[moved[l]], scored[moved[k]])
    BY <1>2, <1>13, <1>14, <2>1
  <2>4. moved[k] # moved[l]
    BY <1>13, <1>14
  <2> QED
    BY <2>1, <2>2, <2>3, <2>4
<1>15. IsRanking(Ranked(scored), scored, moved)
  BY <1>11, <1>12, <1>14 DEF IsRanking
<1> QED
  BY <1>15

-----------------------------------------------------------------------------
(* MaxSelfCorr                                                              *)

(* Series to compare with own, by their places.                             *)
IsGiven(nbs, ids, recs, m) ==
  /\ nbs = [k \in 1 .. m |-> [id |-> ids[k], returns |-> Returns(recs[k])]]
  /\ \A k \in 1 .. m : IsPnL(recs[k])

(* Those with enough days in common.                                        *)
Fit(own, recs, m) == {k \in 1 .. m : Cardinality(Overlap(own, recs[k])) >= MinOverlapDays}

(* An entry of the result about one of them.                                *)
IsEntry(e, own, id, records) ==
  /\ e.id = id
  /\ e.overlap = Cardinality(Overlap(own, records))
  /\ e.corr \in Fractions
  /\ SameCorr(e.corr, TrueCorr(own, records))

(* A list of entries about f of them, none beyond one before it.            *)
IsList(all, f, rank, own, ids, recs, m) ==
  /\ all \in Seq({all[k] : k \in 1 .. f}) /\ Len(all) = f /\ DOMAIN all = 1 .. f
  /\ Numbers(rank, f, Fit(own, recs, m))
  /\ \A k \in 1 .. f : IsEntry(all[k], own, ids[rank[k]], recs[rank[k]])
  /\ \A k, l \in 1 .. f : k < l => ~Beyond(all[l].corr, all[k].corr)

(* What MaxSelfCorr ranks, and the places of that.                          *)
IsScoring(F, fit, scored, own, nbs) ==
  /\ F = {i \in DOMAIN nbs : Len(AlignReturns(Returns(own), nbs[i].returns)) >= MinOverlapDays}
  /\ fit = Kept(nbs, F)
  /\ scored = [i \in DOMAIN fit |-> [id |-> fit[i].id,
                                     corr |-> Pearson(AlignReturns(Returns(own), fit[i].returns)),
                                     overlap |-> Len(AlignReturns(Returns(own), fit[i].returns))]]

(* What MaxSelfCorr ranks are those that fit.                               *)
LEMMA ScoredAreRanked ==
  ASSUME NEW own, IsPnL(own), NEW m \in Nat, NEW nbs, NEW ids, NEW recs,
         IsGiven(nbs, ids, recs, m),
         NEW F, NEW fit, NEW scored, IsScoring(F, fit, scored, own, nbs)
  PROVE  /\ Cardinality(Fit(own, recs, m)) \in Nat
         /\ Len(nbs) = m /\ Len(fit) = Cardinality(Fit(own, recs, m))
         /\ \E rank : IsList(Ranked(scored), Cardinality(Fit(own, recs, m)), rank, own, ids, recs, m)
<1>1. /\ DOMAIN nbs = 1 .. m
      /\ \A k \in 1 .. m : nbs[k].id = ids[k] /\ nbs[k].returns = Returns(recs[k]) /\ IsPnL(recs[k])
      /\ Len(nbs) = m
  <2>1. PICK T : T = {nbs[k] : k \in 1 .. m}
    OBVIOUS
  <2>2. nbs = [k \in 1 .. m |-> nbs[k]]
    BY DEF IsGiven
  <2>3. Len(nbs) = m /\ DOMAIN nbs = 1 .. m
    BY <2>1, <2>2, MakeSeq
  <2>4. \A k \in 1 .. m : nbs[k].id = ids[k] /\ nbs[k].returns = Returns(recs[k]) /\ IsPnL(recs[k])
    BY DEF IsGiven
  <2> QED
    BY <2>3, <2>4
<1>2. \A k \in 1 .. m :
        LET pairs == AlignReturns(Returns(own), nbs[k].returns)
        IN /\ Len(pairs) \in Nat /\ Len(pairs) = Cardinality(Overlap(own, recs[k]))
           /\ Pearson(pairs) \in Fractions /\ SameCorr(Pearson(pairs), TrueCorr(own, recs[k]))
  BY <1>1, CorrelationIs
<1>3. F = Fit(own, recs, m) /\ F \in SUBSET (1 .. m)
  BY <1>1, <1>2 DEF Fit, IsScoring
<1>4. PICK f : f = Cardinality(F)
  OBVIOUS
<1>5. /\ f \in Nat
      /\ fit = [k \in 1 .. f |-> nbs[Nth(F, k)]]
      /\ \A k \in 1 .. f : Nth(F, k) \in F
      /\ \A i \in F : \E k \in 1 .. f : Nth(F, k) = i
      /\ \A k, l \in 1 .. f : k < l => Nth(F, k) < Nth(F, l)
  <2>1. F \in SUBSET (1 .. m)
    BY <1>3
  <2>2. Kept(nbs, F) = fit
    BY DEF IsScoring
  <2> QED
    BY <1>4, <2>1, <2>2, KeptParts, Zenon
<1>6. Len(fit) = f /\ DOMAIN fit = 1 .. f
  <2>1. PICK T : T = {fit[k] : k \in 1 .. f}
    OBVIOUS
  <2>2. fit = [k \in 1 .. f |-> fit[k]]
    BY <1>5
  <2> QED
    BY <1>5, <2>1, <2>2, MakeSeq
<1>7. /\ DOMAIN scored = 1 .. f
      /\ \A k \in 1 .. f : IsEntry(scored[k], own, ids[Nth(F, k)], recs[Nth(F, k)])
  <2>1. DOMAIN scored = 1 .. f
    BY <1>6 DEF IsScoring
  <2>2. ASSUME NEW k \in 1 .. f PROVE IsEntry(scored[k], own, ids[Nth(F, k)], recs[Nth(F, k)])
    <3>1. PICK i \in 1 .. m : i = Nth(F, k)
      BY <1>3, <1>5
    <3>2. fit[k] = nbs[i]
      BY <1>5, <3>1
    <3>3. scored[k] = [id |-> nbs[i].id,
                       corr |-> Pearson(AlignReturns(Returns(own), nbs[i].returns)),
                       overlap |-> Len(AlignReturns(Returns(own), nbs[i].returns))]
      BY <1>6, <3>2, Zenon DEF IsScoring
    <3>4. IsEntry(scored[k], own, ids[i], recs[i])
      <4>1. PICK pairs : pairs = AlignReturns(Returns(own), nbs[i].returns)
        OBVIOUS
      <4>2. /\ Len(pairs) = Cardinality(Overlap(own, recs[i]))
            /\ Pearson(pairs) \in Fractions /\ SameCorr(Pearson(pairs), TrueCorr(own, recs[i]))
        BY <1>2, <4>1, Zenon
      <4>3. scored[k].id = ids[i] /\ scored[k].corr = Pearson(pairs) /\ scored[k].overlap = Len(pairs)
        BY <1>1, <3>3, <4>1
      <4> QED
        BY <4>2, <4>3, Zenon DEF IsEntry
    <3> QED
      BY <3>1, <3>4
  <2> QED
    BY <2>1, <2>2
<1>8. PICK moved : IsRanking(Ranked(scored), scored, moved)
  <2>1. \A i \in 1 .. f : scored[i].corr \in Fractions
    BY <1>7 DEF IsEntry
  <2> QED
    BY <1>5, <1>7, <2>1, RankedSorts
<1>9. PICK all : all = Ranked(scored)
  OBVIOUS
<1>10. /\ DOMAIN all = 1 .. f /\ all = [k \in 1 .. f |-> all[k]]
       /\ \A k \in 1 .. f : moved[k] \in 1 .. f /\ all[k] = scored[moved[k]]
       /\ \A k, l \in 1 .. f : moved[k] = moved[l] => k = l
       /\ \A i \in 1 .. f : \E k \in 1 .. f : moved[k] = i
       /\ \A k, l \in 1 .. f : k < l => ~Ranks(all[l], all[k])
  <2>1. IsRanking(all, scored, moved)
    BY <1>8, <1>9
  <2> QED
    <3>1. moved \in Bijection(1 .. f, 1 .. f) /\ all = [k \in 1 .. f |-> scored[moved[k]]]
      BY <1>7, <2>1, Zenon DEF IsRanking
    <3>2. /\ \A k \in 1 .. f : moved[k] \in 1 .. f
          /\ \A k, l \in 1 .. f : moved[k] = moved[l] => k = l
          /\ \A i \in 1 .. f : \E k \in 1 .. f : moved[k] = i
      BY <3>1 DEF Bijection, Injection, Surjection, IsInjective
    <3>3. \A k, l \in 1 .. f : k < l => ~Ranks(all[l], all[k])
      BY <1>7, <2>1, Zenon DEF IsRanking
    <3> QED
      BY <3>1, <3>2, <3>3
<1>11. PICK rank : rank = [k \in 1 .. f |-> Nth(F, moved[k])]
  OBVIOUS
<1>12. Numbers(rank, f, F)
  <2>1. \A k, l \in 1 .. f : Nth(F, k) = Nth(F, l) => k = l
    <3> TAKE k, l \in 1 .. f
    <3> HAVE Nth(F, k) = Nth(F, l)
    <3>1. \A x, y \in Int : x = y => ~(x < y) /\ ~(y < x)
      OBVIOUS
    <3>2. Nth(F, k) \in Int /\ Nth(F, l) \in Int
      BY <1>3, <1>5
    <3>3. ~(k < l) /\ ~(l < k)
      BY <1>5, <3>1, <3>2, Zenon
    <3> QED
      BY <1>5, <3>3
  <2>2. \A k \in 1 .. f : rank[k] \in F
    BY <1>5, <1>10, <1>11
  <2>3. \A i \in F : \E k \in 1 .. f : rank[k] = i
    <3> TAKE i \in F
    <3>1. PICK j \in 1 .. f : Nth(F, j) = i
      BY <1>5
    <3>2. PICK k \in 1 .. f : moved[k] = j
      BY <1>10
    <3> QED
      BY <1>11, <3>1, <3>2
  <2>4. \A k, l \in 1 .. f : rank[k] = rank[l] => k = l
    BY <1>10, <1>11, <2>1
  <2> QED
    BY <2>2, <2>3, <2>4 DEF Numbers
<1>13. all \in Seq({all[k] : k \in 1 .. f}) /\ Len(all) = f
  <2>1. PICK T : T = {all[k] : k \in 1 .. f}
    OBVIOUS
  <2>2. all = [k \in 1 .. f |-> all[k]]
    BY <1>10
  <2>3. \A k \in 1 .. f : all[k] \in T
    BY <2>1
  <2>4. all \in Seq(T) /\ Len(all) = f
    BY <1>5, <2>2, <2>3, MakeSeq
  <2> QED
    BY <2>1, <2>4
<1>14. \A k \in 1 .. f : IsEntry(all[k], own, ids[rank[k]], recs[rank[k]])
  BY <1>7, <1>10, <1>11
<1>15. \A k, l \in 1 .. f : k < l => ~Beyond(all[l].corr, all[k].corr)
  BY <1>10 DEF Ranks
<1>16. IsList(all, f, rank, own, ids, recs, m)
  BY <1>3, <1>10, <1>12, <1>13, <1>14, <1>15, Zenon DEF IsList
<1> QED
  BY <1>1, <1>3, <1>4, <1>5, <1>6, <1>9, <1>16, Zenon

(* The smaller of two numbers.                                              *)
LEMMA MinOfTwo ==
  ASSUME NEW a \in Int, NEW b \in Int
  PROVE  Min({a, b}) = IF a <= b THEN a ELSE b
<1>1. PICK c \in {a, b} : c = IF a <= b THEN a ELSE b
  OBVIOUS
<1>2. \A y \in {a, b} : c <= y
  BY <1>1
<1>3. \A x \in {a, b} : (\A y \in {a, b} : x <= y) => x = c
  BY <1>1
<1>4. Min({a, b}) = CHOOSE x \in {a, b} : \A y \in {a, b} : x <= y
  BY Zenon DEF Min
<1> HIDE <1>1
<1>5. Min({a, b}) = c
  BY <1>2, <1>3, <1>4
<1> QED
  BY <1>1, <1>5

(* What is promised of the result, by the places of the series compared.    *)
IsVerdict(result, own, ids, recs, m) ==
  /\ result.considered = m
  /\ Cardinality(ReturnDays(own)) >= MinOverlapDays =>
       result.skipped = m - Cardinality(Fit(own, recs, m))
  /\ DOMAIN result.neighbours = 1 .. Min({CorrTopK, Cardinality(Fit(own, recs, m))})
  /\ \E rank :
       /\ \A k \in DOMAIN result.neighbours : rank[k] \in Fit(own, recs, m)
       /\ \A k, l \in DOMAIN result.neighbours : rank[k] = rank[l] => k = l
       /\ \A k \in DOMAIN result.neighbours :
            /\ IsEntry(result.neighbours[k], own, ids[rank[k]], recs[rank[k]])
            /\ \A i \in Fit(own, recs, m) \ {rank[l] : l \in 1 .. k} :
                 ~Beyond(TrueCorr(own, recs[i]), TrueCorr(own, recs[rank[k]]))
  /\ IF Fit(own, recs, m) = {} THEN result.corrMax.num = 0
     ELSE result.corrMax = result.neighbours[1].corr

(* Nothing is what is promised when no series fits.                         *)
LEMMA NothingFits ==
  ASSUME NEW own, NEW ids, NEW recs, NEW m \in Nat, Fit(own, recs, m) = {}, NEW skipped,
         Cardinality(ReturnDays(own)) >= MinOverlapDays => skipped = m
  PROVE  IsVerdict(Nothing(m, skipped), own, ids, recs, m)
<1>1. PICK result : result = Nothing(m, skipped)
  OBVIOUS
<1>2. /\ result.considered = m /\ result.skipped = skipped
      /\ result.corrMax.num = 0 /\ result.neighbours = <<>>
  BY <1>1 DEF Nothing
<1>3. Cardinality(Fit(own, recs, m)) = 0
  BY FS_EmptySet
<1>4. Min({CorrTopK, 0}) = 0
  BY MinOfTwo, SelfCorrAssumption
<1>5. DOMAIN result.neighbours = {} /\ 1 .. Min({CorrTopK, 0}) = {}
  BY <1>2, <1>4
<1>6. m - 0 = m
  OBVIOUS
<1>7. IsVerdict(result, own, ids, recs, m)
  BY <1>2, <1>3, <1>5, <1>6, Zenon DEF IsVerdict
<1> QED
  BY <1>1, <1>7

(* What the head of a ranking makes.                                        *)
IsHead(result, all, f, m) ==
  result = [corrMax |-> all[1].corr, neighbours |-> SubSeq(all, 1, Min({Len(all), CorrTopK})),
            considered |-> m, skipped |-> m - f]

(* It is, when some do.                                                     *)
LEMMA HeadFits ==
  ASSUME NEW own, IsPnL(own), NEW ids, NEW recs, NEW m \in Nat, \A k \in 1 .. m : IsPnL(recs[k]),
         NEW f \in Nat \ {0},
         NEW all, NEW rank, IsList(all, f, rank, own, ids, recs, m),
         NEW result, IsHead(result, all, f, m)
  PROVE  IsVerdict(result, own, ids, recs, m)
<1>1. /\ all \in Seq({all[k] : k \in 1 .. f}) /\ Len(all) = f /\ DOMAIN all = 1 .. f
      /\ Numbers(rank, f, Fit(own, recs, m))
      /\ \A k \in 1 .. f : IsEntry(all[k], own, ids[rank[k]], recs[rank[k]])
      /\ \A k, l \in 1 .. f : k < l => ~Beyond(all[l].corr, all[k].corr)
  BY Zenon DEF IsList
<1>2. PICK s \in 1 .. f : s = Min({f, CorrTopK}) /\ s = Min({CorrTopK, f})
  <2>1. CorrTopK \in Nat \ {0} /\ CorrTopK \in Int /\ f \in Int
    BY SelfCorrAssumption
  <2>2. /\ Min({f, CorrTopK}) = IF f <= CorrTopK THEN f ELSE CorrTopK
        /\ Min({CorrTopK, f}) = IF CorrTopK <= f THEN CorrTopK ELSE f
    BY <2>1, MinOfTwo
  <2> QED
    BY <2>1, <2>2
<1>3. /\ DOMAIN SubSeq(all, 1, s) = 1 .. s
      /\ \A k \in 1 .. s : SubSeq(all, 1, s)[k] = all[k]
  <2>1. PICK T : all \in Seq(T)
    BY <1>1
  <2> QED
    BY <1>1, <2>1
<1>4. /\ result.considered = m /\ result.skipped = m - f
      /\ result.corrMax = all[1].corr /\ result.neighbours = SubSeq(all, 1, s)
  BY <1>1, <1>2 DEF IsHead
<1>5. \A k \in 1 .. s : result.neighbours[k] = all[k] /\ k \in 1 .. f
  BY <1>3, <1>4
<1>6. result.corrMax = result.neighbours[1].corr
  <2>1. 1 \in 1 .. s
    OBVIOUS
  <2> QED
    BY <1>4, <1>5, <2>1
<1>7. \A k \in 1 .. f : /\ rank[k] \in Fit(own, recs, m)
                        /\ all[k].corr \in Fractions
                        /\ TrueCorr(own, recs[rank[k]]) \in Fractions
                        /\ SameCorr(all[k].corr, TrueCorr(own, recs[rank[k]]))
  <2> TAKE k \in 1 .. f
  <2>1. rank[k] \in Fit(own, recs, m) /\ rank[k] \in 1 .. m
    BY <1>1 DEF Numbers, Fit
  <2>2. TrueCorr(own, recs[rank[k]]) \in Fractions
    BY <2>1, CorrelationIs
  <2> QED
    BY <1>1, <2>1, <2>2 DEF IsEntry
<1>8. ASSUME NEW k \in 1 .. s, NEW i \in Fit(own, recs, m) \ {rank[l] : l \in 1 .. k}
      PROVE  ~Beyond(TrueCorr(own, recs[i]), TrueCorr(own, recs[rank[k]]))
  <2>1. PICK l \in 1 .. f : rank[l] = i
    BY <1>1 DEF Numbers
  <2>2. k \in 1 .. f /\ k < l
    BY <1>8, <2>1
  <2>3. ~Beyond(all[l].corr, all[k].corr)
    BY <1>1, <2>2
  <2> QED
    BY <1>7, <2>1, <2>2, <2>3, SameOrder
<1>9. \A k, l \in 1 .. s : rank[k] = rank[l] => k = l
  BY <1>1, <1>5 DEF Numbers
<1>10. Fit(own, recs, m) # {} /\ Cardinality(Fit(own, recs, m)) = f
  BY <1>1, FS_EmptySet, NumbersCount
<1> HIDE <1>2
<1>11. DOMAIN result.neighbours = 1 .. s
  BY <1>3, <1>4
<1>12. \A k \in 1 .. s : IsEntry(result.neighbours[k], own, ids[rank[k]], recs[rank[k]])
  BY <1>1, <1>5
<1> QED
  <2>1. Min({CorrTopK, Cardinality(Fit(own, recs, m))}) = s
    BY <1>2, <1>10
  <2>2. /\ \A k \in 1 .. s : rank[k] \in Fit(own, recs, m)
        /\ \A k, l \in 1 .. s : rank[k] = rank[l] => k = l
        /\ \A k \in 1 .. s :
             /\ IsEntry(result.neighbours[k], own, ids[rank[k]], recs[rank[k]])
             /\ \A i \in Fit(own, recs, m) \ {rank[l] : l \in 1 .. k} :
                  ~Beyond(TrueCorr(own, recs[i]), TrueCorr(own, recs[rank[k]]))
    BY <1>5, <1>7, <1>8, <1>9, <1>12, Zenon
  <2> QED
    BY <1>4, <1>6, <1>10, <1>11, <2>1, <2>2, Zenon DEF IsVerdict

(* A series with too few returns has too few in common with any.            *)
LEMMA ShortFitsNone ==
  ASSUME NEW own, IsPnL(own), Len(Returns(own)) < MinOverlapDays, NEW recs, NEW m \in Nat
  PROVE  Fit(own, recs, m) = {} /\ ~(Cardinality(ReturnDays(own)) >= MinOverlapDays)
<1>1. /\ IsFiniteSet(ReturnDays(own))
      /\ Cardinality(ReturnDays(own)) = Len(Returns(own)) /\ Len(Returns(own)) \in Nat
  BY ReturnDaysCount
<1>2. MinOverlapDays \in Nat
  BY SelfCorrAssumption
<1>3. ASSUME NEW k \in 1 .. m PROVE ~(Cardinality(Overlap(own, recs[k])) >= MinOverlapDays)
  <2>1. Overlap(own, recs[k]) \subseteq ReturnDays(own)
    BY DEF Overlap
  <2>2. /\ IsFiniteSet(Overlap(own, recs[k]))
        /\ Cardinality(Overlap(own, recs[k])) <= Cardinality(ReturnDays(own))
    BY <1>1, <2>1, FS_Subset
  <2>3. Cardinality(Overlap(own, recs[k])) \in Nat
    BY <2>2, FS_CardinalityType
  <2> QED
    BY <1>1, <1>2, <2>2, <2>3
<1> QED
  BY <1>1, <1>2, <1>3 DEF Fit

(* MaxSelfCorr keeps what is promised.                                      *)
LEMMA MaxSelfCorrGives ==
  ASSUME NEW own, IsPnL(own), NEW m \in Nat, NEW nbs, NEW ids, NEW recs,
         IsGiven(nbs, ids, recs, m)
  PROVE  IsVerdict(MaxSelfCorr(Returns(own), nbs), own, ids, recs, m)
<1>1. PICK candidate : candidate = Returns(own)
  OBVIOUS
<1>2. PICK F : F = {i \in DOMAIN nbs : Len(AlignReturns(candidate, nbs[i].returns)) >= MinOverlapDays}
  OBVIOUS
<1>3. PICK fit : fit = Kept(nbs, F)
  OBVIOUS
<1>4. PICK scored : scored = [i \in DOMAIN fit |->
                        [id |-> fit[i].id,
                         corr |-> Pearson(AlignReturns(candidate, fit[i].returns)),
                         overlap |-> Len(AlignReturns(candidate, fit[i].returns))]]
  OBVIOUS
<1>5. PICK all : all = Ranked(scored)
  OBVIOUS
<1>6. MaxSelfCorr(candidate, nbs) =
        CASE Len(candidate) < MinOverlapDays -> Nothing(Len(nbs), 0)
          [] Len(candidate) >= MinOverlapDays /\ all = <<>> -> Nothing(Len(nbs), Len(nbs) - Len(fit))
          [] Len(candidate) >= MinOverlapDays /\ all # <<>> ->
               [corrMax |-> all[1].corr, neighbours |-> SubSeq(all, 1, Min({Len(all), CorrTopK})),
                considered |-> Len(nbs), skipped |-> Len(nbs) - Len(fit)]
  BY <1>2, <1>3, <1>4, <1>5, Zenon DEF MaxSelfCorr
<1>7. IsScoring(F, fit, scored, own, nbs)
  BY <1>1, <1>2, <1>3, <1>4, Zenon DEF IsScoring
<1>8. \E f \in Nat :
        /\ f = Cardinality(Fit(own, recs, m)) /\ Len(nbs) = m /\ Len(fit) = f
        /\ \E rank : IsList(all, f, rank, own, ids, recs, m)
  <2> HIDE <1>2, <1>3, <1>4
  <2>1. /\ Cardinality(Fit(own, recs, m)) \in Nat
        /\ Len(nbs) = m /\ Len(fit) = Cardinality(Fit(own, recs, m))
        /\ \E rank : IsList(Ranked(scored), Cardinality(Fit(own, recs, m)), rank, own, ids, recs, m)
    BY <1>7, ScoredAreRanked
  <2> QED
    BY <1>5, <2>1, Zenon
<1>a. PICK f \in Nat : /\ f = Cardinality(Fit(own, recs, m)) /\ Len(nbs) = m /\ Len(fit) = f
                      /\ \E rank : IsList(all, f, rank, own, ids, recs, m)
  BY <1>8
<1>b. PICK rank : /\ f = Cardinality(Fit(own, recs, m)) /\ Len(nbs) = m /\ Len(fit) = f
                  /\ IsList(all, f, rank, own, ids, recs, m)
  BY <1>a
<1>9. Len(all) = f /\ (all = <<>> <=> f = 0)
  <2>1. PICK T : all \in Seq(T) /\ Len(all) = f
    BY <1>b DEF IsList
  <2> QED
    BY <2>1
<1>10. Len(candidate) \in Nat /\ MinOverlapDays \in Nat
  BY <1>1, ReturnDaysCount, SelfCorrAssumption
<1>11. Cardinality(ReturnDays(own)) = Len(candidate)
  BY <1>1, ReturnDaysCount
<1>12. \A k \in 1 .. m : IsPnL(recs[k])
  BY DEF IsGiven
<1>13. IsFiniteSet(Fit(own, recs, m))
  <2>1. IsFiniteSet(1 .. m)
    BY FS_Interval
  <2> QED
    BY <2>1, FS_Subset DEF Fit
<1>14. CASE Len(candidate) < MinOverlapDays
  <2>1. MaxSelfCorr(candidate, nbs) = Nothing(m, 0)
    BY <1>6, <1>b, <1>10, <1>14
  <2>2. Fit(own, recs, m) = {} /\ ~(Cardinality(ReturnDays(own)) >= MinOverlapDays)
    BY <1>1, <1>14, ShortFitsNone
  <2>3. IsVerdict(Nothing(m, 0), own, ids, recs, m)
    BY <2>2, NothingFits
  <2> QED
    BY <1>1, <2>1, <2>3
<1>15. CASE Len(candidate) >= MinOverlapDays /\ f = 0
  <2>1. MaxSelfCorr(candidate, nbs) = Nothing(m, m)
    <3>1. m - 0 = m /\ ~(Len(candidate) < MinOverlapDays)
      BY <1>10, <1>15
    <3> QED
      BY <1>6, <1>b, <1>9, <1>15, <3>1, Zenon
  <2>2. Fit(own, recs, m) = {}
    BY <1>b, <1>13, <1>15, FS_EmptySet
  <2>3. IsVerdict(Nothing(m, m), own, ids, recs, m)
    BY <2>2, NothingFits
  <2> QED
    BY <1>1, <2>1, <2>3
<1>16. CASE Len(candidate) >= MinOverlapDays /\ f # 0
  <2>1. IsHead(MaxSelfCorr(candidate, nbs), all, f, m)
    <3>1. ~(Len(candidate) < MinOverlapDays)
      BY <1>10, <1>16
    <3> QED
      BY <1>6, <1>b, <1>9, <1>16, <3>1, Zenon DEF IsHead
  <2>2. f \in Nat \ {0}
    BY <1>16
  <2>3. IsVerdict(MaxSelfCorr(candidate, nbs), own, ids, recs, m)
    BY <1>b, <1>12, <2>1, <2>2, HeadFits
  <2> QED
    BY <1>1, <2>3
<1>17. Len(candidate) < MinOverlapDays \/ Len(candidate) >= MinOverlapDays
  BY <1>10
<1> QED
  BY <1>14, <1>15, <1>16, <1>17

-----------------------------------------------------------------------------
(* corr-local                                                               *)

(* A numbering of a set's elements numbers the images, if they differ.      *)
LEMMA ImagesCount ==
  ASSUME NEW D, IsFiniteSet(D), NEW at, \A i, j \in D : at[i] = at[j] => i = j
  PROVE  IsFiniteSet({at[i] : i \in D}) /\ Cardinality({at[i] : i \in D}) = Cardinality(D)
<1>0. PICK G : G = {at[i] : i \in D}
  OBVIOUS
<1>1. PICK f : f = [i \in D |-> at[i]]
  OBVIOUS
<1>2. f \in Bijection(D, G)
  BY <1>0, <1>1 DEF Bijection, Injection, Surjection, IsInjective
<1>3. ExistsBijection(D, G)
  BY <1>2 DEF ExistsBijection
<1>4. IsFiniteSet(G) /\ Cardinality(G) = Cardinality(D)
  BY <1>3, FS_Bijection
<1> QED
  BY <1>0, <1>4

(* The neighbours to compare, by their places.                              *)
IsChoice(in, E, m, at, ids, recs) ==
  /\ E = Others(in)
  /\ Numbers(at, m, E)
  /\ \A k \in 1 .. m : ids[k] = in.neighbours[at[k]].id /\ recs[k] = in.neighbours[at[k]].records

(* What is promised by those places is promised by all of them.             *)
LEMMA ResultMeans ==
  ASSUME NEW in, NEW E, NEW m \in Nat, NEW at, NEW ids, NEW recs, IsChoice(in, E, m, at, ids, recs),
         NEW result, IsVerdict(result, in.candidate.records, ids, recs, m)
  PROVE  IsSelfCorr(result, in)
<1>1. PICK own : own = in.candidate.records
  OBVIOUS
<1>2. PICK fit : fit = Fit(own, recs, m)
  OBVIOUS
<1>3. PICK G : G = {i \in E : Cardinality(Overlap(own, in.neighbours[i].records)) >= MinOverlapDays}
  OBVIOUS
<1>4. /\ \A k \in 1 .. m : at[k] \in E
      /\ \A i \in E : \E k \in 1 .. m : at[k] = i
      /\ \A k, l \in 1 .. m : at[k] = at[l] => k = l
      /\ \A k \in 1 .. m : ids[k] = in.neighbours[at[k]].id /\ recs[k] = in.neighbours[at[k]].records
  BY DEF IsChoice, Numbers
<1>5. IsFiniteSet(E) /\ Cardinality(E) = m
  BY NumbersCount DEF IsChoice
<1>6. fit \in SUBSET (1 .. m) /\ \A k \in 1 .. m : k \in fit <=> at[k] \in G
  BY <1>2, <1>3, <1>4 DEF Fit
<1>7. G = {at[k] : k \in fit}
  <2>1. G \subseteq E
    BY <1>3
  <2> QED
    BY <1>4, <1>6, <2>1
<1>8. IsFiniteSet(G) /\ Cardinality(G) = Cardinality(fit) /\ (fit = {} <=> G = {})
  <2>1. IsFiniteSet(fit)
    <3>1. IsFiniteSet(1 .. m)
      BY FS_Interval
    <3> QED
      BY <1>6, <3>1, FS_Subset
  <2>2. \A i, j \in fit : at[i] = at[j] => i = j
    BY <1>4, <1>6
  <2>3. IsFiniteSet(G) /\ Cardinality(G) = Cardinality(fit)
    BY <1>7, <2>1, <2>2, ImagesCount, Zenon
  <2> QED
    BY <1>7, <2>3
<1>9. Cardinality(E \ G) = m - Cardinality(fit)
  <2>1. E \cap G = G
    BY <1>3
  <2>2. Cardinality(E \ G) = Cardinality(E) - Cardinality(E \cap G)
    BY <1>5, FS_Difference, Zenon
  <2> QED
    BY <1>5, <1>8, <2>1, <2>2
<1>10. PICK shown : shown = DOMAIN result.neighbours
  OBVIOUS
<1>11. PICK rank0 :
         /\ \A k \in shown : rank0[k] \in fit
         /\ \A k, l \in shown : rank0[k] = rank0[l] => k = l
         /\ \A k \in shown :
              /\ IsEntry(result.neighbours[k], own, ids[rank0[k]], recs[rank0[k]])
              /\ \A i \in fit \ {rank0[l] : l \in 1 .. k} :
                   ~Beyond(TrueCorr(own, recs[i]), TrueCorr(own, recs[rank0[k]]))
  BY <1>1, <1>2, <1>10, Zenon DEF IsVerdict
<1>12. /\ result.considered = m
       /\ Cardinality(ReturnDays(own)) >= MinOverlapDays => result.skipped = m - Cardinality(fit)
       /\ shown = 1 .. Min({CorrTopK, Cardinality(fit)})
       /\ IF fit = {} THEN result.corrMax.num = 0 ELSE result.corrMax = result.neighbours[1].corr
  BY <1>1, <1>2, <1>10, Zenon DEF IsVerdict
<1>13. PICK rank : rank = [k \in shown |-> at[rank0[k]]]
  OBVIOUS
<1>14. rank \in Injection(shown, G)
  <2>1. \A k \in shown : rank[k] \in G
    BY <1>6, <1>11, <1>13
  <2>2. \A k, l \in shown : rank[k] = rank[l] => k = l
    BY <1>4, <1>6, <1>11, <1>13
  <2>3. rank \in [shown -> G]
    BY <1>13, <2>1
  <2> QED
    BY <2>2, <2>3 DEF Injection, IsInjective
<1>15. ASSUME NEW k \in shown
       PROVE  /\ result.neighbours[k].id = in.neighbours[rank[k]].id
              /\ result.neighbours[k].overlap = Cardinality(Overlap(own, in.neighbours[rank[k]].records))
              /\ SameCorr(result.neighbours[k].corr, TrueCorr(own, in.neighbours[rank[k]].records))
              /\ \A i \in G \ {rank[l] : l \in 1 .. k} :
                   ~Beyond(TrueCorr(own, in.neighbours[i].records),
                           TrueCorr(own, in.neighbours[rank[k]].records))
  <2>1. PICK j \in 1 .. m : j = rank0[k]
    BY <1>6, <1>11
  <2>2. rank[k] = at[j]
    BY <1>13, <2>1
  <2>3. recs[j] = in.neighbours[rank[k]].records /\ ids[j] = in.neighbours[rank[k]].id
    BY <1>4, <2>2
  <2>4. IsEntry(result.neighbours[k], own, ids[j], recs[j])
    BY <1>11, <2>1
  <2>5. ASSUME NEW i \in G \ {rank[l] : l \in 1 .. k}
        PROVE  ~Beyond(TrueCorr(own, in.neighbours[i].records),
                       TrueCorr(own, in.neighbours[rank[k]].records))
    <3>1. PICK h \in fit : at[h] = i
      BY <1>7
    <3>2. \A l \in 1 .. k : l \in shown
      <4>1. CorrTopK \in Int /\ Cardinality(fit) \in Int
        BY <1>8, FS_CardinalityType, SelfCorrAssumption
      <4>2. PICK s \in Int : shown = 1 .. s
        BY <1>12, <4>1, MinOfTwo
      <4> QED
        BY <4>2
    <3>3. h \notin {rank0[l] : l \in 1 .. k}
      BY <1>13, <2>5, <3>1, <3>2
    <3>4. ~Beyond(TrueCorr(own, recs[h]), TrueCorr(own, recs[j]))
      BY <1>11, <2>1, <3>3
    <3>5. recs[h] = in.neighbours[i].records
      BY <1>4, <1>6, <3>1
    <3> QED
      BY <2>3, <3>4, <3>5, Zenon
  <2> QED
    BY <2>3, <2>4, <2>5, Zenon DEF IsEntry
<1>16. E = Others(in)
  BY DEF IsChoice
<1>17. G = {i \in Others(in) : Cardinality(Overlap(own, in.neighbours[i].records)) >= MinOverlapDays}
  BY <1>3, <1>16
<1>18. /\ result.considered = Cardinality(Others(in))
       /\ Cardinality(ReturnDays(own)) >= MinOverlapDays => result.skipped = Cardinality(Others(in) \ G)
       /\ shown = 1 .. Min({CorrTopK, Cardinality(G)})
       /\ IF G = {} THEN result.corrMax.num = 0 ELSE result.corrMax = result.neighbours[1].corr
  BY <1>5, <1>8, <1>9, <1>12, <1>16, Zenon
<1> HIDE <1>3
<1> QED
  BY <1>1, <1>10, <1>14, <1>15, <1>17, <1>18, Zenon DEF IsSelfCorr

(* The result of corr-local is the one the documentation promises.          *)
THEOREM LocalIsSelfCorr ==
  ASSUME NEW in, IsInput(in)
  PROVE  IsSelfCorr(SelfCorrLocal(in), in)
<1>1. PICK N \in Nat : N = Len(in.neighbours) /\ DOMAIN in.neighbours = 1 .. N
  BY DEF IsInput
<1>2. PICK E : E = Others(in)
  OBVIOUS
<1>3. E \in SUBSET (1 .. N)
  BY <1>1, <1>2 DEF Others
<1>4. PICK m : m = Cardinality(E)
  OBVIOUS
<1>5. PICK eligible : eligible = Kept(in.neighbours, E)
  OBVIOUS
<1>6. PICK at : at = [k \in 1 .. m |-> Nth(E, k)]
  OBVIOUS
<1>7. /\ m \in Nat
      /\ eligible = [k \in 1 .. m |-> in.neighbours[at[k]]]
      /\ Numbers(at, m, E)
  <2> HIDE <1>2
  <2>1. /\ m \in Nat
        /\ eligible = [k \in 1 .. m |-> in.neighbours[Nth(E, k)]]
        /\ \A k \in 1 .. m : Nth(E, k) \in E
        /\ \A i \in E : \E k \in 1 .. m : Nth(E, k) = i
        /\ \A k, l \in 1 .. m : k < l => Nth(E, k) < Nth(E, l)
    BY <1>3, <1>4, <1>5, KeptParts, Zenon
  <2>2. \A k \in 1 .. m : at[k] = Nth(E, k)
    BY <1>6
  <2>3. ASSUME NEW k \in 1 .. m, NEW l \in 1 .. m, at[k] = at[l] PROVE k = l
    <3>1. Nth(E, k) \in Int /\ Nth(E, l) \in Int /\ Nth(E, k) = Nth(E, l)
      <4>1. Nth(E, k) \in E /\ Nth(E, l) \in E
        BY <2>1
      <4>2. E \in SUBSET Int
        BY <1>3
      <4>3. Nth(E, k) = Nth(E, l)
        BY <2>2, <2>3, Zenon
      <4> QED
        BY <4>1, <4>2, <4>3
    <3>2. \A x, y \in Int : x = y => ~(x < y) /\ ~(y < x)
      OBVIOUS
    <3>3. ~(k < l) /\ ~(l < k)
      BY <2>1, <3>1, <3>2, Zenon
    <3> QED
      BY <2>1, <3>3
  <2> QED
    BY <2>1, <2>2, <2>3 DEF Numbers
<1>8. PICK ids, recs : /\ ids = [k \in 1 .. m |-> eligible[k].id]
                       /\ recs = [k \in 1 .. m |-> eligible[k].records]
  OBVIOUS
<1>9. IsChoice(in, E, m, at, ids, recs)
  BY <1>2, <1>7, <1>8 DEF IsChoice
<1>10. PICK nbs : nbs = [i \in DOMAIN eligible |->
                           [id |-> eligible[i].id, returns |-> Returns(eligible[i].records)]]
  OBVIOUS
<1>11. IsGiven(nbs, ids, recs, m)
  <2>1. nbs = [k \in 1 .. m |-> [id |-> ids[k], returns |-> Returns(recs[k])]]
    BY <1>7, <1>8, <1>10
  <2>2. \A k \in 1 .. m : IsPnL(recs[k])
    BY <1>1, <1>3, <1>9 DEF IsChoice, Numbers, IsInput
  <2> QED
    BY <2>1, <2>2 DEF IsGiven
<1>12. SelfCorrLocal(in) = MaxSelfCorr(Returns(in.candidate.records), nbs)
  BY <1>2, <1>5, <1>10, Zenon DEF SelfCorrLocal, Eligible
<1>13. IsPnL(in.candidate.records)
  BY DEF IsInput
<1>14. IsVerdict(SelfCorrLocal(in), in.candidate.records, ids, recs, m)
  BY <1>7, <1>11, <1>12, <1>13, MaxSelfCorrGives
<1> QED
  BY <1>7, <1>9, <1>14, ResultMeans

=============================================================================
