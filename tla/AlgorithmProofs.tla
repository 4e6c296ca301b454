---------------------------- MODULE AlgorithmProofs ----------------------------
(***************************************************************************)
(* The choice of two dates (core/temporal.py) for any number of candidates *)
(* of any dates, names, clouds and footprints: the key of the code orders  *)
(* the admissible pairs, one of them is least, and it stays the choice     *)
(* whatever happens to the candidates that were not chosen.                *)
(* Byte ranges that are served (core/artifacts.py, core/api.py) for any    *)
(* artifact and header, and the reads of a pinned object                   *)
(* (core/data/http_range.py) for any object, block and cache size, and     *)
(* anything the server sends: what a read gives is what was asked for.     *)
(* Window admission (core/data/raster_windows.py) for any table of images  *)
(* of any size: the windows tile them, are taken in turn and none twice,   *)
(* and only what nobody touched is verified.                               *)
(***************************************************************************)
EXTENDS RasterCases, DataCases, FiniteSetTheorems, SequenceTheorems, TLAPS

-------------------------------------------------------------------------------
(* The order of the keys *)

Keys == Int \X Int \X Int \X Int \X Int \X Int

LEMMA KeyOrder ==
  ASSUME NEW a \in Keys, NEW b \in Keys
  PROVE  Precedes(a, b) <=>
           \/ a[1] < b[1]
           \/ a[1] = b[1] /\ a[2] < b[2]
           \/ a[1] = b[1] /\ a[2] = b[2] /\ a[3] < b[3]
           \/ a[1] = b[1] /\ a[2] = b[2] /\ a[3] = b[3] /\ a[4] < b[4]
           \/ a[1] = b[1] /\ a[2] = b[2] /\ a[3] = b[3] /\ a[4] = b[4] /\ a[5] < b[5]
           \/ /\ a[1] = b[1] /\ a[2] = b[2] /\ a[3] = b[3] /\ a[4] = b[4] /\ a[5] = b[5]
              /\ a[6] < b[6]
<1>1. DOMAIN a = 1 .. 6 /\ DOMAIN b = 1 .. 6
  BY DEF Keys
<1>2. 1 .. 6 = {1, 2, 3, 4, 5, 6}
  OBVIOUS
<1>3. /\ 1 .. (1 - 1) = {} /\ 1 .. (2 - 1) = {1} /\ 1 .. (3 - 1) = {1, 2}
      /\ 1 .. (4 - 1) = {1, 2, 3} /\ 1 .. (5 - 1) = {1, 2, 3, 4}
      /\ 1 .. (6 - 1) = {1, 2, 3, 4, 5}
  OBVIOUS
<1>4. Precedes(a, b) <=> \E i \in {1, 2, 3, 4, 5, 6} : a[i] < b[i] /\ \A j \in 1 .. (i - 1) : a[j] = b[j]
  BY <1>1, <1>2 DEF Precedes
<1> QED BY <1>3, <1>4, Zenon

LEMMA KeysAreOrdered ==
  ASSUME NEW a \in Keys, NEW b \in Keys, NEW c \in Keys
  PROVE  /\ ~Precedes(a, a)
         /\ Precedes(a, b) /\ Precedes(b, c) => Precedes(a, c)
         /\ a[5] # b[5] \/ a[6] # b[6] => Precedes(a, b) \/ Precedes(b, a)
<1>1. \A k \in Keys : \A i \in {1, 2, 3, 4, 5, 6} : k[i] \in Int
  BY DEF Keys
<1>2. ~Precedes(a, a)
  BY <1>1, KeyOrder
<1>3. Precedes(a, b) /\ Precedes(b, c) => Precedes(a, c)
  BY <1>1, KeyOrder
<1>4. a[5] # b[5] \/ a[6] # b[6] => Precedes(a, b) \/ Precedes(b, a)
  BY <1>1, KeyOrder
<1> QED BY <1>2, <1>3, <1>4

\* Among subsets of a finite set one has no other below it.
LEMMA SomeIsMinimal ==
  ASSUME NEW S, IsFiniteSet(S), NEW B, B \subseteq SUBSET S, B # {}
  PROVE  \E T \in B : \A U \in B : U \subseteq T => U = T
<1>1. IsWellFoundedOn(StrictSubsetOrdering(S), SUBSET S)
  BY FS_StrictSubsetOrderingWellFounded, FS_FiniteSubsetsOfFinite
<1>2. PICK T \in B : \A U \in B : <<U, T>> \notin StrictSubsetOrdering(S)
  BY <1>1, WFMin
<1> QED BY <1>2 DEF StrictSubsetOrdering

\* A finite set has a least element in a total order.
LEMMA SomeIsLeast ==
  ASSUME NEW S, IsFiniteSet(S), S # {}, NEW R,
         \A a, b \in S : a # b => <<a, b>> \in R \/ <<b, a>> \in R,
         \A a, b, c \in S : <<a, b>> \in R /\ <<b, c>> \in R => <<a, c>> \in R
  PROVE  \E m \in S : \A s \in S \ {m} : <<m, s>> \in R
<1> DEFINE B == {T \in SUBSET S : T # {} /\ \A m \in T : \E s \in T \ {m} : <<m, s>> \notin R}
<1> SUFFICES ASSUME B # {} PROVE FALSE
  OBVIOUS
<1>0. B \subseteq SUBSET S
  OBVIOUS
<1> HIDE DEF B
<1>1. PICK T \in B : \A U \in B : U \subseteq T => U = T
  BY <1>0, SomeIsMinimal
<1>2. T \subseteq S /\ \A m \in T : \E s \in T \ {m} : <<m, s>> \notin R
  BY DEF B
<1>3. PICK e \in T : TRUE
  BY DEF B
<1>4. T \ {e} \notin B
  BY <1>1, <1>3
<1>5. T \ {e} # {}
  BY <1>2, <1>3
<1>6. PICK m \in T \ {e} : \A s \in (T \ {e}) \ {m} : <<m, s>> \in R
  BY <1>2, <1>4, <1>5 DEF B
<1>7. CASE <<m, e>> \in R
  BY <1>2, <1>6, <1>7
<1>8. CASE <<e, m>> \in R
  <2>1. \A s \in T \ {e} : <<e, s>> \in R
    BY <1>2, <1>3, <1>6, <1>8
  <2> QED BY <1>2, <1>3, <2>1
<1> QED BY <1>2, <1>3, <1>6, <1>7, <1>8

-------------------------------------------------------------------------------
(* What is chosen *)

Fraction == Int \X (Nat \ {0})

\* What is compared is a number.
Numbered(S, aoi) ==
  \A c \in S : /\ c.item \in Int /\ c.acquired \in Int /\ c.cloud \in Int
               /\ Coverage(c.bbox, aoi) \in Fraction

Named(S) == \A c, d \in S : c.item = d.item => c = d

Side(arguments, S, window) ==
  Clear(arguments, Covering(arguments, {c \in S : DuringWindow(c.acquired, window)}))

\* The pairs that may be chosen.
Admissible(arguments, S) ==
  {p \in Side(arguments, S, arguments.before) \X Side(arguments, S, arguments.after) :
     SameSensor(p)}

Leads(p, P, aoi) == \A q \in P \ {p} : Precedes(Key(p, aoi), Key(q, aoi))

LEMMA SmallerOfTwo ==
  ASSUME NEW a \in Int, NEW b \in Int
  PROVE  Min({a, b}) \in {a, b} /\ Min({a, b}) <= a /\ Min({a, b}) <= b
BY DEF Min

LEMMA KeyIsKey ==
  ASSUME NEW S, NEW aoi, Numbered(S, aoi), NEW p \in S \X S
  PROVE  /\ Key(p, aoi) \in Keys /\ Key(p, aoi)[1] = p[1].cloud + p[2].cloud
         /\ Key(p, aoi)[5] = p[1].item /\ Key(p, aoi)[6] = p[2].item
<1>1. PICK c1, c2 : /\ c1 = Coverage(p[1].bbox, aoi)[1]
                    /\ c2 = Coverage(p[2].bbox, aoi)[1]
  OBVIOUS
<1>2. /\ p[1].item \in Int /\ p[1].acquired \in Int /\ p[1].cloud \in Int /\ c1 \in Int
      /\ p[2].item \in Int /\ p[2].acquired \in Int /\ p[2].cloud \in Int /\ c2 \in Int
  BY <1>1 DEF Numbered, Fraction
<1>3. PICK least : least = Min({c1, c2}) /\ least \in Int
  BY <1>2, SmallerOfTwo
<1>4. Key(p, aoi) = <<p[1].cloud + p[2].cloud, 0 - least, p[1].acquired, p[2].acquired,
                      p[1].item, p[2].item>>
  BY <1>1, <1>3 DEF Key
<1>5. p[1].cloud + p[2].cloud \in Int /\ 0 - least \in Int
  BY <1>2, <1>3
<1> QED BY <1>2, <1>4, <1>5 DEF Keys

\* One of the pairs leads the others, and no other does.
LEMMA OneLeads ==
  ASSUME NEW S, IsFiniteSet(S), NEW aoi, Numbered(S, aoi), Named(S),
         NEW P, P \subseteq S \X S, P # {}
  PROVE  \E p \in P : Leads(p, P, aoi) /\ \A q \in P : Leads(q, P, aoi) => q = p
<1> DEFINE R == {r \in P \X P : Precedes(Key(r[1], aoi), Key(r[2], aoi))}
<1>1. ASSUME NEW p \in P, NEW q \in P
      PROVE  /\ <<p, q>> \in R <=> Precedes(Key(p, aoi), Key(q, aoi))
             /\ Key(p, aoi) \in Keys
             /\ p # q => Precedes(Key(p, aoi), Key(q, aoi)) \/ Precedes(Key(q, aoi), Key(p, aoi))
             /\ ~(Precedes(Key(p, aoi), Key(q, aoi)) /\ Precedes(Key(q, aoi), Key(p, aoi)))
  <2>1. PICK k, l : k = Key(p, aoi) /\ l = Key(q, aoi)
    OBVIOUS
  <2>2. /\ k \in Keys /\ k[5] = p[1].item /\ k[6] = p[2].item
        /\ l \in Keys /\ l[5] = q[1].item /\ l[6] = q[2].item
    BY <2>1, KeyIsKey
  <2>3. p # q => k[5] # l[5] \/ k[6] # l[6]
    <3>1. p \in S \X S /\ q \in S \X S
      OBVIOUS
    <3> QED BY <2>2, <3>1 DEF Named
  <2>4. p # q => Precedes(k, l) \/ Precedes(l, k)
    BY <2>2, <2>3, KeysAreOrdered
  <2>5. ~(Precedes(k, l) /\ Precedes(l, k))
    BY <2>2, KeysAreOrdered
  <2> QED BY <2>1, <2>2, <2>4, <2>5
<1>2. ASSUME NEW p \in P, NEW q \in P, NEW r \in P,
             Precedes(Key(p, aoi), Key(q, aoi)), Precedes(Key(q, aoi), Key(r, aoi))
      PROVE  Precedes(Key(p, aoi), Key(r, aoi))
  <2>1. PICK k, l, m : k = Key(p, aoi) /\ l = Key(q, aoi) /\ m = Key(r, aoi)
    OBVIOUS
  <2>2. k \in Keys /\ l \in Keys /\ m \in Keys /\ Precedes(k, l) /\ Precedes(l, m)
    BY <1>1, <1>2, <2>1
  <2> QED BY <2>1, <2>2, KeysAreOrdered
<1>3. IsFiniteSet(P)
  BY FS_Product, FS_Subset
<1> HIDE DEF R
<1>4. \A p, q \in P : p # q => <<p, q>> \in R \/ <<q, p>> \in R
  BY <1>1
<1>5. \A p, q, r \in P : <<p, q>> \in R /\ <<q, r>> \in R => <<p, r>> \in R
  BY <1>1, <1>2
<1>6. PICK p \in P : \A q \in P \ {p} : <<p, q>> \in R
  BY <1>3, <1>4, <1>5, SomeIsLeast
<1>7. Leads(p, P, aoi)
  BY <1>1, <1>6 DEF Leads
<1>8. \A q \in P : Leads(q, P, aoi) => q = p
  BY <1>1, <1>7 DEF Leads
<1> QED BY <1>7, <1>8

LEMMA BestLeads ==
  ASSUME NEW S, IsFiniteSet(S), NEW aoi, Numbered(S, aoi), Named(S),
         NEW P, P \subseteq S \X S, P # {}, NEW candidates
  PROVE  /\ Best(candidates, aoi, P) \in P /\ Leads(Best(candidates, aoi, P), P, aoi)
         /\ \A q \in P : Leads(q, P, aoi) => q = Best(candidates, aoi, P)
<1>1. PICK p \in P : Leads(p, P, aoi) /\ \A q \in P : Leads(q, P, aoi) => q = p
  BY OneLeads
<1>2. Best(candidates, aoi, P) = CHOOSE q \in P : Leads(q, P, aoi)
  BY DEF Best, Leads
<1> QED BY <1>1, <1>2

LEMMA AdmissibleAreCandidates ==
  ASSUME NEW arguments, NEW S
  PROVE  /\ Side(arguments, S, arguments.before) \subseteq S
         /\ Side(arguments, S, arguments.after) \subseteq S
         /\ Admissible(arguments, S) \subseteq S \X S
<1>1. \A window : Side(arguments, S, window) \subseteq S
  BY DEF Side, Clear, Covering
<1> QED BY <1>1 DEF Admissible

\* A list of candidates is finite, and its names are those of its members.
LEMMA ListedCandidates ==
  ASSUME NEW T, NEW candidates \in Seq(T), CandidatesValid(candidates)
  PROVE  IsFiniteSet(ToSet(candidates)) /\ Named(ToSet(candidates))
<1>1. DOMAIN candidates = 1 .. Len(candidates) /\ Len(candidates) \in Nat
  OBVIOUS
<1>2. candidates \in Surjection(1 .. Len(candidates), ToSet(candidates))
  BY <1>1 DEF Surjection, ToSet
<1>3. IsFiniteSet(ToSet(candidates))
  BY <1>1, <1>2, FS_NatSurjection DEF ExistsSurjection
<1>4. Named(ToSet(candidates))
  BY DEF CandidatesValid, Named, ToSet
<1> QED BY <1>3, <1>4

\* What the code's four filters and its sort come to.
LEMMA SelectedPair ==
  ASSUME NEW arguments, NEW candidates, CandidatesValid(candidates)
  PROVE  LET r == SelectPair(arguments, candidates)
             P == Admissible(arguments, ToSet(candidates))
             best == Best(candidates, arguments.aoi, P)
         IN  IF P = {} THEN r.status = "rejected"
             ELSE /\ r.status = "selected"
                  /\ r.before = Chosen(best[1], arguments)
                  /\ r.after = Chosen(best[2], arguments)
<1> DEFINE S == ToSet(candidates)
           considered == {c.item : c \in S}
           before == OnDate(candidates, arguments.before)
           after == OnDate(candidates, arguments.after)
           before_covers == Covering(arguments, before)
           after_covers == Covering(arguments, after)
           before_clear == Clear(arguments, before_covers)
           after_clear == Clear(arguments, after_covers)
           P == Admissible(arguments, S)
           best == Best(candidates, arguments.aoi, P)
           r == SelectPair(arguments, candidates)
<1>1. P = {p \in before_clear \X after_clear : SameSensor(p)}
  BY DEF Admissible, Side, OnDate
<1>2. r = IF before = {} \/ after = {} THEN Rejected("wrong_date", considered)
     ELSE IF before_covers = {} \/ after_covers = {}
       THEN Rejected("insufficient_coverage", considered)
     ELSE IF before_clear = {} \/ after_clear = {} THEN Rejected("cloudy", considered)
     ELSE IF P = {} THEN Rejected("sensor_mismatch", considered)
     ELSE [status |-> "selected", reason |-> "selected",
           before |-> Chosen(best[1], arguments), after |-> Chosen(best[2], arguments),
           considered |-> considered]
  BY <1>1 DEF SelectPair
<1>3. P # {} => /\ before_clear # {} /\ after_clear # {}
  BY <1>1
<1>4. /\ before_clear \subseteq before_covers /\ before_covers \subseteq before
      /\ after_clear \subseteq after_covers /\ after_covers \subseteq after
  BY DEF Clear, Covering
<1>5. \A reason : Rejected(reason, considered).status = "rejected"
  BY DEF Rejected
<1> HIDE DEF considered, before, after, before_covers, after_covers, before_clear,
             after_clear, P, best, r
<1>6. CASE P = {}
  BY <1>2, <1>5, <1>6 DEF P, r, S
<1>7. CASE P # {}
  <2>1. r = [status |-> "selected", reason |-> "selected",
           before |-> Chosen(best[1], arguments), after |-> Chosen(best[2], arguments),
           considered |-> considered]
    BY <1>2, <1>3, <1>4, <1>7
  <2>2. r.status = "selected" /\ r.before = Chosen(best[1], arguments)
        /\ r.after = Chosen(best[2], arguments)
    BY <2>1
  <2> QED BY <1>7, <2>2 DEF P, r, S, best
<1> QED BY <1>6, <1>7 DEF P

\* A pair is chosen exactly if there is an admissible one, and it is the least by
\* clouds, coverage, dates and names (select_temporal_pair): no tie is left to the
\* order of the candidates.
THEOREM ChoiceIsLeast ==
  ASSUME NEW arguments, NEW T, NEW candidates \in Seq(T), CandidatesValid(candidates),
         Numbered(ToSet(candidates), arguments.aoi)
  PROVE  LET r == SelectPair(arguments, candidates)
             P == Admissible(arguments, ToSet(candidates))
         IN  /\ r.status = "selected" <=> P # {}
             /\ P # {} => \E p \in P : /\ r.before = Chosen(p[1], arguments)
                                       /\ r.after = Chosen(p[2], arguments)
                                       /\ Leads(p, P, arguments.aoi)
                                       /\ \A q \in P : Leads(q, P, arguments.aoi) => q = p
<1> DEFINE r == SelectPair(arguments, candidates)
           S == ToSet(candidates)
           P == Admissible(arguments, S)
           best == Best(candidates, arguments.aoi, P)
<1>1. IF P = {} THEN r.status = "rejected"
      ELSE /\ r.status = "selected"
           /\ r.before = Chosen(best[1], arguments)
           /\ r.after = Chosen(best[2], arguments)
  BY SelectedPair
<1>2. IsFiniteSet(S) /\ Named(S) /\ P \subseteq S \X S
  BY ListedCandidates, AdmissibleAreCandidates
<1>3. P # {} => /\ best \in P /\ Leads(best, P, arguments.aoi)
                /\ \A q \in P : Leads(q, P, arguments.aoi) => q = best
  BY <1>2, BestLeads
<1> QED BY <1>1, <1>3

\* The candidates that are not chosen, their number and their order do not matter.
THEOREM OthersDoNotMatter ==
  ASSUME NEW arguments, NEW T, NEW c \in Seq(T), NEW d \in Seq(T),
         CandidatesValid(c), CandidatesValid(d), Numbered(ToSet(c), arguments.aoi),
         SelectPair(arguments, c).status = "selected",
         ToSet(d) \subseteq ToSet(c),
         \A x \in ToSet(c) : x.item \in {SelectPair(arguments, c).before.item,
                                         SelectPair(arguments, c).after.item} => x \in ToSet(d)
  PROVE  /\ SelectPair(arguments, d).status = "selected"
         /\ Pair(SelectPair(arguments, d)) = Pair(SelectPair(arguments, c))
<1> DEFINE aoi == arguments.aoi
<1>1. PICK S, U, P, Q, r, s : /\ S = ToSet(c) /\ U = ToSet(d)
                              /\ P = Admissible(arguments, S) /\ Q = Admissible(arguments, U)
                              /\ r = SelectPair(arguments, c) /\ s = SelectPair(arguments, d)
  OBVIOUS
<1>2. /\ P # {} /\ P \subseteq S \X S
      /\ \E p \in P : /\ r.before = Chosen(p[1], arguments) /\ r.after = Chosen(p[2], arguments)
                      /\ Leads(p, P, aoi)
  BY <1>1, ChoiceIsLeast, AdmissibleAreCandidates
<1>3. PICK p \in P : /\ r.before = Chosen(p[1], arguments) /\ r.after = Chosen(p[2], arguments)
                     /\ Leads(p, P, aoi)
  BY <1>2
<1>4. r.before.item = p[1].item /\ r.after.item = p[2].item
  BY <1>3 DEF Chosen
<1>5. p[1] \in U /\ p[2] \in U /\ U \subseteq S
  BY <1>1, <1>2, <1>3, <1>4
<1>6. Q \subseteq P
  BY <1>1, <1>5 DEF Admissible, Side, Clear, Covering
<1>7. p \in Q
  BY <1>1, <1>2, <1>3, <1>5 DEF Admissible, Side, Clear, Covering
<1>8. Leads(p, Q, aoi)
  BY <1>3, <1>6 DEF Leads
<1>9. Numbered(U, aoi)
  BY <1>1, <1>5 DEF Numbered
<1>10. /\ s.status = "selected"
       /\ \E q \in Q : /\ s.before = Chosen(q[1], arguments) /\ s.after = Chosen(q[2], arguments)
                       /\ \A o \in Q : Leads(o, Q, aoi) => o = q
  BY <1>1, <1>7, <1>9, ChoiceIsLeast
<1>11. s.before = r.before /\ s.after = r.after
  BY <1>3, <1>7, <1>8, <1>10
<1> QED BY <1>1, <1>10, <1>11 DEF Pair

-------------------------------------------------------------------------------
(* Asking for less *)

LEMMA Multiplied ==
  ASSUME NEW a \in Int, NEW b \in Int, NEW n \in Nat, a <= b
  PROVE  a * n <= b * n
OBVIOUS

LEMMA Divided ==
  ASSUME NEW a \in Int, NEW b \in Int, NEW n \in Nat \ {0}, a * n <= b * n
  PROVE  a <= b
<1> SUFFICES ASSUME b < a PROVE FALSE
  OBVIOUS
<1>1. b + 1 <= a
  OBVIOUS
<1>2. (b + 1) * n <= a * n
  BY <1>1, Multiplied
<1>3. (b + 1) * n = b * n + n
  OBVIOUS
<1> QED BY <1>2, <1>3

LEMMA LeqIsTransitive ==
  ASSUME NEW p \in Fraction, NEW q \in Fraction, NEW r \in Fraction, Leq(p, q), Leq(q, r)
  PROVE  Leq(p, r)
<1>1. PICK a, b, c, k, l, m : /\ a = p[1] /\ b = q[1] /\ c = r[1]
                              /\ k = p[2] /\ l = q[2] /\ m = r[2]
  OBVIOUS
<1>2. /\ a \in Int /\ b \in Int /\ c \in Int
      /\ k \in Nat \ {0} /\ l \in Nat \ {0} /\ m \in Nat \ {0}
  BY <1>1 DEF Fraction
<1>3. a * l <= b * k /\ b * m <= c * l
  BY <1>1 DEF Leq
<1>4. (a * l) * m <= (b * k) * m /\ (b * m) * k <= (c * l) * k
  BY <1>2, <1>3, Multiplied
<1>5. (a * l) * m = (a * m) * l /\ (b * k) * m = (b * m) * k /\ (c * l) * k = (c * k) * l
  BY <1>2
<1>6. (a * m) * l <= (c * k) * l
  BY <1>2, <1>4, <1>5
<1>7. a * m <= c * k
  BY <1>2, <1>6, Divided
<1> QED BY <1>1, <1>7 DEF Leq

Limits(A) ==
  [before : Int \X Int, after : Int \X Int, aoi : A, minimum_coverage : Fraction,
   maximum_cloud : Int]

\* The second limits admit whatever the first admit.
AsksLess(arguments, laxer) ==
  /\ laxer.aoi = arguments.aoi
  /\ laxer.before[1] <= arguments.before[1] /\ arguments.before[2] <= laxer.before[2]
  /\ laxer.after[1] <= arguments.after[1] /\ arguments.after[2] <= laxer.after[2]
  /\ Leq(laxer.minimum_coverage, arguments.minimum_coverage)
  /\ arguments.maximum_cloud <= laxer.maximum_cloud

LEMMA LaxerAdmitsMore ==
  ASSUME NEW A, NEW arguments \in Limits(A), NEW laxer \in Limits(A),
         AsksLess(arguments, laxer), NEW S, Numbered(S, arguments.aoi)
  PROVE  Admissible(arguments, S) \subseteq Admissible(laxer, S)
<1>1. ASSUME NEW c \in S, NEW window \in Int \X Int, NEW wider \in Int \X Int,
             wider[1] <= window[1], window[2] <= wider[2],
             c \in Side(arguments, S, window)
      PROVE  c \in Side(laxer, S, wider)
  <2>1. /\ c.acquired \in Int /\ c.cloud \in Int /\ Coverage(c.bbox, arguments.aoi) \in Fraction
    BY DEF Numbered
  <2>2. /\ window[1] <= c.acquired /\ c.acquired <= window[2]
        /\ Leq(arguments.minimum_coverage, Coverage(c.bbox, arguments.aoi))
        /\ c.cloud <= arguments.maximum_cloud
    BY <1>1 DEF Side, Clear, Covering, DuringWindow
  <2>3. wider[1] <= c.acquired /\ c.acquired <= wider[2]
    BY <1>1, <2>1, <2>2
  <2>4. Leq(laxer.minimum_coverage, Coverage(c.bbox, laxer.aoi))
    <3>1. laxer.minimum_coverage \in Fraction /\ arguments.minimum_coverage \in Fraction
      BY DEF Limits
    <3> QED BY <2>1, <2>2, <3>1, LeqIsTransitive DEF AsksLess
  <2>5. c.cloud <= laxer.maximum_cloud
    BY <2>1, <2>2 DEF AsksLess, Limits
  <2> QED BY <2>3, <2>4, <2>5 DEF Side, Clear, Covering, DuringWindow
<1>2. /\ arguments.before \in Int \X Int /\ laxer.before \in Int \X Int
      /\ arguments.after \in Int \X Int /\ laxer.after \in Int \X Int
  BY DEF Limits
<1>3. /\ Side(arguments, S, arguments.before) \subseteq Side(laxer, S, laxer.before)
      /\ Side(arguments, S, arguments.after) \subseteq Side(laxer, S, laxer.after)
  <2>1. /\ \A c \in Side(arguments, S, arguments.before) : c \in S
        /\ \A c \in Side(arguments, S, arguments.after) : c \in S
    BY AdmissibleAreCandidates
  <2> QED BY <1>1, <1>2, <2>1 DEF AsksLess
<1> QED BY <1>3 DEF Admissible

\* Wider windows, less coverage or more clouds allowed never lose a selection, and
\* never choose a cloudier pair.
THEOREM LaxerLimitsKeep ==
  ASSUME NEW A, NEW arguments \in Limits(A), NEW laxer \in Limits(A),
         AsksLess(arguments, laxer), NEW T, NEW c \in Seq(T), CandidatesValid(c),
         Numbered(ToSet(c), arguments.aoi), SelectPair(arguments, c).status = "selected"
  PROVE  StandsAgainst(SelectPair(arguments, c), SelectPair(laxer, c))
<1>1. PICK S, P, Q, r, s, aoi :
        /\ S = ToSet(c) /\ aoi = arguments.aoi
        /\ P = Admissible(arguments, S) /\ Q = Admissible(laxer, S)
        /\ r = SelectPair(arguments, c) /\ s = SelectPair(laxer, c)
  OBVIOUS
<1>2. laxer.aoi = aoi /\ Numbered(S, aoi)
  BY <1>1 DEF AsksLess
<1>3. PICK p \in P : r.before = Chosen(p[1], arguments) /\ r.after = Chosen(p[2], arguments)
  BY <1>1, ChoiceIsLeast
<1>4. P \subseteq Q /\ Q \subseteq S \X S
  BY <1>1, LaxerAdmitsMore, AdmissibleAreCandidates
<1>5. /\ s.status = "selected"
      /\ \E q \in Q : /\ s.before = Chosen(q[1], laxer) /\ s.after = Chosen(q[2], laxer)
                      /\ Leads(q, Q, aoi)
  BY <1>1, <1>2, <1>3, <1>4, ChoiceIsLeast
<1>6. PICK q \in Q : /\ s.before = Chosen(q[1], laxer) /\ s.after = Chosen(q[2], laxer)
                     /\ Leads(q, Q, aoi)
  BY <1>5
<1>7. PICK k, l : k = Key(q, aoi) /\ l = Key(p, aoi)
  OBVIOUS
<1>8. /\ k \in Keys /\ k[1] = q[1].cloud + q[2].cloud
      /\ l \in Keys /\ l[1] = p[1].cloud + p[2].cloud
  BY <1>2, <1>3, <1>4, <1>6, <1>7, KeyIsKey
<1>9. q = p \/ Precedes(k, l)
  BY <1>3, <1>4, <1>6, <1>7 DEF Leads
<1>10. k[1] <= l[1]
  <2>1. k[1] \in Int /\ l[1] \in Int
    BY <1>8 DEF Keys
  <2>2. CASE q = p
    BY <1>7, <2>1, <2>2
  <2>3. CASE Precedes(k, l)
    <3>1. k[1] < l[1] \/ k[1] = l[1]
      BY <1>8, <2>3, KeyOrder
    <3> QED BY <2>1, <3>1
  <2> QED BY <1>9, <2>2, <2>3
<1>11. /\ r.before.cloud = p[1].cloud /\ r.after.cloud = p[2].cloud
       /\ s.before.cloud = q[1].cloud /\ s.after.cloud = q[2].cloud
  BY <1>3, <1>6 DEF Chosen
<1> QED BY <1>1, <1>5, <1>8, <1>10, <1>11 DEF StandsAgainst

-------------------------------------------------------------------------------
(* Lists of candidates *)

LEMMA Rearranged ==
  ASSUME MaxCandidates \in Nat, NEW T, NEW c \in Seq(T), NEW d \in Seq(T), CandidatesValid(c),
         Len(d) >= 1, Len(d) <= Len(c), NEW f \in [1 .. Len(d) -> 1 .. Len(c)],
         \A i, j \in 1 .. Len(d) : f[i] = f[j] => i = j,
         \A i \in 1 .. Len(d) : d[i] = c[f[i]]
  PROVE  CandidatesValid(d) /\ ToSet(d) \subseteq ToSet(c)
<1>1. DOMAIN c = 1 .. Len(c) /\ DOMAIN d = 1 .. Len(d) /\ Len(c) \in Nat /\ Len(d) \in Nat
  OBVIOUS
<1>2. /\ Len(c) \in 1 .. MaxCandidates
      /\ \A i \in 1 .. Len(c) : /\ CandidateConsistent(c[i])
                                /\ Cardinality({c[i].red.asset, c[i].scl.asset}) = 2
      /\ \A i, j \in 1 .. Len(c) : i # j =>
           /\ c[i].item # c[j].item
           /\ {c[i].red.asset, c[i].scl.asset} \cap {c[j].red.asset, c[j].scl.asset} = {}
  BY <1>1 DEF CandidatesValid
<1>3. Len(d) \in 1 .. MaxCandidates
  BY <1>1, <1>2
<1>4. \A i \in 1 .. Len(d) : /\ CandidateConsistent(d[i])
                             /\ Cardinality({d[i].red.asset, d[i].scl.asset}) = 2
  <2>1. ASSUME NEW i \in 1 .. Len(d)
        PROVE  /\ CandidateConsistent(d[i])
               /\ Cardinality({d[i].red.asset, d[i].scl.asset}) = 2
    <3>1. PICK k \in 1 .. Len(c) : k = f[i]
      OBVIOUS
    <3>2. d[i] = c[k]
      BY <3>1
    <3> QED BY <1>2, <3>2
  <2> QED BY <2>1
<1>5. \A i, j \in 1 .. Len(d) : i # j =>
        /\ d[i].item # d[j].item
        /\ {d[i].red.asset, d[i].scl.asset} \cap {d[j].red.asset, d[j].scl.asset} = {}
  <2>1. ASSUME NEW i \in 1 .. Len(d), NEW j \in 1 .. Len(d), i # j
        PROVE  /\ d[i].item # d[j].item
               /\ {d[i].red.asset, d[i].scl.asset} \cap {d[j].red.asset, d[j].scl.asset} = {}
    <3>1. f[i] \in 1 .. Len(c) /\ f[j] \in 1 .. Len(c) /\ f[i] # f[j]
      BY <2>1
    <3>2. d[i] = c[f[i]] /\ d[j] = c[f[j]]
      OBVIOUS
    <3> QED BY <1>2, <3>1, <3>2, SMTT(30)
  <2> QED BY <2>1
<1>6. ToSet(d) \subseteq ToSet(c)
  BY <1>1 DEF ToSet
<1> QED BY <1>1, <1>3, <1>4, <1>5, <1>6 DEF CandidatesValid

LEMMA Reversed ==
  ASSUME NEW T, NEW c \in Seq(T)
  PROVE  /\ Reverse(c) \in Seq(T) /\ Len(Reverse(c)) = Len(c)
         /\ \A i \in 1 .. Len(c) : Reverse(c)[i] = c[Len(c) - i + 1]
         /\ Reverse(Reverse(c)) = c
<1>1. Len(c) \in Nat
  OBVIOUS
<1>2. \A i \in 1 .. Len(c) : (Len(c) - i) + 1 \in 1 .. Len(c)
  BY <1>1
<1>3. /\ Reverse(c) \in Seq(T) /\ Len(Reverse(c)) = Len(c)
      /\ \A i \in 1 .. Len(c) : Reverse(c)[i] = c[Len(c) - i + 1]
  BY <1>1, <1>2 DEF Reverse
<1>4. \A i \in 1 .. Len(c) : Reverse(c)[(Len(c) - i) + 1] = c[i]
  <2>1. \A i \in 1 .. Len(c) : Len(c) - ((Len(c) - i) + 1) + 1 = i
    BY <1>1
  <2> QED BY <1>2, <1>3, <2>1
<1>5. Reverse(Reverse(c)) = [i \in 1 .. Len(c) |-> c[i]]
  BY <1>3, <1>4 DEF Reverse
<1> QED BY <1>3, <1>5

\* A list in the other order is as good, and the same is chosen.
LEMMA OrderDoesNotMatter ==
  ASSUME MaxCandidates \in Nat, NEW T, NEW c \in Seq(T), NEW arguments
  PROVE  SelectPair(arguments, Reverse(c)) = SelectPair(arguments, c)
<1>1. ASSUME NEW d \in Seq(T), CandidatesValid(d)
      PROVE  CandidatesValid(Reverse(d)) /\ ToSet(Reverse(d)) = ToSet(d)
  <2>1. PICK e : e = Reverse(d)
    OBVIOUS
  <2>2. /\ e \in Seq(T) /\ Len(e) = Len(d) /\ Len(d) \in Nat
        /\ \A i \in 1 .. Len(d) : e[i] = d[Len(d) - i + 1]
    BY <2>1, Reversed
  <2>3. Len(d) >= 1
    BY <1>1 DEF CandidatesValid
  <2> DEFINE f == [i \in 1 .. Len(e) |-> Len(d) - i + 1]
  <2>4. /\ f \in [1 .. Len(e) -> 1 .. Len(d)]
        /\ \A i, j \in 1 .. Len(e) : f[i] = f[j] => i = j
        /\ \A i \in 1 .. Len(e) : e[i] = d[f[i]]
    BY <2>2
  <2> HIDE DEF f
  <2>5. CandidatesValid(e)
    <3>1. e \in Seq(T) /\ Len(e) >= 1 /\ Len(e) <= Len(d)
      BY <2>2, <2>3
    <3>2. CandidatesValid(d)
      BY <1>1
    <3> QED BY <2>4, <3>1, <3>2, Rearranged, SMTT(30)
  <2>6. ToSet(e) = ToSet(d)
    <3>1. \A i \in 1 .. Len(d) : Len(d) - i + 1 \in 1 .. Len(d) /\ d[i] = e[Len(d) - i + 1]
      <4>1. \A i \in 1 .. Len(d) : /\ Len(d) - i + 1 \in 1 .. Len(d)
                                   /\ Len(d) - (Len(d) - i + 1) + 1 = i
        BY <2>2
      <4> QED BY <2>2, <4>1
    <3>2. DOMAIN e = 1 .. Len(d) /\ DOMAIN d = 1 .. Len(d)
      BY <2>2
    <3>3. \A i \in 1 .. Len(d) : e[i] = d[Len(d) - i + 1] /\ Len(d) - i + 1 \in 1 .. Len(d)
      BY <2>2, <3>1
    <3> QED BY <3>1, <3>2, <3>3 DEF ToSet
  <2> QED BY <2>1, <2>5, <2>6
<1>2. Reverse(c) \in Seq(T) /\ Reverse(Reverse(c)) = c
  BY Reversed
<1>3. CandidatesValid(Reverse(c)) <=> CandidatesValid(c)
  BY <1>1, <1>2
<1>4. CASE ~CandidatesValid(c)
  BY <1>3, <1>4 DEF SelectPair
<1>5. CASE CandidatesValid(c)
  <2>1. ToSet(Reverse(c)) = ToSet(c)
    BY <1>1, <1>5
  <2>2. PICK d : d = Reverse(c)
    OBVIOUS
  <2>3. ToSet(d) = ToSet(c) /\ CandidatesValid(d)
    BY <1>3, <1>5, <2>1, <2>2
  <2>4. SelectPair(arguments, d) = SelectPair(arguments, c)
    BY <1>5, <2>3 DEF SelectPair, OnDate, Best
  <2> QED BY <2>2, <2>4
<1> QED BY <1>4, <1>5

LEMMA OneRemoved ==
  ASSUME MaxCandidates \in Nat, NEW T, NEW c \in Seq(T), CandidatesValid(c),
         NEW i \in 1 .. Len(c), Len(c) >= 2
  PROVE  LET d == RemoveAt(c, i)
         IN  /\ d \in Seq(T) /\ CandidatesValid(d) /\ ToSet(d) \subseteq ToSet(c)
             /\ \A x \in ToSet(c) : x # c[i] => x \in ToSet(d)
<1>1. PICK d : d = RemoveAt(c, i)
  OBVIOUS
<1>2. Len(c) \in Nat
  OBVIOUS
<1>3. /\ d \in Seq(T) /\ Len(d) = Len(c) - 1
      /\ \A j \in 1 .. Len(d) : d[j] = c[IF j < i THEN j ELSE j + 1]
  <2>1. PICK p, q : p = SubSeq(c, 1, i - 1) /\ q = SubSeq(c, i + 1, Len(c))
    OBVIOUS
  <2>2. /\ p \in Seq(T) /\ Len(p) = i - 1
        /\ \A j \in 1 .. Len(p) : p[j] = c[j]
    BY <1>2, <2>1
  <2>3. /\ q \in Seq(T) /\ Len(q) = Len(c) - i
        /\ \A j \in 1 .. Len(q) : q[j] = c[i + j]
    BY <1>2, <2>1
  <2>4. d = p \o q
    BY <1>1, <2>1 DEF RemoveAt
  <2>5. /\ d \in Seq(T) /\ Len(d) = Len(c) - 1
        /\ \A j \in 1 .. Len(d) : d[j] = IF j <= Len(p) THEN p[j] ELSE q[j - Len(p)]
    BY <1>2, <2>2, <2>3, <2>4
  <2>6. ASSUME NEW j \in 1 .. Len(d)
        PROVE  d[j] = c[IF j < i THEN j ELSE j + 1]
    <3>1. CASE j < i
      BY <2>2, <2>5, <3>1
    <3>2. CASE ~(j < i)
      <4>1. j - Len(p) \in 1 .. Len(q) /\ i + (j - Len(p)) = j + 1
        BY <1>2, <2>2, <2>3, <2>5, <3>2
      <4> QED BY <2>2, <2>3, <2>5, <3>2, <4>1
    <3> QED BY <3>1, <3>2
  <2> QED BY <2>5, <2>6
<1> DEFINE f == [j \in 1 .. Len(d) |-> IF j < i THEN j ELSE j + 1]
<1>4. /\ f \in [1 .. Len(d) -> 1 .. Len(c)]
      /\ \A j, k \in 1 .. Len(d) : f[j] = f[k] => j = k
      /\ \A j \in 1 .. Len(d) : d[j] = c[f[j]]
  BY <1>2, <1>3
<1>5. \A k \in 1 .. Len(c) : k # i => \E j \in 1 .. Len(d) : f[j] = k
  <2>1. ASSUME NEW k \in 1 .. Len(c), k # i PROVE \E j \in 1 .. Len(d) : f[j] = k
    <3>1. CASE k < i
      BY <1>2, <1>3, <3>1
    <3>2. CASE k > i
      <4>1. k - 1 \in 1 .. Len(d) /\ ~(k - 1 < i) /\ (k - 1) + 1 = k
        BY <1>2, <1>3, <3>2
      <4> QED BY <4>1
    <3> QED BY <1>2, <2>1, <3>1, <3>2
  <2> QED BY <2>1
<1> HIDE DEF f
<1>6. Len(d) >= 1 /\ Len(d) <= Len(c)
  BY <1>2, <1>3
<1>7. CandidatesValid(d) /\ ToSet(d) \subseteq ToSet(c)
  BY <1>3, <1>4, <1>6, Rearranged
<1>8. ASSUME NEW x \in ToSet(c), x # c[i] PROVE x \in ToSet(d)
  <2>1. PICK k \in 1 .. Len(c) : x = c[k]
    BY DEF ToSet
  <2>2. PICK j \in 1 .. Len(d) : f[j] = k
    BY <1>5, <1>8, <2>1
  <2>3. DOMAIN d = 1 .. Len(d)
    BY <1>3
  <2> QED BY <1>4, <2>1, <2>2, <2>3 DEF ToSet
<1> QED BY <1>1, <1>3, <1>7, <1>8

\* For every list of candidates the selection is stable: it depends neither on
\* their order nor on those it does not choose, and the laxer limits of the run
\* never lose it.
THEOREM SelectionsAreStable ==
  ASSUME MaxCandidates \in Nat, NEW A, NEW T, NEW c,
         c.arguments \in Limits(A), c.candidates \in Seq(T),
         Numbered(ToSet(c.candidates), c.arguments.aoi),
         Leq(<<1, 4>>, c.arguments.minimum_coverage), c.arguments.maximum_cloud <= 2,
         c.arguments.after[2] <= 5
  PROVE  SelectionIsStableIn(c)
<1>1. PICK arguments, candidates, r :
        /\ arguments = c.arguments /\ candidates = c.candidates
        /\ r = SelectPair(arguments, candidates)
  OBVIOUS
<1>2. /\ arguments \in Limits(A) /\ candidates \in Seq(T)
      /\ Numbered(ToSet(candidates), arguments.aoi)
      /\ Leq(<<1, 4>>, arguments.minimum_coverage) /\ arguments.maximum_cloud <= 2
      /\ arguments.after[2] <= 5
  BY <1>1
<1>3. SelectPair(arguments, Reverse(candidates)) = r
  BY <1>1, <1>2, OrderDoesNotMatter
<1>4. ASSUME r # None, r.status = "selected"
      PROVE  /\ \A i \in DOMAIN candidates :
                  candidates[i].item \notin {r.before.item, r.after.item} =>
                    Pair(SelectPair(arguments, RemoveAt(candidates, i))) = Pair(r)
             /\ \A laxer \in Laxer(arguments) :
                  StandsAgainst(r, SelectPair(laxer, candidates))
  <2>1. CandidatesValid(candidates)
    BY <1>1, <1>4 DEF SelectPair
  <2>2. PICK p : /\ p \in Admissible(arguments, ToSet(candidates))
                 /\ r.before = Chosen(p[1], arguments) /\ r.after = Chosen(p[2], arguments)
    BY <1>1, <1>2, <1>4, <2>1, ChoiceIsLeast
  <2>3. p[1] \in ToSet(candidates) /\ r.before.item = p[1].item
    BY <2>2, AdmissibleAreCandidates DEF Chosen
  <2>4. ASSUME NEW i \in DOMAIN candidates,
               candidates[i].item \notin {r.before.item, r.after.item}
        PROVE  Pair(SelectPair(arguments, RemoveAt(candidates, i))) = Pair(r)
    <3>1. i \in 1 .. Len(candidates) /\ Len(candidates) \in Nat
      BY <1>2
    <3>2. Len(candidates) >= 2
      <4>1. PICK k \in 1 .. Len(candidates) : p[1] = candidates[k]
        BY <1>2, <2>3 DEF ToSet
      <4>2. k # i
        BY <2>3, <2>4, <4>1
      <4> QED BY <3>1, <4>2
    <3>3. PICK d : d = RemoveAt(candidates, i)
      OBVIOUS
    <3>4. /\ d \in Seq(T) /\ CandidatesValid(d) /\ ToSet(d) \subseteq ToSet(candidates)
          /\ \A x \in ToSet(candidates) : x # candidates[i] => x \in ToSet(d)
      BY <1>2, <2>1, <3>1, <3>2, <3>3, OneRemoved
    <3>5. \A x \in ToSet(candidates) : x.item \in {r.before.item, r.after.item} => x \in ToSet(d)
      BY <2>4, <3>4
    <3> QED BY <1>1, <1>2, <1>4, <2>1, <3>3, <3>4, <3>5, OthersDoNotMatter
  <2>5. ASSUME NEW laxer \in Laxer(arguments)
        PROVE  StandsAgainst(r, SelectPair(laxer, candidates))
    <3>1. /\ arguments.before \in Int \X Int /\ arguments.after \in Int \X Int
          /\ arguments.minimum_coverage \in Fraction /\ arguments.maximum_cloud \in Int
      BY <1>2 DEF Limits
    <3>2. <<1, 4>> \in Fraction
      BY DEF Fraction
    <3>3. Leq(arguments.minimum_coverage, arguments.minimum_coverage)
      BY <3>1 DEF Leq, Fraction
    <3>7. /\ arguments.before[1] <= arguments.before[1]
          /\ arguments.before[2] <= arguments.before[2]
          /\ arguments.after[1] <= arguments.after[1]
          /\ arguments.after[2] <= arguments.after[2]
          /\ arguments.maximum_cloud <= arguments.maximum_cloud
      BY <3>1
    <3>8. 2 \in Int
      OBVIOUS
    <3>4. CASE laxer = [arguments EXCEPT !.minimum_coverage = <<1, 4>>]
      <4>1. laxer \in Limits(A)
        BY <1>2, <3>2, <3>4, Zenon DEF Limits
      <4>2. /\ laxer.aoi = arguments.aoi /\ laxer.before = arguments.before
            /\ laxer.after = arguments.after /\ laxer.maximum_cloud = arguments.maximum_cloud
            /\ laxer.minimum_coverage = <<1, 4>>
        BY <1>2, <3>4 DEF Limits
      <4>3. AsksLess(arguments, laxer)
        BY <1>2, <3>7, <4>2 DEF AsksLess
      <4> QED BY <1>1, <1>2, <1>4, <2>1, <4>1, <4>3, LaxerLimitsKeep
    <3>5. CASE laxer = [arguments EXCEPT !.maximum_cloud = 2]
      <4>1. laxer \in Limits(A)
        BY <1>2, <3>5, <3>8, Zenon DEF Limits
      <4>2. /\ laxer.aoi = arguments.aoi /\ laxer.before = arguments.before
            /\ laxer.after = arguments.after /\ laxer.maximum_cloud = 2
            /\ laxer.minimum_coverage = arguments.minimum_coverage
        BY <1>2, <3>5 DEF Limits
      <4>3. AsksLess(arguments, laxer)
        BY <1>2, <3>3, <3>7, <4>2 DEF AsksLess
      <4> QED BY <1>1, <1>2, <1>4, <2>1, <4>1, <4>3, LaxerLimitsKeep
    <3>6. CASE laxer = [arguments EXCEPT !.after[2] = 5]
      <4>1. PICK after : after = [arguments.after EXCEPT ![2] = 5]
        OBVIOUS
      <4>2. after \in Int \X Int /\ after[1] = arguments.after[1] /\ after[2] = 5
        BY <3>1, <4>1
      <4>3. laxer = [arguments EXCEPT !.after = after]
        BY <3>6, <4>1
      <4>4. laxer \in Limits(A)
        BY <1>2, <4>2, <4>3, Zenon DEF Limits
      <4>5. /\ laxer.aoi = arguments.aoi /\ laxer.before = arguments.before
            /\ laxer.after = after /\ laxer.maximum_cloud = arguments.maximum_cloud
            /\ laxer.minimum_coverage = arguments.minimum_coverage
        BY <1>2, <4>3 DEF Limits
      <4>6. AsksLess(arguments, laxer)
        BY <1>2, <3>3, <3>7, <4>2, <4>5 DEF AsksLess
      <4> QED BY <1>1, <1>2, <1>4, <2>1, <4>4, <4>6, LaxerLimitsKeep
    <3> QED BY <3>4, <3>5, <3>6 DEF Laxer
  <2> QED BY <2>4, <2>5
<1> QED BY <1>1, <1>3, <1>4 DEF SelectionIsStableIn, Stable

-------------------------------------------------------------------------------
(* Byte ranges that are served *)

LEMMA LargerOfTwo ==
  ASSUME NEW a \in Int, NEW b \in Int
  PROVE  Max({a, b}) \in {a, b} /\ Max({a, b}) >= a /\ Max({a, b}) >= b
BY DEF Max

RangeHeaders == [first : {None} \cup Nat, last : {None} \cup Nat]

\* None is nothing else.
NoneIsApart ==
  /\ None \notin Nat /\ None \notin RangeHeaders
  /\ None \notin {"artifact_content_missing", "artifact_content_corrupt", "invalid_range",
                  "range_not_satisfiable"}

LEMMA SameEnds ==
  \A S : Http!Min(S) = Min(S) /\ Http!Max(S) = Max(S)
BY DEF Min, Max, Http!Min, Http!Max

LEMMA EndsOfInterval ==
  ASSUME NEW a \in Int, NEW b \in Int, a <= b
  PROVE  Min(a .. b) = a /\ Max(a .. b) = b /\ Cardinality(a .. b) = b - a + 1
<1>1. Min(a .. b) = a
  BY DEF Min
<1>2. Max(a .. b) = b
  BY DEF Max
<1>3. Cardinality(a .. b) = b - a + 1
  BY FS_Interval
<1> QED BY <1>1, <1>2, <1>3

\* What a header asks for is an interval, and the bounds are its ends.
LEMMA BoundsAreAsked ==
  ASSUME NEW n \in Nat, NEW header \in RangeHeaders, NoneIsApart
  PROVE  LET asked == Asked(header, n)
             b == Http!RangeBounds(header, n)
         IN  \/ /\ asked = {}
                /\ b.error \in {"invalid_range", "range_not_satisfiable"}
             \/ /\ b.start \in Nat /\ b.end \in Nat /\ b.start <= b.end /\ b.end < n
                /\ asked = (b.start + 1) .. (b.end + 1)
                /\ b = [error |-> None, start |-> b.start, end |-> b.end, partial |-> TRUE]
<1>1. PICK asked, b : asked = Asked(header, n) /\ b = Http!RangeBounds(header, n)
  OBVIOUS
<1>2. PICK first, last : first = header.first /\ last = header.last
  OBVIOUS
<1>3. first \in {None} \cup Nat /\ last \in {None} \cup Nat /\ header # None /\ None \notin Nat
  BY <1>2 DEF RangeHeaders, NoneIsApart
<1>4. asked = {i \in 1 .. n : IF first = None THEN last # None /\ i > n - last
                              ELSE i > first /\ (last = None \/ i <= last + 1)}
  BY <1>1, <1>2 DEF Asked
<1> DEFINE Bounded(start, end) == [error |-> None, start |-> start, end |-> end, partial |-> TRUE]
<1>5. ASSUME NEW start \in Nat, NEW end \in Nat, start <= end, end < n,
             b = Bounded(start, end), asked = (start + 1) .. (end + 1)
      PROVE  /\ b.start \in Nat /\ b.end \in Nat /\ b.start <= b.end /\ b.end < n
             /\ asked = (b.start + 1) .. (b.end + 1)
             /\ b = Bounded(b.start, b.end)
  BY <1>5
<1>6. CASE first = None /\ last = None
  <2>1. asked = {}
    BY <1>4, <1>6
  <2>2. b = Http!Refused("invalid_range")
    BY <1>1, <1>2, <1>3, <1>6 DEF Http!RangeBounds
  <2>3. b.error = "invalid_range"
    BY <2>2 DEF Http!Refused
  <2> QED BY <1>1, <2>1, <2>3
<1>7. CASE ~(first = None /\ last = None) /\ n = 0
  <2>1. asked = {}
    BY <1>4, <1>7
  <2>2. b = Http!Refused("range_not_satisfiable")
    BY <1>1, <1>2, <1>3, <1>7 DEF Http!RangeBounds
  <2>3. b.error = "range_not_satisfiable"
    BY <2>2 DEF Http!Refused
  <2> QED BY <1>1, <2>1, <2>3
<1>8. CASE first = None /\ last # None /\ n # 0
  <2>1. last \in Nat
    BY <1>3, <1>8
  <2>2. CASE last = 0
    <3>1. asked = {}
      BY <1>4, <1>8, <2>2
    <3>2. b.error = "range_not_satisfiable"
      BY <1>1, <1>2, <1>3, <1>8, <2>2 DEF Http!RangeBounds, Http!Refused
    <3> QED BY <1>1, <3>1, <3>2
  <2>3. CASE last # 0
    <3>1. PICK start : start = Max({n - last, 0})
      OBVIOUS
    <3>6. n - last \in Int /\ 0 \in Int
      BY <2>1
    <3>7. start >= n - last /\ start >= 0 /\ start \in {n - last, 0}
      BY <3>1, <3>6, LargerOfTwo, Zenon
    <3>2. start \in Nat /\ start <= n - 1
      BY <1>8, <2>1, <2>3, <3>7
    <3>3. asked = (start + 1) .. ((n - 1) + 1)
      BY <1>4, <1>8, <2>1, <3>2, <3>7
    <3>4. b = Bounded(start, n - 1)
      BY <1>1, <1>2, <1>3, <1>8, <2>3, <3>1, SameEnds DEF Http!RangeBounds, Http!Bounds
    <3>5. n - 1 \in Nat /\ n - 1 < n
      BY <1>8
    <3> HIDE DEF Bounded
    <3> QED BY <1>1, <1>5, <3>2, <3>3, <3>4, <3>5 DEF Bounded
  <2> QED BY <2>2, <2>3
<1>9. CASE first # None /\ n # 0
  <2>1. PICK end : end = IF last = None THEN n - 1 ELSE last
    OBVIOUS
  <2>2. first \in Nat /\ end \in Nat
    BY <1>3, <1>9, <2>1
  <2>3. CASE first >= n \/ end < first
    <3>1. asked = {}
      BY <1>3, <1>4, <1>9, <2>1, <2>2, <2>3
    <3>2. b.error = "range_not_satisfiable"
      BY <1>1, <1>2, <1>3, <1>9, <2>1, <2>3 DEF Http!RangeBounds, Http!Refused
    <3> QED BY <1>1, <3>1, <3>2
  <2>4. CASE ~(first >= n \/ end < first)
    <3>1. PICK least : least = Min({end, n - 1})
      OBVIOUS
    <3>2. least \in Int /\ least <= end /\ least <= n - 1 /\ least \in {end, n - 1}
      BY <2>2, <3>1, SmallerOfTwo
    <3>3. least \in Nat /\ first <= least /\ least < n
      BY <2>2, <2>4, <3>2
    <3>4. asked = (first + 1) .. (least + 1)
      BY <1>3, <1>4, <1>9, <2>1, <2>2, <3>2, <3>3
    <3>5. b = Bounded(first, least)
      BY <1>1, <1>2, <1>3, <1>9, <2>1, <2>4, <3>1, SameEnds DEF Http!RangeBounds, Http!Bounds
    <3> HIDE DEF Bounded
    <3> QED BY <1>1, <1>5, <2>2, <3>3, <3>4, <3>5 DEF Bounded
  <2> QED BY <2>3, <2>4
<1> QED BY <1>6, <1>7, <1>8, <1>9

LEMMA PartOfSequence ==
  ASSUME NEW T, NEW s \in Seq(T), NEW a \in Nat, NEW b \in Nat, a <= b, b < Len(s),
         NEW q, q = SubSeq(s, a + 1, b + 1)
  PROVE  /\ q \in Seq(T) /\ Len(q) = b - a + 1
         /\ q = [i \in 1 .. (b - a + 1) |-> s[a + i]]
<1>1. /\ q \in Seq(T) /\ Len(q) = b - a + 1
      /\ \A i \in 1 .. (b - a + 1) : q[i] = s[a + i]
  OBVIOUS
<1>2. q = [i \in 1 .. Len(q) |-> q[i]]
  BY <1>1
<1> QED BY <1>1, <1>2

\* A Range header gets the bytes it asks for, or 416 if there are none; without
\* one it gets the artifact, and whatever else the file holds by then is not
\* served: for every artifact and every two numbers of a header
\* (ArtifactStore.read_content, get_artifact_content).
THEOREM AskedIsServed ==
  ASSUME NoneIsApart, NEW T, NEW artifact \in Seq(T), None # artifact, NEW stored, NEW c,
         c.length = Len(artifact), c.header \in {None} \cup RangeHeaders,
         c.stored = "whole" <=> stored = artifact
  PROVE  ServedExactly(c, artifact,
                            IF c.header = None THEN {} ELSE Asked(c.header, c.length),
                            Http!Response(artifact, stored, c.header))
<1>1. PICK header, n, asked, b, response :
        /\ header = c.header /\ n = Len(artifact)
        /\ asked = (IF header = None THEN {} ELSE Asked(header, n))
        /\ b = Http!RangeBounds(header, n)
        /\ response = Http!Response(artifact, stored, header)
  OBVIOUS
<1>2. n \in Nat /\ header \in {None} \cup RangeHeaders /\ None \notin RangeHeaders
  BY <1>1 DEF NoneIsApart
<1>6. /\ None # "artifact_content_missing" /\ None # "artifact_content_corrupt"
      /\ None # "invalid_range" /\ None # "range_not_satisfiable" /\ None # artifact
      /\ n = Len(artifact) /\ header = c.header
  BY <1>1 DEF NoneIsApart
<1> DEFINE Failed(status) == [status |-> status, content |-> None, range |-> None]
<1>3. CASE stored # artifact
  <2>1. PICK code \in {"artifact_content_missing", "artifact_content_corrupt"} :
          Http!ReadContent(artifact, stored, header) = Http!Refused(code)
    BY <1>3 DEF Http!ReadContent
  <2>2. response = Failed(503)
    <3>1. Http!ReadContent(artifact, stored, header) = [error |-> code]
      BY <2>1 DEF Http!Refused
    <3>2. code # None /\ code \notin {"invalid_range", "range_not_satisfiable"}
      BY <1>6
    <3> QED BY <1>1, <3>1, <3>2 DEF Http!Response, Http!Served
  <2>3. response.status = 503 /\ c.stored # "whole"
    BY <1>3, <2>2
  <2> QED BY <1>1, <2>3 DEF ServedExactly
<1>4. CASE stored = artifact /\ header = None
  <2>1. PICK end : end = Max({n - 1, 0})
    OBVIOUS
  <2>2. b = [error |-> None, start |-> 0, end |-> end, partial |-> FALSE]
    BY <1>1, <1>4, <2>1, SameEnds DEF Http!RangeBounds, Http!Bounds
  <2>3. Min({end + 1, n}) = n
    <3>1. n - 1 \in Int /\ 0 \in Int
      BY <1>2
    <3>2. end \in Int /\ end >= n - 1
      BY <2>1, <3>1, LargerOfTwo
    <3>3. PICK least : least = Min({end + 1, n})
      OBVIOUS
    <3>4. end + 1 \in Int /\ n \in Int
      BY <1>2, <3>2
    <3>5. least \in {end + 1, n} /\ least <= n
      BY <3>3, <3>4, SmallerOfTwo
    <3> QED BY <1>2, <3>2, <3>3, <3>5
  <2>4. SubSeq(artifact, 0 + 1, n) = artifact
    BY <1>1
  <2>5. Http!ReadContent(artifact, stored, header)
          = [error |-> None, content |-> artifact, start |-> 0, end |-> end, partial |-> FALSE]
    <3>1. b.error = None /\ b.start = 0 /\ b.end = end /\ b.partial = FALSE
      BY <2>2
    <3>2. Http!Min({b.end + 1, Len(stored)}) = n
      BY <1>4, <1>6, <2>3, <3>1, SameEnds
    <3>3. SubSeq(stored, b.start + 1, n) = artifact
      BY <1>4, <2>4, <3>1
    <3>4. b = Http!RangeBounds(header, Len(artifact)) /\ stored # None
      BY <1>1, <1>4, <1>6
    <3> QED BY <1>4, <3>1, <3>2, <3>3, <3>4 DEF Http!ReadContent
  <2>6. response.status = 200 /\ response.content = artifact
    BY <1>1, <1>6, <2>5 DEF Http!Response, Http!Served
  <2> QED BY <1>1, <1>4, <2>6 DEF ServedExactly
<1>5. CASE stored = artifact /\ header # None
  <2>1. header \in RangeHeaders /\ asked = Asked(header, n)
    BY <1>1, <1>2, <1>5
  <2>2. CASE asked = {} /\ b.error \in {"invalid_range", "range_not_satisfiable"}
    <3>1. Http!ReadContent(artifact, stored, header) = b
      BY <1>1, <1>5, <1>6, <2>2 DEF Http!ReadContent
    <3>2. response = Failed(416)
      BY <1>1, <2>2, <3>1 DEF Http!Response, Http!Served
    <3>3. response.status = 416
      BY <3>2
    <3> QED BY <1>1, <1>5, <2>2, <3>3 DEF ServedExactly
  <2>3. CASE /\ b.start \in Nat /\ b.end \in Nat /\ b.start <= b.end /\ b.end < n
             /\ asked = (b.start + 1) .. (b.end + 1)
             /\ b = [error |-> None, start |-> b.start, end |-> b.end, partial |-> TRUE]
    <3>1. PICK start \in Nat, end \in Nat : start = b.start /\ end = b.end
      BY <2>3
    <3>2. /\ start <= end /\ end < n /\ asked = (start + 1) .. (end + 1)
          /\ b = [error |-> None, start |-> start, end |-> end, partial |-> TRUE]
      BY <2>3, <3>1
    <3>3. asked # {} /\ Min(asked) = start + 1 /\ Max(asked) = end + 1
          /\ Cardinality(asked) = end - start + 1
      <4>1. start + 1 \in Int /\ end + 1 \in Int /\ start + 1 <= end + 1
        BY <3>2
      <4>2. /\ Min(asked) = start + 1 /\ Max(asked) = end + 1
            /\ Cardinality(asked) = (end + 1) - (start + 1) + 1
        BY <3>2, <4>1, EndsOfInterval
      <4>3. start + 1 \in asked
        BY <3>2, <4>1
      <4> QED BY <4>2, <4>3
    <3>4. Min({end + 1, n}) = end + 1
      <4>1. end + 1 \in Int /\ n \in Int /\ end + 1 <= n
        BY <1>2, <3>2
      <4>2. PICK least : least = Min({end + 1, n})
        OBVIOUS
      <4>3. least \in {end + 1, n} /\ least <= end + 1
        BY <4>1, <4>2, SmallerOfTwo
      <4> QED BY <4>1, <4>2, <4>3
    <3>5. PICK part : /\ part = SubSeq(artifact, start + 1, end + 1)
                      /\ part = [i \in 1 .. (end - start + 1) |-> artifact[start + i]]
      <4>1. PICK part : part = SubSeq(artifact, start + 1, end + 1)
        OBVIOUS
      <4>2. end < Len(artifact) /\ start <= end
        BY <1>6, <3>2
      <4> QED BY <4>1, <4>2, PartOfSequence
    <3>6. Http!ReadContent(artifact, stored, header)
            = [error |-> None, content |-> part, start |-> start, end |-> end, partial |-> TRUE]
      <4>1. b.error = None /\ b.start = start /\ b.end = end /\ b.partial = TRUE
        BY <3>2
      <4>2. Http!Min({b.end + 1, Len(stored)}) = end + 1
        BY <1>5, <1>6, <3>4, <4>1, SameEnds
      <4>3. SubSeq(stored, b.start + 1, end + 1) = part
        BY <1>5, <3>5, <4>1
      <4>4. b = Http!RangeBounds(header, Len(artifact)) /\ stored # None
        BY <1>1, <1>5, <1>6
      <4> QED BY <1>5, <4>1, <4>2, <4>3, <4>4 DEF Http!ReadContent
    <3>7. /\ response.status = 206 /\ response.content = part
          /\ response.range = <<start, end, n>>
      BY <1>1, <1>6, <3>6 DEF Http!Response, Http!Served
    <3>8. part = [i \in 1 .. Cardinality(asked) |-> artifact[Min(asked) + i - 1]]
      <4>1. \A i \in 1 .. (end - start + 1) : start + i = (start + 1) + i - 1
        OBVIOUS
      <4> QED BY <3>3, <3>5, <4>1
    <3>9. <<start, end, n>> = <<Min(asked) - 1, Max(asked) - 1, n>>
      BY <3>3
    <3>10. response.range = <<Min(asked) - 1, Max(asked) - 1, c.length>>
      BY <1>6, <3>7, <3>9, SameEnds
    <3>11. response.content
             = [i \in 1 .. Cardinality(asked) |-> artifact[Min(asked) + i - 1]]
      BY <3>7, <3>8, SameEnds
    <3>12. c.stored = "whole" /\ c.header # None /\ asked # {}
      BY <1>5, <1>6, <3>3
    <3>13. ServedExactly(c, artifact, asked, response)
      BY <3>7, <3>10, <3>11, <3>12 DEF ServedExactly
    <3> QED BY <1>1, <3>13
  <2> QED BY <1>1, <1>2, <2>1, <2>2, <2>3, BoundsAreAsked
<1> QED BY <1>3, <1>4, <1>5

\* The property that the run checks, for every length and header.
THEOREM ServedAreExact ==
  ASSUME NoneIsApart, NEW c, c.length \in Nat, c.header \in {None} \cup RangeHeaders,
         None # Bytes(c.length, 1)
  PROVE  ServedRangesAreExactIn(c)
<1>1. PICK artifact : artifact = Bytes(c.length, 1)
  OBVIOUS
<1>2. artifact \in Seq(Int) /\ Len(artifact) = c.length /\ None # artifact
  BY <1>1 DEF Bytes
<1>3. PICK stored : stored = Stored(c, artifact)
  OBVIOUS
<1>4. c.stored = "whole" <=> stored = artifact
  <2>1. CASE c.stored = "whole"
    BY <1>3, <2>1 DEF Stored
  <2>2. CASE c.stored = "missing"
    BY <1>2, <1>3, <2>2 DEF Stored
  <2>3. CASE c.stored \notin {"whole", "missing"}
    <3>1. stored = Append(artifact, 0)
      BY <1>3, <2>3 DEF Stored
    <3>2. Len(stored) # Len(artifact)
      BY <1>2, <3>1
    <3> QED BY <2>3, <3>2
  <2> QED BY <2>1, <2>2, <2>3
<1>5. ServedExactly(c, artifact,
                         IF c.header = None THEN {} ELSE Asked(c.header, c.length),
                         Http!Response(artifact, stored, c.header))
  BY <1>2, <1>4, AskedIsServed
<1> QED BY <1>1, <1>3, <1>5 DEF ServedRangesAreExactIn

-------------------------------------------------------------------------------
(* Reads of a pinned object *)

BoundsAreNumbers == BlockSize \in Nat \ {0} /\ MaxRange \in Nat /\ CacheBlocks \in Nat

Budgets ==
  [bytes : Nat, requests : Nat, late : BOOLEAN, max_bytes : Nat, max_requests : Nat]

Blocks(T) == [index : Nat, content : Seq(T)]

Readers(T, object, etag) ==
  [http : Budgets, size : {Len(object)}, etag : {etag}, cache : Seq(Blocks(T)), position : Nat]

Final(object, i) == Min({Len(object) - 1, (i + 1) * BlockSize - 1})

BlockOf(object, i) == SubSeq(object, i * BlockSize + 1, Final(object, i) + 1)

\* The blocks that are kept are blocks of the object, and no more than agreed;
\* nor are there more requests.
Sound(reader, T, object, etag) ==
  /\ reader \in Readers(T, object, etag)
  /\ reader.http.requests <= reader.http.max_requests
  /\ Len(reader.cache) <= CacheBlocks
  /\ \A i \in 1 .. Len(reader.cache) :
       /\ reader.cache[i].index * BlockSize < Len(object)
       /\ reader.cache[i].content = BlockOf(object, reader.cache[i].index)

Paid(reader) == reader.http.bytes <= reader.http.max_bytes

\* An ETag names one content: a part that comes with that of the object is of
\* the object. About all other replies nothing is said.
Genuine(reply, first, last, T, object, etag) ==
  /\ reply.content \in Seq(T)
  /\ (/\ reply.status = 206 /\ reply.range = <<first, last, Len(object)>>
      /\ reply.etag = etag /\ Len(reply.content) = last - first + 1) =>
       reply.content = SubSeq(object, first + 1, last + 1)

Strong(server, T, object, etag) ==
  \A first, last, n \in Nat : (first <= last /\ last < Len(object)) =>
    Genuine(server[<<<<first, last, Len(object)>>, n>>], first, last, T, object, etag)

\* No reply is longer than asked.
Modest(server, object) ==
  \A first, last, n \in Nat : (first <= last /\ last < Len(object)) =>
    Len(server[<<<<first, last, Len(object)>>, n>>].content) <= last - first + 1

\* None is no reply's content, range or ETag.
NoneIsNoPart(T, etag) == None \notin Seq(T) /\ None \notin Nat \X Nat \X Nat /\ None # etag

PaidFetch(http, limit, reply, expected, f) ==
  /\ f.http \in Budgets /\ f.http.requests <= f.http.max_requests
  /\ f.http.max_bytes = http.max_bytes
  /\ (Len(reply.content) <= limit /\ http.bytes <= http.max_bytes) =>
       f.http.bytes <= f.http.max_bytes
  /\ \/ f.content = None
     \/ /\ f.content = reply.content /\ reply.status = expected.status
        /\ expected.range # None => reply.range = expected.range
        /\ expected.etag # None => reply.etag = expected.etag

LEMMA FetchIsPaid ==
  ASSUME NEW T, NEW http \in Budgets, http.requests <= http.max_requests, NEW limit \in Nat,
         NEW reply, reply.content \in Seq(T), NEW expected
  PROVE  PaidFetch(http, limit, reply, expected, Http!Fetch(http, limit, reply, expected))
<1>1. PICK f : f = Http!Fetch(http, limit, reply, expected)
  OBVIOUS
<1>2. /\ http.bytes \in Nat /\ http.requests \in Nat /\ http.max_bytes \in Nat
      /\ http.max_requests \in Nat /\ http.late \in BOOLEAN /\ Len(reply.content) \in Nat
  BY DEF Budgets
<1>3. PICK counted, received :
        /\ counted = [http EXCEPT !.requests = @ + 1]
        /\ received = [counted EXCEPT !.bytes = @ + Len(reply.content)]
  OBVIOUS
<1>4. /\ counted \in Budgets /\ counted.bytes = http.bytes
      /\ counted.requests = http.requests + 1 /\ counted.max_bytes = http.max_bytes
      /\ counted.max_requests = http.max_requests
  BY <1>2, <1>3 DEF Budgets
<1>5. /\ received \in Budgets /\ received.bytes = http.bytes + Len(reply.content)
      /\ received.requests = http.requests + 1 /\ received.max_bytes = http.max_bytes
      /\ received.max_requests = http.max_requests
  <2>1. counted.bytes + Len(reply.content) \in Nat
    BY <1>2, <1>4
  <2>2. received \in Budgets
    BY <1>3, <1>4, <2>1, Zenon DEF Budgets
  <2> QED BY <1>2, <1>3, <1>4, <2>2 DEF Budgets
<1>6. CASE f = [http |-> http, content |-> None]
  BY <1>1, <1>6 DEF PaidFetch
<1>7. CASE f = [http |-> counted, content |-> None] /\ ~(http.requests >= http.max_requests)
  <2>1. http.requests + 1 <= http.max_requests
    BY <1>2, <1>7
  <2>2. f.http = counted /\ f.content = None
    BY <1>7
  <2> QED BY <1>1, <1>4, <2>1, <2>2 DEF PaidFetch
<1>8. CASE /\ f.http = received /\ ~(http.requests >= http.max_requests)
           /\ ~(limit > http.max_bytes - http.bytes)
           /\ \/ f.content = None
              \/ /\ f.content = reply.content /\ reply.status = expected.status
                 /\ expected.range # None => reply.range = expected.range
                 /\ expected.etag # None => reply.etag = expected.etag
  <2>1. http.requests + 1 <= http.max_requests
    BY <1>2, <1>8
  <2>2. Len(reply.content) <= limit => http.bytes + Len(reply.content) <= http.max_bytes
    BY <1>2, <1>8
  <2> QED BY <1>1, <1>5, <1>8, <2>1, <2>2 DEF PaidFetch
<1> QED BY <1>1, <1>3, <1>6, <1>7, <1>8 DEF Http!Fetch

SameBlocks(S, cache, used) ==
  /\ used \in Seq(S) /\ Len(used) = Len(cache)
  /\ \A j \in 1 .. Len(used) : \E k \in 1 .. Len(cache) : used[j] = cache[k]

LEMMA MovedLast ==
  ASSUME NEW S, NEW cache \in Seq(S), NEW i \in 1 .. Len(cache)
  PROVE  SameBlocks(S, cache, Http!Used(cache, i))
<1>0. PICK used : used = Http!Used(cache, i)
  OBVIOUS
<1>1. PICK p, q, rest :
        /\ p = SubSeq(cache, 1, i - 1) /\ q = SubSeq(cache, i + 1, Len(cache))
        /\ rest = p \o q
  OBVIOUS
<1>9. rest = p \o q
  BY <1>1
<1>2. Len(cache) \in Nat
  OBVIOUS
<1>3. p \in Seq(S) /\ Len(p) = i - 1 /\ \A j \in 1 .. Len(p) : p[j] = cache[j]
  BY <1>1, <1>2
<1>4. q \in Seq(S) /\ Len(q) = Len(cache) - i /\ \A j \in 1 .. Len(q) : q[j] = cache[i + j]
  BY <1>1, <1>2
<1>5. /\ rest \in Seq(S) /\ Len(rest) = Len(cache) - 1
      /\ \A j \in 1 .. Len(rest) : rest[j] = IF j <= Len(p) THEN p[j] ELSE q[j - Len(p)]
  <2>1. Len(p) \in Nat /\ Len(q) \in Nat /\ Len(p) + Len(q) = Len(cache) - 1
    BY <1>2, <1>3, <1>4
  <2>2. p \in Seq(S) /\ q \in Seq(S)
    BY <1>3, <1>4
  <2>3. /\ rest \in Seq(S) /\ Len(rest) = Len(p) + Len(q)
        /\ \A j \in 1 .. Len(rest) : rest[j] = IF j <= Len(p) THEN p[j] ELSE q[j - Len(p)]
    BY <1>9, <2>2
  <2> QED BY <2>1, <2>3
<1>6. used = Append(rest, cache[i])
  BY <1>0, <1>1 DEF Http!Used, Http!RemoveAt
<1>7. used \in Seq(S) /\ Len(used) = Len(cache) /\ used[Len(cache)] = cache[i]
      /\ \A j \in 1 .. Len(rest) : used[j] = rest[j]
  BY <1>2, <1>5, <1>6
<1>8. ASSUME NEW j \in 1 .. Len(cache) PROVE \E k \in 1 .. Len(cache) : used[j] = cache[k]
  <2>1. CASE j = Len(cache)
    BY <1>7, <2>1
  <2>2. CASE j \in 1 .. Len(p)
    BY <1>2, <1>3, <1>5, <1>7, <2>2
  <2>3. CASE j # Len(cache) /\ j \notin 1 .. Len(p)
    <3>4. Len(p) = i - 1 /\ Len(q) = Len(cache) - i /\ Len(rest) = Len(cache) - 1
      BY <1>3, <1>4, <1>5
    <3>1. j \in 1 .. Len(rest) /\ j - Len(p) \in 1 .. Len(q) /\ ~(j <= Len(p))
      BY <1>2, <2>3, <3>4
    <3>2. used[j] = q[j - Len(p)] /\ q[j - Len(p)] = cache[i + (j - Len(p))]
      BY <1>4, <1>5, <1>7, <3>1
    <3>3. i + (j - Len(p)) \in 1 .. Len(cache)
      BY <1>2, <1>3, <1>4, <3>1
    <3> QED BY <3>2, <3>3
  <2> QED BY <2>1, <2>2, <2>3
<1> QED BY <1>0, <1>7, <1>8 DEF SameBlocks

MoreBlocks(S, cache, x, kept) ==
  /\ kept \in Seq(S) /\ Len(kept) <= CacheBlocks
  /\ \A j \in 1 .. Len(kept) : kept[j] = x \/ \E k \in 1 .. Len(cache) : kept[j] = cache[k]

LEMMA KeptIsPart ==
  ASSUME NEW S, NEW cache \in Seq(S), NEW x \in S, CacheBlocks \in Nat,
         Len(cache) <= CacheBlocks
  PROVE  MoreBlocks(S, cache, x, Http!Kept(Append(cache, x)))
<1>0. PICK kept : kept = Http!Kept(Append(cache, x))
  OBVIOUS
<1>1. PICK longer : longer = Append(cache, x)
  OBVIOUS
<1>2. /\ longer \in Seq(S) /\ Len(longer) = Len(cache) + 1 /\ Len(cache) \in Nat
      /\ longer[Len(cache) + 1] = x /\ \A j \in 1 .. Len(cache) : longer[j] = cache[j]
  BY <1>1
<1>3. CASE Len(longer) > CacheBlocks
  <2>1. kept = Tail(longer) /\ longer # <<>>
    BY <1>0, <1>1, <1>2, <1>3 DEF Http!Kept
  <2>2. /\ kept \in Seq(S) /\ Len(kept) = Len(cache)
        /\ \A j \in 1 .. Len(kept) : kept[j] = longer[j + 1]
    BY <1>2, <2>1
  <2>3. ASSUME NEW j \in 1 .. Len(kept)
        PROVE  kept[j] = x \/ \E k \in 1 .. Len(cache) : kept[j] = cache[k]
    <3>1. CASE j = Len(cache)
      BY <1>2, <2>2, <3>1
    <3>2. CASE j # Len(cache)
      <4>1. j + 1 \in 1 .. Len(cache)
        BY <1>2, <2>2, <3>2
      <4> QED BY <1>2, <2>2, <4>1
    <3> QED BY <3>1, <3>2
  <2> QED BY <1>0, <1>2, <1>3, <2>2, <2>3 DEF MoreBlocks
<1>4. CASE ~(Len(longer) > CacheBlocks)
  <2>1. kept = longer
    BY <1>0, <1>1, <1>4 DEF Http!Kept
  <2>2. \A j \in 1 .. Len(kept) : j \in 1 .. Len(cache) \/ j = Len(cache) + 1
    BY <1>2, <2>1
  <2>3. \A j \in 1 .. Len(kept) : kept[j] = x \/ \E k \in 1 .. Len(cache) : kept[j] = cache[k]
    BY <1>2, <2>1, <2>2
  <2>4. Len(kept) <= CacheBlocks
    BY <1>2, <1>4, <2>1
  <2> QED BY <1>0, <1>2, <2>1, <2>3, <2>4 DEF MoreBlocks
<1> QED BY <1>3, <1>4

TrueBlock(b, reader, i, server, T, object, etag) ==
  /\ Sound(b.reader, T, object, etag) /\ b.reader.position = reader.position
  /\ b.reader.http.max_bytes = reader.http.max_bytes
  /\ (Modest(server, object) /\ Paid(reader)) => Paid(b.reader)
  /\ (b.content # None /\ i * BlockSize < Len(object)) => b.content = BlockOf(object, i)

\* What is got of a block is the block, wherever it is got from.
LEMMA BlockIsTrue ==
  ASSUME BoundsAreNumbers, NEW T, NEW object \in Seq(T), NEW etag, NoneIsNoPart(T, etag),
         NEW server, Strong(server, T, object, etag),
         NEW reader, Sound(reader, T, object, etag), NEW i \in Nat
  PROVE  TrueBlock(Http!Block(reader, i, server), reader, i, server, T, object, etag)
<1>1. PICK b : b = Http!Block(reader, i, server)
  OBVIOUS
<1>2. /\ reader \in Readers(T, object, etag) /\ reader.size = Len(object) /\ reader.etag = etag
      /\ reader.http \in Budgets /\ reader.http.requests <= reader.http.max_requests
      /\ reader.cache \in Seq(Blocks(T)) /\ reader.position \in Nat /\ Len(reader.cache) <= CacheBlocks
      /\ Len(object) \in Nat /\ Len(reader.cache) \in Nat
      /\ \A j \in 1 .. Len(reader.cache) :
           /\ reader.cache[j].index * BlockSize < Len(object)
           /\ reader.cache[j].content = BlockOf(object, reader.cache[j].index)
  BY DEF Sound, Readers
<1>3. PICK first, final :
        /\ first = i * BlockSize /\ final = Final(object, i)
  OBVIOUS
<1>4. first \in Nat /\ final \in Int /\ final <= Len(object) - 1
  <2>1. i * BlockSize \in Nat /\ (i + 1) * BlockSize - 1 \in Int /\ Len(object) - 1 \in Int
    BY <1>2 DEF BoundsAreNumbers
  <2> QED BY <1>3, <2>1, SmallerOfTwo DEF Final
<1>5. Http!BlockRange(reader, i) = <<first, final, Len(object)>>
  BY <1>2, <1>3, SameEnds DEF Http!BlockRange, Final
<1>6. CASE Http!Cached(reader, i) # {}
  <2>1. PICK kept : kept = CHOOSE j \in Http!Cached(reader, i) : TRUE
    OBVIOUS
  <2>2. kept \in 1 .. Len(reader.cache) /\ reader.cache[kept].index = i
    BY <1>2, <1>6, <2>1 DEF Http!Cached
  <2>3. PICK used : used = Http!Used(reader.cache, kept)
    OBVIOUS
  <2>4. /\ used \in Seq(Blocks(T)) /\ Len(used) = Len(reader.cache)
        /\ \A j \in 1 .. Len(used) : \E k \in 1 .. Len(reader.cache) : used[j] = reader.cache[k]
    <3>1. PICK S, cache : S = Blocks(T) /\ cache = reader.cache
      OBVIOUS
    <3>2. cache \in Seq(S) /\ kept \in 1 .. Len(cache) /\ used = Http!Used(cache, kept)
      BY <1>2, <2>2, <2>3, <3>1
    <3>3. SameBlocks(S, cache, used)
      BY <3>2, MovedLast, Zenon
    <3> QED BY <3>1, <3>3 DEF SameBlocks
  <2>5. b = [reader |-> [reader EXCEPT !.cache = used], content |-> reader.cache[kept].content]
    BY <1>1, <1>6, <2>1, <2>3 DEF Http!Block
  <2>6. /\ b.reader \in Readers(T, object, etag) /\ b.reader.cache = used
        /\ b.reader.http = reader.http /\ b.reader.position = reader.position
    BY <1>2, <2>4, <2>5 DEF Readers
  <2>7. Sound(b.reader, T, object, etag)
    BY <1>2, <2>4, <2>6 DEF Sound
  <2>8. b.content = BlockOf(object, i)
    BY <1>2, <2>2, <2>5
  <2> QED BY <1>1, <2>6, <2>7, <2>8 DEF Paid, TrueBlock
<1>7. CASE Http!Cached(reader, i) = {} /\ first > final
  <2>1. b.reader = reader
    BY <1>1, <1>5, <1>7 DEF Http!Block
  <2>2. ~(i * BlockSize < Len(object))
    <3>1. PICK above, below : above = Len(object) - 1 /\ below = (i + 1) * BlockSize - 1
      OBVIOUS
    <3>2. above \in Int /\ below \in Int /\ below >= first
      BY <1>2, <1>3, <3>1 DEF BoundsAreNumbers
    <3>3. final \in {above, below}
      BY <1>3, <3>1, <3>2, SmallerOfTwo DEF Final
    <3> QED BY <1>2, <1>3, <1>4, <1>7, <3>1, <3>2, <3>3
  <2> QED BY <1>1, <2>1, <2>2 DEF TrueBlock
<1>8. CASE Http!Cached(reader, i) = {} /\ ~(first > final)
  <2>1. final \in Nat /\ first <= final /\ final - first + 1 \in Nat /\ final < Len(object)
    BY <1>2, <1>4, <1>8
  <2>2. PICK reply, length, fetch :
          /\ reply = server[<<<<first, final, Len(object)>>, reader.http.requests>>]
          /\ length = final - first + 1
          /\ fetch = Http!Fetch(reader.http, length, reply, Http!Pinned(reader, i))
    OBVIOUS
  <2>3. /\ reader.http.requests \in Nat /\ reply.content \in Seq(T) /\ Len(reply.content) \in Nat
        /\ (/\ reply.status = 206 /\ reply.range = <<first, final, Len(object)>>
            /\ reply.etag = etag /\ Len(reply.content) = length) =>
             reply.content = SubSeq(object, first + 1, final + 1)
    <3>1. PICK requests, range : /\ requests = reader.http.requests
                                 /\ range = <<first, final, Len(object)>>
      OBVIOUS
    <3>2. requests \in Nat /\ first \in Nat /\ final \in Nat
      BY <1>2, <1>4, <2>1, <3>1 DEF Budgets
    <3>3. reply = server[<<<<first, final, Len(object)>>, requests>>]
      BY <2>2, <3>1
    <3>4. Genuine(reply, first, final, T, object, etag)
      BY <2>1, <3>2, <3>3, Zenon DEF Strong
    <3>5. reply.content \in Seq(T) /\ Len(reply.content) \in Nat
      BY <3>4 DEF Genuine
    <3> QED BY <2>1, <2>2, <3>1, <3>2, <3>4, <3>5 DEF Genuine
  <2>4. /\ Http!Pinned(reader, i).status = 206 /\ Http!Pinned(reader, i).etag = etag
        /\ Http!Pinned(reader, i).range = <<first, final, Len(object)>>
    BY <1>2, <1>5 DEF Http!Pinned
  <2>5. /\ None # <<first, final, Len(object)>> /\ None # etag /\ None # reply.content
    <3>1. <<first, final, Len(object)>> \in Nat \X Nat \X Nat
      BY <1>2, <1>4, <2>1
    <3> QED BY <2>3, <3>1, Zenon DEF NoneIsNoPart
  <2>6. /\ fetch.http \in Budgets /\ fetch.http.requests <= fetch.http.max_requests
        /\ fetch.http.max_bytes = reader.http.max_bytes
        /\ (Len(reply.content) <= length /\ Paid(reader)) => fetch.http.bytes <= fetch.http.max_bytes
        /\ \/ fetch.content = None
           \/ /\ fetch.content = reply.content /\ reply.status = 206 /\ reply.etag = etag
              /\ reply.range = <<first, final, Len(object)>>
    <3>1. PICK pinned : pinned = Http!Pinned(reader, i)
      OBVIOUS
    <3>2. PICK http, range : http = reader.http /\ range = <<first, final, Len(object)>>
      OBVIOUS
    <3>3. /\ http \in Budgets /\ http.requests <= http.max_requests /\ length \in Nat
          /\ reply.content \in Seq(T) /\ fetch = Http!Fetch(http, length, reply, pinned)
      BY <1>2, <2>1, <2>2, <2>3, <3>1, <3>2
    <3>4. PaidFetch(http, length, reply, pinned, fetch)
      BY <3>3, FetchIsPaid, Zenon
    <3>5. pinned.status = 206 /\ pinned.range = range /\ pinned.etag = etag /\ range # None /\ etag # None
      BY <2>4, <2>5, <3>1, <3>2
    <3> QED BY <3>2, <3>4, <3>5 DEF Paid, PaidFetch
  <2>7. b = Http!Fetched(reader, i, length, fetch)
    BY <1>1, <1>5, <1>8, <2>2 DEF Http!Block
  <2>8. PICK paid : paid = [reader EXCEPT !.http = fetch.http]
    OBVIOUS
  <2>9. /\ paid \in Readers(T, object, etag) /\ paid.http = fetch.http
        /\ paid.cache = reader.cache /\ paid.position = reader.position
    BY <1>2, <2>6, <2>8 DEF Readers
  <2>10. Sound(paid, T, object, etag)
    BY <1>2, <2>6, <2>9 DEF Sound
  <2>11. Modest(server, object) /\ Paid(reader) => Paid(paid)
    <3>1. Modest(server, object) => Len(reply.content) <= length
      BY <1>4, <2>1, <2>2, <2>3, <1>2 DEF Modest
    <3> QED BY <2>6, <2>9, <3>1 DEF Paid
  <2>12. CASE ~(fetch.content # None /\ Len(fetch.content) = length)
    <3>1. b.reader = paid /\ b.content = None
      BY <2>7, <2>8, <2>12 DEF Http!Fetched
    <3> QED BY <1>1, <2>6, <2>9, <2>10, <2>11, <3>1 DEF TrueBlock
  <2>13. CASE fetch.content # None /\ Len(fetch.content) = length
    <3>1. PICK block : block = [index |-> i, content |-> fetch.content]
      OBVIOUS
    <3>2. fetch.content = BlockOf(object, i) /\ fetch.content \in Seq(T)
      BY <1>3, <2>3, <2>6, <2>13 DEF BlockOf
    <3>3. block \in Blocks(T) /\ block.index = i /\ block.content = BlockOf(object, i)
      BY <3>1, <3>2 DEF Blocks
    <3>4. PICK kept : kept = Http!Kept(Append(reader.cache, block))
      OBVIOUS
    <3>5. /\ kept \in Seq(Blocks(T)) /\ Len(kept) <= CacheBlocks
          /\ \A j \in 1 .. Len(kept) :
               kept[j] = block \/ \E k \in 1 .. Len(reader.cache) : kept[j] = reader.cache[k]
      <4>1. PICK S, cache : S = Blocks(T) /\ cache = reader.cache
        OBVIOUS
      <4>2. /\ cache \in Seq(S) /\ block \in S /\ CacheBlocks \in Nat
            /\ Len(cache) <= CacheBlocks /\ kept = Http!Kept(Append(cache, block))
        BY <1>2, <3>3, <3>4, <4>1 DEF BoundsAreNumbers
      <4>3. MoreBlocks(S, cache, block, kept)
        BY <4>2, KeptIsPart, Zenon
      <4> QED BY <4>1, <4>3 DEF MoreBlocks
    <3>6. b.reader = [paid EXCEPT !.cache = kept] /\ b.content = fetch.content
      BY <2>7, <2>8, <2>9, <2>13, <3>1, <3>4 DEF Http!Fetched
    <3>7. /\ b.reader \in Readers(T, object, etag) /\ b.reader.cache = kept
          /\ b.reader.http = paid.http /\ b.reader.position = paid.position
      BY <2>9, <3>5, <3>6 DEF Readers
    <3>8. i * BlockSize < Len(object)
      BY <1>2, <1>3, <1>4, <2>1
    <3>9. Sound(b.reader, T, object, etag)
      <4>1. ASSUME NEW j \in 1 .. Len(kept)
            PROVE  /\ kept[j].index * BlockSize < Len(object)
                   /\ kept[j].content = BlockOf(object, kept[j].index)
        <5>1. CASE kept[j] = block
          BY <3>3, <3>8, <5>1
        <5>2. CASE \E k \in 1 .. Len(reader.cache) : kept[j] = reader.cache[k]
          <6>1. PICK k \in 1 .. Len(reader.cache) : kept[j] = reader.cache[k]
            BY <5>2
          <6> QED BY <6>1, Zenon DEF Sound
        <5> QED BY <3>5, <5>1, <5>2
      <4>2. b.reader.http.requests <= b.reader.http.max_requests
        BY <2>6, <2>9, <3>7
      <4> QED BY <3>5, <3>7, <4>1, <4>2, Zenon DEF Sound
    <3> QED BY <1>1, <2>6, <2>9, <2>11, <3>2, <3>6, <3>7, <3>9 DEF Paid, TrueBlock
  <2> QED BY <2>12, <2>13
<1> QED BY <1>1, <1>4, <1>6, <1>7, <1>8

\* Induction over the natural numbers, for a set of them.
LEMMA AllNumbers ==
  ASSUME NEW S, 0 \in S, \A n \in Nat : n \in S => n + 1 \in S
  PROVE  Nat \subseteq S
<1> SUFFICES ASSUME NEW n \in Nat, n \notin S PROVE FALSE
  OBVIOUS
<1>1. PICK B : B = {0 .. k : k \in {j \in 0 .. n : j \notin S}}
  OBVIOUS
<1>2. B \subseteq SUBSET (0 .. n) /\ 0 .. n \in B /\ IsFiniteSet(0 .. n)
  <2>1. \A k \in 0 .. n : 0 .. k \in SUBSET (0 .. n)
    OBVIOUS
  <2>2. IsFiniteSet(0 .. n)
    BY FS_Interval
  <2>3. n \in {j \in 0 .. n : j \notin S}
    OBVIOUS
  <2> QED BY <1>1, <2>1, <2>2, <2>3, Zenon
<1>3. PICK W \in B : \A U \in B : U \subseteq W => U = W
  <2>1. PICK D : D = 0 .. n
    OBVIOUS
  <2>2. IsFiniteSet(D) /\ B \subseteq SUBSET D /\ B # {}
    BY <1>2, <2>1
  <2> QED BY <2>2, SomeIsMinimal
<1>4. PICK k \in 0 .. n : k \notin S /\ W = 0 .. k
  BY <1>1, <1>3
<1>5. k - 1 \in Nat /\ k - 1 \in 0 .. n /\ k - 1 \notin S
  BY <1>4
<1>6. 0 .. (k - 1) \in B
  BY <1>1, <1>5
<1>7. 0 .. (k - 1) \subseteq W /\ k \notin 0 .. (k - 1) /\ k \in W
  BY <1>4
<1> QED BY <1>3, <1>6, <1>7

-------------------------------------------------------------------------------
(* Reads, turn by turn *)

\* What a read has got is the object's, from where it began to where it is.
Turn(got, start, length, T, object, etag) ==
  /\ got \in [reader : Readers(T, object, etag), content : Seq(T), failed : BOOLEAN]
  /\ Sound(got.reader, T, object, etag)
  /\ got.reader.position = start + Len(got.content)
  /\ Len(got.content) <= length
  /\ \A k \in 1 .. Len(got.content) : got.content[k] = object[start + k]

\* A turn fails, or it gets something, until all is got.
TrueTurn(next, got, start, length, server, T, object, etag) ==
  /\ Turn(next, start, length, T, object, etag)
  /\ next.reader.http.max_bytes = got.reader.http.max_bytes
  /\ (Modest(server, object) /\ Paid(got.reader)) => Paid(next.reader)
  /\ next.failed \/ Len(next.content) >= length \/ Len(next.content) > Len(got.content)

InBlock(T, object, position, i, offset, block) ==
  /\ i \in Nat /\ offset \in Nat /\ i * BlockSize < Len(object)
  /\ i * BlockSize + offset = position
  /\ block \in Seq(T) /\ Len(block) \in Nat /\ offset < Len(block)
  /\ i * BlockSize + Len(block) <= Len(object)
  /\ \A k \in 1 .. Len(block) : block[k] = object[i * BlockSize + k]

LEMMA PlaceInBlock ==
  ASSUME BoundsAreNumbers, NEW T, NEW object \in Seq(T), NEW position \in Nat,
         position < Len(object), NEW i, i = position \div BlockSize,
         NEW offset, offset = position % BlockSize
  PROVE  InBlock(T, object, position, i, offset, BlockOf(object, i))
<1>1. BlockSize \in Nat \ {0} /\ Len(object) \in Nat
  BY DEF BoundsAreNumbers
<1>2. i \in Nat /\ offset \in Nat /\ offset < BlockSize /\ i * BlockSize + offset = position
  BY <1>1
<1>3. PICK first, above, below : /\ first = i * BlockSize /\ above = Len(object) - 1
                                 /\ below = (i + 1) * BlockSize - 1
  OBVIOUS
<1>4. first \in Nat /\ above \in Nat /\ below \in Nat /\ below = first + BlockSize - 1
  BY <1>1, <1>2, <1>3
<1>5. PICK final : final = Final(object, i)
  OBVIOUS
<1>6. final \in {above, below} /\ final <= above /\ final <= below
  <2>1. final = Min({above, below})
    BY <1>3, <1>5 DEF Final
  <2>2. above \in Int /\ below \in Int
    BY <1>4
  <2>3. Min({above, below}) \in {above, below} /\ Min({above, below}) <= above
        /\ Min({above, below}) <= below
    BY <2>2, SmallerOfTwo, Zenon
  <2> QED BY <2>1, <2>3
<1>7. final \in Nat /\ first + offset <= final /\ final < Len(object)
  BY <1>1, <1>2, <1>3, <1>4, <1>6
<1>8. PICK block : block = SubSeq(object, first + 1, final + 1)
  OBVIOUS
<1>9. block = BlockOf(object, i)
  BY <1>3, <1>5, <1>8 DEF BlockOf
<1>10. /\ block \in Seq(T) /\ Len(block) = final - first + 1
       /\ \A k \in 1 .. Len(block) : block[k] = object[first + k]
  BY <1>1, <1>2, <1>4, <1>7, <1>8
<1>11. Len(block) \in Nat /\ offset < Len(block) /\ first + Len(block) <= Len(object)
  BY <1>1, <1>2, <1>4, <1>7, <1>10
<1>12. first < Len(object)
  BY <1>1, <1>2, <1>4, <1>7
<1> QED BY <1>2, <1>3, <1>9, <1>10, <1>11, <1>12 DEF InBlock

LEMMA TurnIsTrue ==
  ASSUME BoundsAreNumbers, NEW T, NEW object \in Seq(T), NEW etag, NoneIsNoPart(T, etag),
         NEW server, Strong(server, T, object, etag), NEW start \in Nat, NEW length \in Nat,
         length = 0 \/ start + length <= Len(object),
         NEW got, Turn(got, start, length, T, object, etag)
  PROVE  TrueTurn(Http!ReadOn(got, length, server), got, start, length, server, T, object, etag)
<1>1. PICK next : next = Http!ReadOn(got, length, server)
  OBVIOUS
<1>2. /\ got \in [reader : Readers(T, object, etag), content : Seq(T), failed : BOOLEAN]
      /\ Sound(got.reader, T, object, etag) /\ Len(got.content) \in Nat
      /\ got.reader.position = start + Len(got.content) /\ Len(got.content) <= length
      /\ \A k \in 1 .. Len(got.content) : got.content[k] = object[start + k]
      /\ Len(object) \in Nat
  BY DEF Turn
<1>3. CASE got.failed \/ Len(got.content) >= length
  <2>1. next = got
    BY <1>1, <1>3 DEF Http!ReadOn
  <2> QED BY <1>1, <1>2, <1>3, <2>1 DEF TrueTurn
<1>4. CASE ~(got.failed \/ Len(got.content) >= length)
  <2>1. PICK position, i, offset :
          /\ position = got.reader.position /\ i = position \div BlockSize
          /\ offset = position % BlockSize
    OBVIOUS
  <2>2. position \in Nat /\ position < Len(object)
    BY <1>2, <1>4, <2>1
  <2>3. PICK whole : whole = BlockOf(object, i)
    OBVIOUS
  <2>4. /\ i \in Nat /\ offset \in Nat /\ i * BlockSize < Len(object)
        /\ i * BlockSize + offset = position /\ whole \in Seq(T) /\ Len(whole) \in Nat
        /\ offset < Len(whole) /\ i * BlockSize + Len(whole) <= Len(object)
        /\ \A k \in 1 .. Len(whole) : whole[k] = object[i * BlockSize + k]
    <3>1. InBlock(T, object, position, i, offset, BlockOf(object, i))
      BY <2>1, <2>2, PlaceInBlock, Zenon
    <3> QED BY <2>3, <3>1 DEF InBlock
  <2>5. PICK reader, block : reader = got.reader /\ block = Http!Block(reader, i, server)
    OBVIOUS
  <2>6. TrueBlock(block, reader, i, server, T, object, etag)
    BY <1>2, <2>4, <2>5, BlockIsTrue, Zenon
  <2>7. /\ Sound(block.reader, T, object, etag) /\ block.reader.position = position
        /\ block.reader.http.max_bytes = reader.http.max_bytes
        /\ (Modest(server, object) /\ Paid(reader)) => Paid(block.reader)
        /\ block.content # None => block.content = whole
        /\ block.reader \in Readers(T, object, etag)
    BY <2>1, <2>3, <2>4, <2>5, <2>6, Zenon DEF TrueBlock, Sound
  <2>8. next = Http!Advanced(got, length, offset, block)
    BY <1>1, <1>4, <2>1, <2>5 DEF Http!ReadOn
  <2>9. PICK take : take = Min({length - Len(got.content), Len(block.content) - offset})
    OBVIOUS
  <2>10. CASE block.content = None \/ take <= 0
    <3>1. next = [got EXCEPT !.reader = block.reader, !.failed = TRUE]
      BY <2>8, <2>9, <2>10, SameEnds DEF Http!Advanced
    <3>2. /\ next.reader = block.reader /\ next.content = got.content /\ next.failed = TRUE
          /\ next \in [reader : Readers(T, object, etag), content : Seq(T), failed : BOOLEAN]
      BY <1>2, <2>7, <3>1
    <3> QED BY <1>1, <1>2, <2>1, <2>5, <2>7, <3>2 DEF Turn, TrueTurn
  <2>11. CASE block.content # None /\ ~(take <= 0)
    <3>1. PICK left, rest : left = length - Len(got.content) /\ rest = Len(whole) - offset
      OBVIOUS
    <3>2. /\ left \in Nat /\ rest \in Nat /\ take = Min({left, rest})
      <4>1. left \in Nat /\ rest \in Nat
        BY <1>2, <1>4, <2>4, <3>1
      <4>2. block.content = whole
        BY <2>7, <2>11
      <4> QED BY <2>9, <3>1, <4>1, <4>2
    <3>3. take \in Nat /\ take > 0 /\ take <= left /\ take <= rest
      <4>1. left \in Int /\ rest \in Int
        BY <3>2
      <4>2. /\ Min({left, rest}) \in {left, rest} /\ Min({left, rest}) <= left
            /\ Min({left, rest}) <= rest
        BY <4>1, SmallerOfTwo, Zenon
      <4> QED BY <2>11, <3>2, <4>2
    <3>4. PICK part, content, moved :
            /\ part = SubSeq(whole, offset + 1, offset + take) /\ content = got.content \o part
            /\ moved = [block.reader EXCEPT !.position = @ + take]
      OBVIOUS
    <3>5. /\ part \in Seq(T) /\ Len(part) = take
          /\ \A k \in 1 .. Len(part) : part[k] = whole[offset + k]
      <4>1. PICK from : from = offset + take
        OBVIOUS
      <4>2. /\ from \in Nat /\ from = offset + take /\ from <= Len(whole)
            /\ offset \in Nat /\ whole \in Seq(T) /\ take \in Nat
        BY <2>4, <3>1, <3>3, <4>1
      <4>3. part = SubSeq(whole, offset + 1, from)
        BY <3>4, <4>1
      <4> QED BY <4>2, <4>3
    <3>6. /\ content \in Seq(T) /\ Len(content) = Len(got.content) + take
          /\ \A k \in 1 .. Len(content) :
               content[k] = IF k <= Len(got.content) THEN got.content[k]
                            ELSE part[k - Len(got.content)]
      <4>1. PICK before : before = got.content
        OBVIOUS
      <4>2. before \in Seq(T) /\ part \in Seq(T) /\ content = before \o part
        BY <1>2, <3>4, <3>5, <4>1
      <4>3. /\ content \in Seq(T) /\ Len(content) = Len(before) + Len(part)
            /\ \A k \in 1 .. Len(content) :
                 content[k] = IF k <= Len(before) THEN before[k] ELSE part[k - Len(before)]
        BY <4>2
      <4> QED BY <3>5, <4>1, <4>3
    <3>7. ASSUME NEW k \in 1 .. Len(content) PROVE content[k] = object[start + k]
      <4>1. CASE k <= Len(got.content)
        BY <1>2, <3>6, <4>1
      <4>2. CASE ~(k <= Len(got.content))
        <5>1. PICK j : j = k - Len(got.content)
          OBVIOUS
        <5>2. j \in 1 .. Len(part) /\ offset + j \in 1 .. Len(whole)
          BY <1>2, <2>4, <3>1, <3>3, <3>5, <3>6, <4>2, <5>1
        <5>3. content[k] = whole[offset + j]
          BY <3>5, <3>6, <4>2, <5>1, <5>2
        <5>4. whole[offset + j] = object[i * BlockSize + (offset + j)]
          BY <2>4, <5>2
        <5>5. i * BlockSize + (offset + j) = start + k
          <6>1. PICK first : first = i * BlockSize
            OBVIOUS
          <6>2. first + offset = position /\ first \in Int /\ offset \in Nat
            BY <2>2, <2>4, <6>1
          <6>3. PICK n : n = Len(got.content)
            OBVIOUS
          <6>4. /\ n \in Int /\ j \in Int /\ k \in Int /\ position = start + n /\ j = k - n
            BY <1>2, <2>1, <5>1, <6>3
          <6>5. first + (offset + j) = start + k
            BY <6>2, <6>4
          <6> QED BY <6>1, <6>5
        <5> QED BY <5>3, <5>4, <5>5
      <4> QED BY <4>1, <4>2
    <3>8. /\ moved \in Readers(T, object, etag) /\ moved.position = position + take
          /\ moved.http = block.reader.http /\ moved.cache = block.reader.cache
      <4>1. PICK then : then = position + take
        OBVIOUS
      <4>2. then \in Nat /\ moved = [block.reader EXCEPT !.position = then]
        BY <2>2, <2>7, <3>3, <3>4, <4>1 DEF Readers
      <4> QED BY <2>7, <4>1, <4>2 DEF Readers
    <3>9. Sound(moved, T, object, etag)
      BY <2>7, <3>8 DEF Sound
    <3>10. next = [got EXCEPT !.reader = moved, !.content = content]
      BY <2>7, <2>8, <2>9, <2>11, <3>4, SameEnds DEF Http!Advanced
    <3>11. /\ next.reader = moved /\ next.content = content
           /\ next \in [reader : Readers(T, object, etag), content : Seq(T), failed : BOOLEAN]
      BY <1>2, <3>6, <3>8, <3>10
    <3>12. Len(content) <= length
      BY <1>2, <3>1, <3>2, <3>3, <3>6
    <3>13. moved.position = start + Len(content) /\ Len(content) > Len(got.content)
      BY <1>2, <2>1, <3>3, <3>6, <3>8
    <3>14. (Modest(server, object) /\ Paid(got.reader)) => Paid(next.reader)
      BY <2>5, <2>7, <3>8, <3>11 DEF Paid
    <3>15. Turn(next, start, length, T, object, etag)
      BY <3>7, <3>9, <3>11, <3>12, <3>13 DEF Turn
    <3>16. next.reader.http.max_bytes = got.reader.http.max_bytes
      BY <2>5, <2>7, <3>8, <3>11
    <3> QED BY <1>1, <3>11, <3>13, <3>14, <3>15, <3>16 DEF TrueTurn
  <2> QED BY <2>10, <2>11
<1> QED BY <1>3, <1>4

-------------------------------------------------------------------------------
(* A whole read *)

\* What got is after the turns of a set, one after the other.
Turns(n, begin, length, server) ==
  CHOOSE turns : turns = [s \in SUBSET (1 .. n) |->
    IF s = {} THEN begin ELSE Http!ReadOn(turns[s \ {Http!Max(s)}], length, server)]

TheTurns(turns, n, begin, length, server) ==
  turns = [s \in SUBSET (1 .. n) |->
    IF s = {} THEN begin ELSE Http!ReadOn(turns[s \ {Http!Max(s)}], length, server)]

LEMMA LastOf ==
  ASSUME NEW k \in Nat, NEW s \in SUBSET (1 .. k), k \in s
  PROVE  Http!Max(s) = k
<1>1. \A x \in s : x \in Int /\ x <= k
  OBVIOUS
<1>2. \A x \in s : (\A y \in s : x >= y) => x = k
  BY <1>1
<1>3. \E x \in s : \A y \in s : x >= y
  BY <1>1
<1> QED BY <1>2, <1>3 DEF Http!Max

LEMMA TurnsExist ==
  ASSUME NEW begin, NEW length, NEW server, NEW n \in Nat
  PROVE  \E turns : TheTurns(turns, n, begin, length, server)
<1>1. PICK S : S = {m \in Nat : \E turns : TheTurns(turns, m, begin, length, server)}
  OBVIOUS
<1>2. 0 \in S
  <2>1. PICK turns : turns = [s \in SUBSET (1 .. 0) |-> begin]
    OBVIOUS
  <2>2. SUBSET (1 .. 0) = {{}}
    OBVIOUS
  <2>3. TheTurns(turns, 0, begin, length, server)
    BY <2>1, <2>2, Zenon DEF TheTurns
  <2> QED BY <1>1, <2>3
<1>3. ASSUME NEW m \in Nat, m \in S PROVE m + 1 \in S
  <2>1. PICK turns : TheTurns(turns, m, begin, length, server)
    BY <1>1, <1>3
  <2>2. PICK k, more :
          /\ k = m + 1
          /\ more = [s \in SUBSET (1 .. k) |->
                      IF k \in s THEN Http!ReadOn(turns[s \ {k}], length, server) ELSE turns[s]]
    OBVIOUS
  <2>3. /\ \A s \in SUBSET (1 .. k) : k \in s => Http!Max(s) = k
        /\ \A s \in SUBSET (1 .. k) : s \ {k} \in SUBSET (1 .. m)
        /\ \A s \in SUBSET (1 .. k) : k \notin s => s \in SUBSET (1 .. m)
        /\ k \in Nat
    <3>1. k \in Nat /\ 1 .. k = (1 .. m) \cup {k}
      BY <2>2
    <3>2. ASSUME NEW s \in SUBSET (1 .. k), k \in s PROVE Http!Max(s) = k
      BY <3>1, <3>2, LastOf, Zenon
    <3> QED BY <3>1, <3>2
  <2>5. ASSUME NEW s \in SUBSET (1 .. k)
        PROVE  more[s] = IF s = {} THEN begin
                         ELSE Http!ReadOn(more[s \ {Http!Max(s)}], length, server)
    <3>1. CASE k \in s
      <4>1. s \ {k} \in SUBSET (1 .. k) /\ k \notin s \ {k} /\ s # {}
        BY <3>1
      <4>2. more[s \ {k}] = turns[s \ {k}]
        BY <2>2, <4>1
      <4>3. more[s] = Http!ReadOn(turns[s \ {k}], length, server)
        BY <2>2, <3>1
      <4> QED BY <2>3, <3>1, <4>1, <4>2, <4>3
    <3>2. CASE k \notin s
      <4>1. s \in SUBSET (1 .. m) /\ more[s] = turns[s]
        BY <2>2, <2>3, <3>2
      <4>2. more[s] = IF s = {} THEN begin
                      ELSE Http!ReadOn(turns[s \ {Http!Max(s)}], length, server)
        BY <2>1, <4>1 DEF TheTurns
      <4>3. s # {} => more[s \ {Http!Max(s)}] = turns[s \ {Http!Max(s)}]
        <5>1. s \ {Http!Max(s)} \in SUBSET (1 .. k) /\ k \notin s \ {Http!Max(s)}
          BY <3>2
        <5> QED BY <2>2, <5>1
      <4> QED BY <4>2, <4>3
    <3> QED BY <3>1, <3>2
  <2>6. TheTurns(more, k, begin, length, server)
    BY <2>2, <2>5, Zenon DEF TheTurns
  <2> QED BY <1>1, <2>2, <2>3, <2>6
<1>4. Nat \subseteq S
  BY <1>2, <1>3, AllNumbers
<1> QED BY <1>1, <1>4

ReadBy(begin, length, server) ==
  Http!FoldLeft(LAMBDA got, i : Http!ReadOn(got, length, server), begin, [i \in 1 .. length |-> i])

\* A read is its turns.
LEMMA ReadIsTurns ==
  ASSUME NEW begin, NEW length \in Nat, NEW server
  PROVE  \E turns : /\ TheTurns(turns, length, begin, length, server)
                    /\ ReadBy(begin, length, server) = turns[1 .. length]
<1>1. TheTurns(Turns(length, begin, length, server), length, begin, length, server)
  <2>1. \E turns : TheTurns(turns, length, begin, length, server)
    BY TurnsExist, Zenon
  <2> QED BY <2>1, Zenon DEF Turns, TheTurns
<1>2. DOMAIN [i \in 1 .. length |-> i] = 1 .. length
  OBVIOUS
<1>3. ReadBy(begin, length, server) = Turns(length, begin, length, server)[1 .. length]
  BY <1>2 DEF ReadBy, Http!FoldLeft, Http!MapThenFoldSet, Turns
<1> QED BY <1>1, <1>3

EndOfTurns(last, begin, start, length, server, T, object, etag) ==
  /\ Turn(last, start, length, T, object, etag)
  /\ last.reader.http.max_bytes = begin.reader.http.max_bytes
  /\ (Modest(server, object) /\ Paid(begin.reader)) => Paid(last.reader)
  /\ last.failed \/ Len(last.content) = length
  /\ begin.failed => last = begin

LEMMA TurnsAreTrue ==
  ASSUME BoundsAreNumbers, NEW T, NEW object \in Seq(T), NEW etag, NoneIsNoPart(T, etag),
         NEW server, Strong(server, T, object, etag), NEW start \in Nat, NEW length \in Nat,
         length = 0 \/ start + length <= Len(object),
         NEW begin, Turn(begin, start, length, T, object, etag),
         NEW turns, TheTurns(turns, length, begin, length, server)
  PROVE  EndOfTurns(turns[1 .. length], begin, start, length, server, T, object, etag)
<1> DEFINE True(n, got) ==
      /\ Turn(got, start, length, T, object, etag)
      /\ got.reader.http.max_bytes = begin.reader.http.max_bytes
      /\ (Modest(server, object) /\ Paid(begin.reader)) => Paid(got.reader)
      /\ got.failed \/ Len(got.content) >= length \/ Len(got.content) >= n
      /\ begin.failed => got = begin
<1>1. PICK S : S = {n \in Nat : n <= length => True(n, turns[1 .. n])}
  OBVIOUS
<1>2. 0 \in S
  <2>1. 1 .. 0 = {} /\ {} \in SUBSET (1 .. length)
    OBVIOUS
  <2>2. turns[1 .. 0] = begin
    BY <2>1 DEF TheTurns
  <2>3. Len(begin.content) \in Nat
    BY DEF Turn
  <2> QED BY <1>1, <2>2, <2>3
<1>3. ASSUME NEW n \in Nat, n \in S PROVE n + 1 \in S
  <2>1. CASE n + 1 <= length
    <3>1. PICK got, next, s : got = turns[1 .. n] /\ next = turns[s] /\ s = 1 .. (n + 1)
      OBVIOUS
    <3>2. True(n, got)
      BY <1>1, <1>3, <2>1, <3>1
    <3>3. next = Http!ReadOn(got, length, server)
      <4>0. PICK k : k = n + 1
        OBVIOUS
      <4>1. s \in SUBSET (1 .. length) /\ s # {} /\ k \in Nat /\ s \in SUBSET (1 .. k) /\ k \in s
        BY <2>1, <3>1, <4>0
      <4>2. Http!Max(s) = n + 1
        BY <4>0, <4>1, LastOf
      <4>3. s \ {n + 1} = 1 .. n
        BY <3>1
      <4> QED BY <3>1, <4>1, <4>2, <4>3 DEF TheTurns
    <3>4. TrueTurn(next, got, start, length, server, T, object, etag)
      BY <3>2, <3>3, TurnIsTrue, Zenon
    <3>5. Len(got.content) \in Nat /\ Len(next.content) \in Nat
      BY <3>2, <3>4 DEF Turn, TrueTurn
    <3>6. next.failed \/ Len(next.content) >= length \/ Len(next.content) >= n + 1
      <4>1. CASE next = got
        BY <3>2, <3>4, <3>5, <4>1 DEF TrueTurn
      <4>2. CASE ~got.failed /\ ~(Len(got.content) >= length)
        BY <3>2, <3>4, <3>5, <4>2 DEF TrueTurn
      <4> QED BY <3>3, <4>1, <4>2 DEF Http!ReadOn
    <3>8. begin.failed => next = begin
      BY <3>2, <3>3 DEF Http!ReadOn
    <3>7. True(n + 1, next)
      BY <3>2, <3>4, <3>6, <3>8 DEF TrueTurn
    <3> QED BY <1>1, <3>1, <3>7
  <2>2. CASE ~(n + 1 <= length)
    BY <1>1, <2>2
  <2> QED BY <2>1, <2>2
<1>4. length \in S
  BY <1>2, <1>3, AllNumbers
<1>5. PICK last : last = turns[1 .. length]
  OBVIOUS
<1>6. True(length, last)
  BY <1>1, <1>4, <1>5
<1>7. Len(last.content) \in Nat /\ Len(last.content) <= length
  BY <1>6 DEF Turn
<1> QED BY <1>5, <1>6, <1>7 DEF EndOfTurns

\* How much is asked of a read.
AskedOf(reader, size) ==
  LET left == Http!Max({0, reader.size - reader.position})
  IN IF size = None THEN left ELSE Http!Min({size, left})

\* Whatever the server sends, a read that does not fail gives the part of the
\* pinned object that was asked for, and one that fails gives the beginning of
\* it. The position moves by what was got, the blocks that are kept stay true
\* and few, and neither the requests nor, from a server that sends no more than
\* asked, the bytes exceed what was allowed.
THEOREM ReadsAreExact ==
  ASSUME BoundsAreNumbers, None \notin Nat, NEW T, NEW object \in Seq(T), NEW etag,
         NoneIsNoPart(T, etag), NEW server, Strong(server, T, object, etag),
         NEW reader, Sound(reader, T, object, etag), NEW size \in Nat \cup {None}
  PROVE  LET got == Http!Read(reader, size, server)
             asked == AskedOf(reader, size)
         IN  /\ Sound(got.reader, T, object, etag) /\ got.content \in Seq(T)
             /\ got.reader.position = reader.position + Len(got.content)
             /\ Len(got.content) <= asked
             /\ got.content =
                  SubSeq(object, reader.position + 1, reader.position + Len(got.content))
             /\ ~got.failed => Len(got.content) = asked
             /\ asked > MaxRange => got.failed /\ got.content = <<>> /\ got.reader = reader
             /\ got.reader.http.max_bytes = reader.http.max_bytes
             /\ (Modest(server, object) /\ Paid(reader)) => Paid(got.reader)
<1>1. PICK start, length : start = reader.position /\ length = AskedOf(reader, size)
  OBVIOUS
<1>2. /\ reader \in Readers(T, object, etag) /\ reader.size = Len(object) /\ Len(object) \in Nat
      /\ start \in Nat
  BY <1>1 DEF Sound, Readers
<1>3. length \in Nat /\ (length = 0 \/ start + length <= Len(object))
  <2>1. PICK rest, left : rest = Len(object) - start /\ left = Max({0, rest})
    OBVIOUS
  <2>2. rest \in Int /\ 0 \in Int
    BY <1>2, <2>1
  <2>3. Max({0, rest}) \in {0, rest} /\ Max({0, rest}) >= 0 /\ Max({0, rest}) >= rest
    BY <2>2, LargerOfTwo, Zenon
  <2>4. left \in Nat /\ (left = 0 \/ start + left <= Len(object))
    BY <1>2, <2>1, <2>2, <2>3
  <2>5. CASE size = None
    BY <1>1, <1>2, <2>1, <2>4, <2>5, SameEnds DEF AskedOf
  <2>6. CASE size \in Nat
    <3>1. size \in Int /\ left \in Int
      BY <2>4, <2>6
    <3>2. Min({size, left}) \in {size, left} /\ Min({size, left}) <= size /\ Min({size, left}) <= left
      BY <3>1, SmallerOfTwo, Zenon
    <3>3. length = Min({size, left})
      BY <1>1, <1>2, <2>1, <2>6, SameEnds DEF AskedOf
    <3> QED BY <1>2, <2>4, <2>6, <3>2, <3>3
  <2> QED BY <2>5, <2>6
<1>4. PICK begin : begin = [reader |-> reader, content |-> <<>>, failed |-> length > MaxRange]
  OBVIOUS
<1>5. /\ begin.reader = reader /\ begin.content = <<>> /\ begin.failed = (length > MaxRange)
      /\ begin \in [reader : Readers(T, object, etag), content : Seq(T), failed : BOOLEAN]
  BY <1>2, <1>4
<1>6. Turn(begin, start, length, T, object, etag)
  BY <1>1, <1>2, <1>3, <1>5 DEF Turn
<1>7. PICK got : got = Http!Read(reader, size, server)
  OBVIOUS
<1>8. got = ReadBy(begin, length, server)
  <2>1. Http!Read(reader, size, server)
          = ReadBy([reader |-> reader, content |-> <<>>, failed |-> AskedOf(reader, size) > MaxRange],
                   AskedOf(reader, size), server)
    BY DEF Http!Read, ReadBy, AskedOf
  <2> QED BY <1>1, <1>4, <1>7, <2>1
<1>9. PICK turns : TheTurns(turns, length, begin, length, server) /\ got = turns[1 .. length]
  BY <1>3, <1>8, ReadIsTurns, Zenon
<1>10. EndOfTurns(got, begin, start, length, server, T, object, etag)
  <2>1. EndOfTurns(turns[1 .. length], begin, start, length, server, T, object, etag)
    BY <1>2, <1>3, <1>6, <1>9, TurnsAreTrue, Zenon
  <2> QED BY <1>9, <2>1
<1>11. /\ Sound(got.reader, T, object, etag) /\ got.content \in Seq(T) /\ Len(got.content) \in Nat
       /\ got.reader.position = start + Len(got.content) /\ Len(got.content) <= length
       /\ \A k \in 1 .. Len(got.content) : got.content[k] = object[start + k]
  BY <1>10 DEF EndOfTurns, Turn
<1>12. got.content = SubSeq(object, start + 1, start + Len(got.content))
  <2>1. PICK end, part, content : /\ end = start + Len(got.content) /\ content = got.content
                                  /\ part = SubSeq(object, start + 1, end)
    OBVIOUS
  <2>2. /\ end \in Nat /\ (content = <<>> \/ end <= Len(object))
    BY <1>2, <1>3, <1>11, <2>1
  <2>3. /\ part \in Seq(T) /\ Len(part) = Len(content)
        /\ \A k \in 1 .. Len(content) : part[k] = object[start + k]
    <3>1. CASE content = <<>>
      <4>1. end = start /\ Len(content) = 0
        BY <1>2, <2>1, <3>1
      <4>2. part = <<>>
        BY <1>2, <2>1, <4>1
      <4> QED BY <4>1, <4>2
    <3>2. CASE end <= Len(object)
      <4>1. /\ start \in Nat /\ end \in Nat /\ start <= end /\ end <= Len(object)
            /\ Len(content) = end - start
        BY <1>2, <1>11, <2>1, <2>2, <3>2
      <4>2. /\ part \in Seq(T) /\ Len(part) = end - start
            /\ \A k \in 1 .. end - start : part[k] = object[start + k]
        BY <2>1, <4>1
      <4> QED BY <4>1, <4>2
    <3> QED BY <2>2, <3>1, <3>2
  <2>4. /\ content \in Seq(T) /\ \A k \in 1 .. Len(content) : content[k] = object[start + k]
    BY <1>11, <2>1
  <2>5. content = part
    BY <2>3, <2>4
  <2> QED BY <2>1, <2>5
<1>13. length > MaxRange => got.failed /\ got.content = <<>> /\ got.reader = reader
  BY <1>5, <1>10 DEF EndOfTurns
<1> QED BY <1>1, <1>5, <1>7, <1>10, <1>11, <1>12, <1>13 DEF EndOfTurns

\* Where the reads of an object begin: a reader that was just pinned is sound,
\* and stays so where it is moved.
LEMMA PinnedIsSound ==
  ASSUME BoundsAreNumbers, NEW T, NEW object \in Seq(T), NEW etag,
         NEW http \in Budgets, http.requests <= http.max_requests, NEW R, NEW E,
         NEW reply \in [status : Nat, range : R, etag : E, content : Seq(T), announced : Nat],
         reply.announced = Len(object), reply.etag = etag,
         NEW pinned, pinned = Http!Opened(http, reply), pinned # None
  PROVE  Sound(pinned, T, object, etag)
<1>1. PICK head, expected, fetch :
        /\ head = [reply EXCEPT !.content = <<>>, !.announced = 0]
        /\ expected = [status |-> 200, range |-> None, etag |-> None]
        /\ fetch = Http!Fetch(http, 0, head, expected)
  OBVIOUS
<1>2. head.content \in Seq(T)
  BY <1>1
<1>3. 0 \in Nat
  OBVIOUS
<1>4. PaidFetch(http, 0, head, expected, fetch)
  BY <1>1, <1>2, <1>3, FetchIsPaid, Zenon
<1>5. fetch.http \in Budgets /\ fetch.http.requests <= fetch.http.max_requests
  BY <1>4 DEF PaidFetch
<1>6. pinned = [http |-> fetch.http, size |-> Len(object), etag |-> etag,
                cache |-> <<>>, position |-> 0]
  BY <1>1 DEF Http!Opened
<1>7. CacheBlocks \in Nat
  BY DEF BoundsAreNumbers
<1>8. pinned \in Readers(T, object, etag) /\ pinned.http = fetch.http /\ pinned.cache = <<>>
  BY <1>5, <1>6 DEF Readers
<1> QED BY <1>5, <1>7, <1>8 DEF Sound

LEMMA MovedIsSound ==
  ASSUME BoundsAreNumbers, NEW T, NEW object \in Seq(T), NEW etag,
         NEW reader, Sound(reader, T, object, etag), NEW offset \in Int, NEW whence \in 0 .. 2,
         NEW moved, moved = Http!Seek(reader, offset, whence), moved # None
  PROVE  Sound(moved, T, object, etag) /\ (Paid(reader) => Paid(moved))
<1>1. PICK position : position = offset + <<0, reader.position, reader.size>>[whence + 1]
  OBVIOUS
<1>2. reader \in Readers(T, object, etag) /\ reader.position \in Nat /\ reader.size \in Nat
  BY DEF Sound, Readers
<1>3. position \in Int
  <2>1. PICK place : place = <<0, reader.position, reader.size>>[whence + 1]
    OBVIOUS
  <2>2. CASE whence = 0
    BY <1>1, <1>2, <2>2
  <2>3. CASE whence = 1
    BY <1>1, <1>2, <2>3
  <2>4. CASE whence = 2
    BY <1>1, <1>2, <2>4
  <2> QED BY <2>2, <2>3, <2>4
<1>4. position \in Nat /\ moved = [reader EXCEPT !.position = position]
  BY <1>1, <1>3 DEF Http!Seek
<1>5. /\ moved \in Readers(T, object, etag) /\ moved.http = reader.http
      /\ moved.cache = reader.cache
  BY <1>2, <1>4 DEF Readers
<1> QED BY <1>5 DEF Sound, Paid

-------------------------------------------------------------------------------
(* Reads that succeed *)

\* A server that has the object, and sends of it what it is asked for.
Candid(reply, first, last, object, etag) ==
  reply = [status |-> 206, range |-> <<first, last, Len(object)>>, etag |-> etag,
           content |-> SubSeq(object, first + 1, last + 1), announced |-> 0]

Honest(server, object, etag) ==
  \A first, last, n \in Nat : (first <= last /\ last < Len(object)) =>
    Candid(server[<<<<first, last, Len(object)>>, n>>], first, last, object, etag)

\* What is left of the budget pays for k blocks more.
Room(reader, k) ==
  /\ ~reader.http.late
  /\ reader.http.requests + k <= reader.http.max_requests
  /\ reader.http.bytes + k * BlockSize <= reader.http.max_bytes

\* A fetch that got the reply, and paid for it.
Answered(fetch, http, limit, reply) ==
  /\ fetch.content = reply.content /\ ~fetch.http.late
  /\ fetch.http.requests = http.requests + 1 /\ fetch.http.bytes = http.bytes + limit
  /\ fetch.http.max_requests = http.max_requests /\ fetch.http.max_bytes = http.max_bytes

LEMMA FetchIsAnswered ==
  ASSUME NEW T, NEW http \in Budgets, NEW limit \in Nat, limit <= MaxRange, MaxRange \in Nat,
         ~http.late, http.requests + 1 <= http.max_requests,
         http.bytes + limit <= http.max_bytes,
         NEW reply, reply.content \in Seq(T), Len(reply.content) = limit, reply.announced = 0,
         NEW expected, reply.status = expected.status, reply.range = expected.range,
         reply.etag = expected.etag,
         NEW fetch, fetch = Http!Fetch(http, limit, reply, expected)
  PROVE  Answered(fetch, http, limit, reply)
<1>1. PICK counted, received :
        /\ counted = [http EXCEPT !.requests = @ + 1]
        /\ received = [counted EXCEPT !.bytes = @ + Len(reply.content)]
  OBVIOUS
<1>2. /\ http.bytes \in Nat /\ http.requests \in Nat /\ http.max_bytes \in Nat
      /\ http.max_requests \in Nat
  BY DEF Budgets
<1>3. /\ received.bytes = http.bytes + limit /\ received.requests = http.requests + 1
      /\ received.max_bytes = http.max_bytes /\ received.max_requests = http.max_requests
      /\ received.late = http.late
  BY <1>1 DEF Budgets
<1>6. /\ ~(http.late \/ http.requests >= http.max_requests)
      /\ ~(limit > MaxRange \/ limit > http.max_bytes - http.bytes)
      /\ ~(reply.announced > limit)
      /\ ~(Len(reply.content) > limit \/ received.bytes > http.max_bytes)
  BY <1>2, <1>3
<1>7. fetch = [http |-> received, content |-> reply.content]
  BY <1>1, <1>6 DEF Http!Fetch
<1> QED BY <1>3, <1>7 DEF Answered

\* A block that there is room for is got.
LEMMA BlockIsGot ==
  ASSUME BoundsAreNumbers, BlockSize <= MaxRange, NEW T, NEW object \in Seq(T), NEW etag,
         NoneIsNoPart(T, etag), NEW server, Honest(server, object, etag),
         NEW reader, Sound(reader, T, object, etag), NEW i \in Nat, i * BlockSize < Len(object),
         NEW k \in Nat, Room(reader, k + 1),
         NEW b, b = Http!Block(reader, i, server)
  PROVE  b.content # None /\ Room(b.reader, k)
<1>1. /\ reader \in Readers(T, object, etag) /\ reader.size = Len(object) /\ reader.etag = etag
      /\ reader.http \in Budgets /\ reader.cache \in Seq(Blocks(T)) /\ Len(object) \in Nat
      /\ \A j \in 1 .. Len(reader.cache) : reader.cache[j].content \in Seq(T)
  <2>1. reader \in Readers(T, object, etag)
    BY DEF Sound
  <2>2. PICK S, cache : S = Blocks(T) /\ cache = reader.cache
    OBVIOUS
  <2>3. cache \in Seq(S)
    BY <2>1, <2>2 DEF Readers
  <2>4. \A j \in 1 .. Len(cache) : cache[j] \in S
    BY <2>3
  <2> QED BY <2>1, <2>2, <2>4 DEF Readers, Blocks
<1>2. PICK first, above, below, final :
        /\ first = i * BlockSize /\ above = Len(object) - 1 /\ below = (i + 1) * BlockSize - 1
        /\ final = Final(object, i)
  OBVIOUS
<1>3. /\ first \in Nat /\ above \in Nat /\ below = first + BlockSize - 1 /\ below \in Nat
      /\ first <= above /\ first <= below /\ BlockSize \in Nat \ {0}
  <2>1. (i + 1) * BlockSize = i * BlockSize + BlockSize /\ i * BlockSize \in Nat
    BY DEF BoundsAreNumbers
  <2>2. BlockSize \in Nat \ {0}
    BY DEF BoundsAreNumbers
  <2>3. first \in Nat /\ first < Len(object) /\ below = (first + BlockSize) - 1
    BY <1>2, <2>1
  <2> QED BY <1>1, <1>2, <2>2, <2>3, SMTT(30)
<1>4. final \in {above, below} /\ final <= above /\ final <= below
  <2>1. above \in Int /\ below \in Int
    BY <1>3
  <2>2. final = Min({above, below})
    BY <1>2 DEF Final
  <2> QED BY <2>1, <2>2, SmallerOfTwo
<1>5. final \in Nat /\ first <= final /\ final < Len(object) /\ final - first + 1 <= BlockSize
      /\ final - first + 1 \in Nat
  <2>1. above = Len(object) - 1
    BY <1>2
  <2> QED BY <1>1, <1>3, <1>4, <2>1
<1>6. Http!BlockRange(reader, i) = <<first, final, Len(object)>>
  BY <1>1, <1>2, SameEnds DEF Http!BlockRange, Final
<1>7. PICK http, n : http = reader.http /\ n = reader.http.requests
  OBVIOUS
<1>8. /\ http \in Budgets /\ n \in Nat /\ http.bytes \in Nat /\ http.max_bytes \in Nat
      /\ http.max_requests \in Nat /\ http.requests = n
      /\ ~http.late /\ n + (k + 1) <= http.max_requests
      /\ http.bytes + (k * BlockSize + BlockSize) <= http.max_bytes
  <2>1. (k + 1) * BlockSize = k * BlockSize + BlockSize
    BY <1>3
  <2> QED BY <1>1, <1>7, <2>1 DEF Room, Budgets
<1>9. PICK spent : spent = k * BlockSize
  OBVIOUS
<1>10. spent \in Nat
  BY <1>3, <1>9
<1>11. CASE Http!Cached(reader, i) # {}
  <2>1. PICK kept : kept = CHOOSE j \in Http!Cached(reader, i) : TRUE
    OBVIOUS
  <2>2. kept \in 1 .. Len(reader.cache)
    BY <1>1, <1>11, <2>1 DEF Http!Cached
  <2>3. b = [reader |-> [reader EXCEPT !.cache = Http!Used(@, kept)],
             content |-> reader.cache[kept].content]
    BY <1>11, <2>1 DEF Http!Block
  <2>4. b.content \in Seq(T)
    BY <1>1, <2>2, <2>3
  <2>5. b.reader.http = http
    BY <1>1, <1>7, <2>3 DEF Readers
  <2>6. Room(b.reader, k)
    BY <1>3, <1>8, <1>9, <1>10, <2>5, SMTT(30) DEF Room
  <2> QED BY <2>4, <2>6 DEF NoneIsNoPart
<1>12. CASE Http!Cached(reader, i) = {}
  <2>1. PICK reply, limit, fetch, range :
          /\ range = <<first, final, Len(object)>>
          /\ reply = server[<<range, n>>] /\ limit = final - first + 1
          /\ fetch = Http!Fetch(http, limit, reply, Http!Pinned(reader, i))
    OBVIOUS
  <2>2. PICK part : part = SubSeq(object, first + 1, final + 1)
    OBVIOUS
  <2>3. part \in Seq(T) /\ Len(part) = limit /\ limit \in Nat /\ limit <= BlockSize
    BY <1>3, <1>5, <2>1, <2>2
  <2>4. /\ reply.status = 206 /\ reply.range = range /\ reply.etag = etag /\ reply.content = part
        /\ reply.announced = 0
    <3>1. server[<<<<first, final, Len(object)>>, n>>] =
            [status |-> 206, range |-> <<first, final, Len(object)>>, etag |-> etag,
             content |-> SubSeq(object, first + 1, final + 1), announced |-> 0]
      BY <1>3, <1>5, <1>8, Zenon DEF Honest, Candid
    <3>2. reply = [status |-> 206, range |-> range, etag |-> etag, content |-> part,
                   announced |-> 0]
      BY <2>1, <2>2, <3>1
    <3> QED BY <3>2
  <2>5. /\ Http!Pinned(reader, i).status = 206 /\ Http!Pinned(reader, i).etag = etag
        /\ Http!Pinned(reader, i).range = range
    BY <1>1, <1>6, <2>1 DEF Http!Pinned
  <2>6. PICK expected : expected = Http!Pinned(reader, i)
    OBVIOUS
  <2>7. /\ reply.content \in Seq(T) /\ Len(reply.content) = limit
        /\ reply.status = expected.status /\ reply.range = expected.range
        /\ reply.etag = expected.etag /\ fetch = Http!Fetch(http, limit, reply, expected)
        /\ MaxRange \in Nat /\ BlockSize \in Nat
    BY <2>1, <2>3, <2>4, <2>5, <2>6 DEF BoundsAreNumbers
  <2>8. /\ fetch.content = reply.content /\ ~fetch.http.late
        /\ fetch.http.requests = n + 1 /\ fetch.http.bytes = http.bytes + limit
        /\ fetch.http.max_requests = http.max_requests /\ fetch.http.max_bytes = http.max_bytes
    <3>1. limit <= MaxRange /\ n + 1 <= http.max_requests
      BY <1>3, <1>8, <2>3, <2>7
    <3>2. http.bytes + limit <= http.max_bytes
      BY <1>3, <1>8, <1>9, <1>10, <2>3, SMTT(30)
    <3>3. Answered(fetch, http, limit, reply)
      BY <1>8, <2>3, <2>4, <2>7, <3>1, <3>2, FetchIsAnswered, Zenon
    <3> QED BY <1>8, <3>3 DEF Answered
  <2>9. fetch.content = part /\ part # None
    BY <2>3, <2>4, <2>8 DEF NoneIsNoPart
  <2>10. ~(first > final)
    BY <1>3, <1>5
  <2>11. b = Http!Fetched(reader, i, limit, fetch)
    BY <1>6, <1>7, <1>12, <2>1, <2>10 DEF Http!Block
  <2>12. b.content = part /\ b.reader.http = fetch.http
    <3>1. PICK paid, kept : /\ paid = [reader EXCEPT !.http = fetch.http]
                            /\ kept = Http!Kept(Append(paid.cache, [index |-> i, content |-> part]))
      OBVIOUS
    <3>2. b = [reader |-> [paid EXCEPT !.cache = kept], content |-> part]
      BY <2>3, <2>9, <2>11, <3>1 DEF Http!Fetched
    <3>3. [paid EXCEPT !.cache = kept].http = paid.http /\ paid.http = fetch.http
      BY <1>1, <3>1 DEF Readers
    <3>4. b.content = part /\ b.reader = [paid EXCEPT !.cache = kept]
      BY <3>2
    <3> QED BY <3>3, <3>4
  <2>13. Room(b.reader, k)
    <3>1. fetch.http.requests + k <= fetch.http.max_requests
      BY <1>8, <2>8
    <3>2. fetch.http.bytes + spent <= fetch.http.max_bytes
      BY <1>3, <1>8, <1>9, <1>10, <2>3, <2>8
    <3> QED BY <1>9, <2>8, <2>12, <3>1, <3>2 DEF Room
  <2> QED BY <2>9, <2>12, <2>13
<1> QED BY <1>11, <1>12

\* A turn that there is room for does not fail.
LEMMA TurnIsMade ==
  ASSUME BoundsAreNumbers, BlockSize <= MaxRange, NEW T, NEW object \in Seq(T), NEW etag,
         NoneIsNoPart(T, etag), NEW server, Strong(server, T, object, etag),
         Honest(server, object, etag), NEW start \in Nat, NEW length \in Nat,
         length = 0 \/ start + length <= Len(object),
         NEW got, Turn(got, start, length, T, object, etag), ~got.failed,
         NEW k \in Nat, Room(got.reader, k + 1),
         NEW next, next = Http!ReadOn(got, length, server)
  PROVE  ~next.failed /\ Room(next.reader, k)
<1>1. /\ got \in [reader : Readers(T, object, etag), content : Seq(T), failed : BOOLEAN]
      /\ Sound(got.reader, T, object, etag) /\ Len(got.content) \in Nat
      /\ got.reader.position = start + Len(got.content) /\ Len(got.content) <= length
      /\ Len(object) \in Nat /\ got.reader.http \in Budgets
  BY DEF Turn, Readers
<1>2. CASE Len(got.content) >= length
  <2>1. next = got
    BY <1>2 DEF Http!ReadOn
  <2>2. (k + 1) * BlockSize = k * BlockSize + BlockSize
    BY DEF BoundsAreNumbers
  <2>3. PICK spent, http : spent = k * BlockSize /\ http = got.reader.http
    OBVIOUS
  <2>6. (k + 1) * BlockSize = spent + BlockSize
    BY <2>2, <2>3
  <2>4. spent \in Nat /\ BlockSize \in Nat /\ http.bytes \in Nat /\ http.max_bytes \in Nat
        /\ http.requests \in Nat /\ http.max_requests \in Nat
    BY <1>1, <2>3 DEF BoundsAreNumbers, Budgets
  <2>5. /\ ~http.late /\ http.requests + k <= http.max_requests
        /\ http.bytes + spent <= http.max_bytes
    <3>1. /\ ~http.late /\ http.requests + (k + 1) <= http.max_requests
          /\ http.bytes + (k + 1) * BlockSize <= http.max_bytes
      BY <2>3 DEF Room
    <3>2. http.bytes + (spent + BlockSize) <= http.max_bytes
      BY <2>6, <3>1
    <3>3. ~http.late /\ http.requests + (k + 1) <= http.max_requests
      BY <3>1
    <3>4. http.requests + k <= http.max_requests
      BY <2>4, <3>3
    <3>5. PICK bytes, most : bytes = http.bytes /\ most = http.max_bytes
      OBVIOUS
    <3>6. bytes + spent <= most
      BY <2>4, <3>2, <3>5
    <3> QED BY <3>3, <3>4, <3>5, <3>6
  <2> QED BY <2>1, <2>3, <2>5 DEF Room
<1>3. CASE ~(Len(got.content) >= length)
  <2>1. PICK position, i, offset :
          /\ position = got.reader.position /\ i = position \div BlockSize
          /\ offset = position % BlockSize
    OBVIOUS
  <2>2. position \in Nat /\ position < Len(object)
    BY <1>1, <1>3, <2>1
  <2>3. PICK whole : whole = BlockOf(object, i)
    OBVIOUS
  <2>4. InBlock(T, object, position, i, offset, whole)
    BY <2>1, <2>2, <2>3, PlaceInBlock, Zenon
  <2>5. PICK reader, block : reader = got.reader /\ block = Http!Block(reader, i, server)
    OBVIOUS
  <2>6. i \in Nat /\ i * BlockSize < Len(object) /\ offset < Len(whole) /\ Len(whole) \in Nat
        /\ offset \in Nat
    BY <2>4 DEF InBlock
  <2>7. TrueBlock(block, reader, i, server, T, object, etag)
    BY <1>1, <2>5, <2>6, BlockIsTrue, Zenon
  <2>8. block.content # None /\ Room(block.reader, k)
    BY <1>1, <2>5, <2>6, BlockIsGot
  <2>9. block.content = whole /\ block.reader \in Readers(T, object, etag)
    BY <2>3, <2>6, <2>7, <2>8 DEF TrueBlock, Sound
  <2>10. next = Http!Advanced(got, length, offset, block)
    BY <1>3, <2>1, <2>5 DEF Http!ReadOn
  <2>11. PICK left, rest, take :
           /\ left = length - Len(got.content) /\ rest = Len(whole) - offset
           /\ take = Min({left, rest})
    OBVIOUS
  <2>12. ~(take <= 0)
    <3>1. left \in Int /\ rest \in Int /\ left > 0 /\ rest > 0
      BY <1>1, <1>3, <2>6, <2>11
    <3>2. take \in {left, rest}
      BY <2>11, <3>1, SmallerOfTwo
    <3> QED BY <3>1, <3>2
  <2>13. take = Http!Min({length - Len(got.content), Len(block.content) - offset})
    BY <2>9, <2>11, SameEnds
  <2>14. PICK moved, content :
           /\ moved = [block.reader EXCEPT !.position = @ + take]
           /\ content = got.content \o SubSeq(block.content, offset + 1, offset + take)
    OBVIOUS
  <2>15. next = [got EXCEPT !.reader = moved, !.content = content]
    BY <2>8, <2>10, <2>12, <2>13, <2>14 DEF Http!Advanced
  <2>16. next.failed = got.failed /\ next.reader = moved /\ moved.http = block.reader.http
    BY <1>1, <2>9, <2>14, <2>15 DEF Readers
  <2> QED BY <2>8, <2>16 DEF Room
<1> QED BY <1>2, <1>3

\* What is asked of a sound reader is there.
LEMMA AskedIsThere ==
  ASSUME None \notin Nat, NEW T, NEW object \in Seq(T), NEW etag,
         NEW reader, Sound(reader, T, object, etag), NEW size \in Nat \cup {None},
         NEW length, length = AskedOf(reader, size)
  PROVE  length \in Nat /\ (length = 0 \/ reader.position + length <= Len(object))
<1>1. reader.size = Len(object) /\ Len(object) \in Nat /\ reader.position \in Nat
  BY DEF Sound, Readers
<1>2. PICK start, rest, left :
        /\ start = reader.position /\ rest = Len(object) - start /\ left = Max({0, rest})
  OBVIOUS
<1>3. rest \in Int /\ 0 \in Int
  BY <1>1, <1>2
<1>4. Max({0, rest}) \in {0, rest} /\ Max({0, rest}) >= 0 /\ Max({0, rest}) >= rest
  BY <1>3, LargerOfTwo, Zenon
<1>5. left \in Nat /\ (left = 0 \/ start + left <= Len(object))
  BY <1>1, <1>2, <1>3, <1>4
<1>6. length = IF size = None THEN left ELSE Min({size, left})
  BY <1>1, <1>2, SameEnds DEF AskedOf
<1>7. CASE size = None
  BY <1>2, <1>5, <1>6, <1>7
<1>8. CASE size \in Nat
  <2>1. size \in Int /\ left \in Int
    BY <1>5, <1>8
  <2>2. Min({size, left}) \in {size, left} /\ Min({size, left}) <= size /\ Min({size, left}) <= left
    BY <2>1, SmallerOfTwo, Zenon
  <2>3. length = Min({size, left})
    BY <1>6, <1>8
  <2> QED BY <1>1, <1>2, <1>5, <1>8, <2>2, <2>3
<1> QED BY <1>7, <1>8

LEMMA TurnsAreMade ==
  ASSUME BoundsAreNumbers, BlockSize <= MaxRange, NEW T, NEW object \in Seq(T), NEW etag,
         NoneIsNoPart(T, etag), NEW server, Strong(server, T, object, etag),
         Honest(server, object, etag), NEW start \in Nat, NEW length \in Nat,
         length = 0 \/ start + length <= Len(object),
         NEW begin, Turn(begin, start, length, T, object, etag), ~begin.failed,
         NEW k \in Nat, Room(begin.reader, length + k),
         NEW turns, TheTurns(turns, length, begin, length, server)
  PROVE  ~turns[1 .. length].failed /\ Room(turns[1 .. length].reader, k)
<1> DEFINE Made(n, g) == /\ Turn(g, start, length, T, object, etag)
                         /\ ~g.failed /\ Room(g.reader, (length - n) + k)
<1>1. PICK S : S = {n \in Nat : n <= length => Made(n, turns[1 .. n])}
  OBVIOUS
<1>2. 0 \in S
  <2>1. 1 .. 0 = {} /\ {} \in SUBSET (1 .. length)
    OBVIOUS
  <2>2. turns[1 .. 0] = begin
    BY <2>1 DEF TheTurns
  <2>3. (length - 0) + k = length + k
    OBVIOUS
  <2>4. Made(0, begin)
    BY <2>3
  <2> QED BY <1>1, <2>2, <2>4
<1>3. ASSUME NEW n \in Nat, n \in S PROVE n + 1 \in S
  <2>1. CASE n + 1 <= length
    <3>1. PICK g, next, s : g = turns[1 .. n] /\ next = turns[s] /\ s = 1 .. (n + 1)
      OBVIOUS
    <3>2. Made(n, g)
      BY <1>1, <1>3, <2>1, <3>1
    <3>3. next = Http!ReadOn(g, length, server)
      <4>0. PICK m : m = n + 1
        OBVIOUS
      <4>1. s \in SUBSET (1 .. length) /\ s # {} /\ m \in Nat /\ s \in SUBSET (1 .. m) /\ m \in s
        <5>1. m \in 1 .. length /\ s = 1 .. m
          BY <2>1, <3>1, <4>0
        <5>2. m \in Nat /\ m \in s /\ s \in SUBSET (1 .. m)
          BY <5>1
        <5>3. \A x \in s : x \in 1 .. length
          BY <5>1
        <5> QED BY <5>2, <5>3
      <4>2. Http!Max(s) = n + 1
        BY <4>0, <4>1, LastOf
      <4>3. s \ {n + 1} = 1 .. n
        BY <3>1
      <4> QED BY <3>1, <4>1, <4>2, <4>3 DEF TheTurns
    <3>4. PICK more : more = (length - (n + 1)) + k
      OBVIOUS
    <3>5. more \in Nat /\ (length - n) + k = more + 1
      BY <2>1, <3>4
    <3>6. /\ Turn(g, start, length, T, object, etag) /\ ~g.failed /\ Room(g.reader, more + 1)
      BY <3>2, <3>5
    <3>7. ~next.failed /\ Room(next.reader, more)
      BY <3>3, <3>5, <3>6, TurnIsMade
    <3>8. TrueTurn(next, g, start, length, server, T, object, etag)
      BY <3>3, <3>6, TurnIsTrue, Zenon
    <3>9. Made(n + 1, next)
      BY <3>4, <3>7, <3>8 DEF TrueTurn
    <3> QED BY <1>1, <3>1, <3>9
  <2>2. CASE ~(n + 1 <= length)
    BY <1>1, <2>2
  <2> QED BY <2>1, <2>2
<1>4. length \in S
  BY <1>2, <1>3, AllNumbers
<1>5. Made(length, turns[1 .. length])
  BY <1>1, <1>4
<1>6. (length - length) + k = k
  OBVIOUS
<1> QED BY <1>5, <1>6

\* A server that has the object answers every read that asks for no more than
\* may be asked for, while the budget lasts; and a read takes no more of the
\* budget than a request and a block for each byte of it.
THEOREM ReadsAreAnswered ==
  ASSUME BoundsAreNumbers, BlockSize <= MaxRange, None \notin Nat, NEW T, NEW object \in Seq(T),
         NEW etag, NoneIsNoPart(T, etag), NEW server, Strong(server, T, object, etag),
         Honest(server, object, etag),
         NEW reader, Sound(reader, T, object, etag), NEW size \in Nat \cup {None},
         AskedOf(reader, size) <= MaxRange, NEW k \in Nat, Room(reader, AskedOf(reader, size) + k)
  PROVE  LET got == Http!Read(reader, size, server)
         IN  ~got.failed /\ Room(got.reader, k)
<1>1. PICK start, length : start = reader.position /\ length = AskedOf(reader, size)
  OBVIOUS
<1>2. reader \in Readers(T, object, etag) /\ start \in Nat /\ Len(object) \in Nat
  BY <1>1 DEF Sound, Readers
<1>3. length \in Nat /\ (length = 0 \/ start + length <= Len(object))
  BY <1>1, AskedIsThere
<1>4. length <= MaxRange /\ Room(reader, length + k)
  BY <1>1
<1>5. PICK begin : begin = [reader |-> reader, content |-> <<>>, failed |-> length > MaxRange]
  OBVIOUS
<1>6. /\ begin.reader = reader /\ begin.content = <<>> /\ begin.failed = FALSE
      /\ begin \in [reader : Readers(T, object, etag), content : Seq(T), failed : BOOLEAN]
  <2>1. (length > MaxRange) = FALSE
    BY <1>3, <1>4 DEF BoundsAreNumbers
  <2>2. begin = [reader |-> reader, content |-> <<>>, failed |-> FALSE]
    BY <1>5, <2>1
  <2> QED BY <1>2, <2>2
<1>7. Turn(begin, start, length, T, object, etag)
  BY <1>1, <1>2, <1>3, <1>6 DEF Turn
<1>8. PICK got : got = Http!Read(reader, size, server)
  OBVIOUS
<1>9. got = ReadBy(begin, length, server)
  <2>1. Http!Read(reader, size, server)
          = ReadBy([reader |-> reader, content |-> <<>>, failed |-> AskedOf(reader, size) > MaxRange],
                   AskedOf(reader, size), server)
    BY DEF Http!Read, ReadBy, AskedOf
  <2> QED BY <1>1, <1>5, <1>8, <2>1
<1>10. PICK turns : TheTurns(turns, length, begin, length, server) /\ got = turns[1 .. length]
  BY <1>3, <1>9, ReadIsTurns, Zenon
<1>11. ~got.failed /\ Room(got.reader, k)
  BY <1>2, <1>3, <1>4, <1>6, <1>7, <1>10, TurnsAreMade
<1> QED BY <1>8, <1>11

-------------------------------------------------------------------------------
(* Sessions of reads *)

\* What a read of the object from an offset is for.
PartOf(object, op) ==
  SubSeq(object, op.offset + 1,
         IF op.size = None THEN Len(object) ELSE Min({Len(object), op.offset + op.size}))

ReadRequests == [offset : Nat, size : Nat \cup {None}]

LEMMA PartIsAsked ==
  ASSUME None \notin Nat, NEW T, NEW object \in Seq(T), NEW op \in ReadRequests,
         NEW reader, reader.size = Len(object), reader.position = op.offset,
         NEW part, part = PartOf(object, op), NEW asked, asked = AskedOf(reader, op.size)
  PROVE  /\ asked \in Nat /\ part \in Seq(T) /\ Len(part) = asked
         /\ part = SubSeq(object, op.offset + 1, op.offset + asked)
         /\ \A i \in 1 .. asked : part[i] = object[op.offset + i]
<1>1. PICK start, n, rest, left, size :
        /\ start = op.offset /\ n = Len(object) /\ rest = n - start /\ left = Max({0, rest})
        /\ size = op.size
  OBVIOUS
<1>2. start \in Nat /\ n \in Nat /\ rest \in Int /\ 0 \in Int /\ size \in Nat \cup {None}
  BY <1>1 DEF ReadRequests
<1>3. Max({0, rest}) \in {0, rest} /\ Max({0, rest}) >= 0 /\ Max({0, rest}) >= rest
  BY <1>2, LargerOfTwo, Zenon
<1>4. left \in Nat /\ left >= rest /\ (left = 0 \/ left = rest)
  BY <1>1, <1>2, <1>3
<1>5. asked = IF size = None THEN left ELSE Min({size, left})
  BY <1>1, <1>2, SameEnds DEF AskedOf
<1>6. PICK end : end = IF size = None THEN n ELSE Min({n, start + size})
  OBVIOUS
<1>7. part = SubSeq(object, start + 1, end)
  BY <1>1, <1>6 DEF PartOf
<1>8. asked \in Nat /\ end \in Nat /\ end <= n
      /\ \/ start <= n /\ end = start + asked
         \/ start >= n /\ asked = 0
  <2>1. CASE size = None
    BY <1>1, <1>2, <1>4, <1>5, <1>6, <2>1
  <2>2. CASE size \in Nat
    <3>1. size # None
      BY <2>2
    <3>2. PICK far : far = start + size
      OBVIOUS
    <3>3. size \in Int /\ left \in Int /\ n \in Int /\ far \in Int
      BY <1>2, <1>4, <2>2, <3>2
    <3>4. /\ Min({size, left}) \in {size, left} /\ Min({size, left}) <= size
          /\ Min({size, left}) <= left
      BY <3>3, SmallerOfTwo, Zenon
    <3>5. Min({n, far}) \in {n, far} /\ Min({n, far}) <= n /\ Min({n, far}) <= far
      BY <3>3, SmallerOfTwo, Zenon
    <3>6. asked = Min({size, left}) /\ end = Min({n, far})
      BY <1>5, <1>6, <3>1, <3>2
    <3>7. asked \in {size, left} /\ asked <= size /\ asked <= left
          /\ end \in {n, far} /\ end <= n /\ end <= far
      BY <3>4, <3>5, <3>6
    <3> QED BY <1>1, <1>2, <1>4, <2>2, <3>2, <3>7
  <2> QED BY <1>2, <2>1, <2>2
<1>9. CASE start <= n /\ end = start + asked
  <2>1. start <= end /\ end <= Len(object) /\ start \in Nat /\ end \in Nat /\ end - start = asked
    BY <1>1, <1>2, <1>8, <1>9
  <2>2. /\ part \in Seq(T) /\ Len(part) = end - start
        /\ \A i \in 1 .. end - start : part[i] = object[start + i]
    BY <1>7, <2>1
  <2> QED BY <1>1, <1>7, <1>8, <1>9, <2>1, <2>2
<1>10. CASE start >= n /\ asked = 0
  <2>1. part = <<>>
    BY <1>1, <1>2, <1>7, <1>8, <1>10
  <2>2. SubSeq(object, start + 1, start + 0) = <<>>
    BY <1>2
  <2>3. part \in Seq(T) /\ Len(part) = 0
    BY <2>1
  <2>4. part = SubSeq(object, op.offset + 1, op.offset + asked)
    <3>1. start + asked = start + 0
      BY <1>10
    <3> QED BY <1>1, <2>1, <2>2, <3>1
  <2>5. \A i \in 1 .. asked : part[i] = object[op.offset + i]
    BY <1>10
  <2> QED BY <1>8, <1>10, <2>3, <2>4, <2>5
<1> QED BY <1>8, <1>9, <1>10

\* Seeking from the start.
SoughtIn(sought, reader, offset, T, object, etag) ==
  /\ Sound(sought, T, object, etag) /\ sought.position = offset
  /\ sought.http = reader.http /\ sought.size = Len(object)

LEMMA SoughtIsSound ==
  ASSUME NEW T, NEW object \in Seq(T), NEW etag,
         NEW reader, Sound(reader, T, object, etag), NEW offset \in Nat,
         NEW sought, sought = Http!Seek(reader, offset, 0)
  PROVE  SoughtIn(sought, reader, offset, T, object, etag)
<1>1. reader \in Readers(T, object, etag)
  BY DEF Sound
<1>2. sought = [reader EXCEPT !.position = offset]
  <2>1. offset + <<0, reader.position, reader.size>>[0 + 1] = offset
    OBVIOUS
  <2> QED BY <2>1 DEF Http!Seek
<1>3. /\ sought \in Readers(T, object, etag) /\ sought.http = reader.http
      /\ sought.cache = reader.cache /\ sought.position = offset
  BY <1>1, <1>2 DEF Readers
<1> QED BY <1>3 DEF SoughtIn, Sound, Readers

\* A smaller need has room where a larger one has.
LEMMA RoomForLess ==
  ASSUME BoundsAreNumbers, NEW reader, reader.http \in Budgets, NEW more \in Nat, NEW k \in Nat,
         k <= more, Room(reader, more)
  PROVE  Room(reader, k)
<1>1. PICK d \in Nat : more = k + d
  <2>1. more - k \in Nat /\ more = k + (more - k)
    OBVIOUS
  <2> QED BY <2>1
<1>2. PICK a, b, c : a = k * BlockSize /\ b = d * BlockSize /\ c = more * BlockSize
  OBVIOUS
<1>3. a \in Nat /\ b \in Nat /\ c = a + b
  <2>1. BlockSize \in Nat
    BY DEF BoundsAreNumbers
  <2>2. c = (k + d) * BlockSize
    BY <1>1, <1>2
  <2>3. (k + d) * BlockSize = k * BlockSize + d * BlockSize
    BY <2>1
  <2>4. k * BlockSize \in Nat /\ d * BlockSize \in Nat
    BY <2>1
  <2> QED BY <1>2, <2>2, <2>3, <2>4
<1>4. PICK http : http = reader.http
  OBVIOUS
<1>5. /\ http.bytes \in Nat /\ http.max_bytes \in Nat /\ http.requests \in Nat
      /\ http.max_requests \in Nat
  BY <1>4 DEF Budgets
<1>6. /\ ~http.late /\ http.requests + more <= http.max_requests
      /\ http.bytes + c <= http.max_bytes
  BY <1>2, <1>4 DEF Room
<1>7. http.requests + k <= http.max_requests
  BY <1>5, <1>6
<1>8. http.bytes + a <= http.max_bytes
  BY <1>3, <1>5, <1>6
<1> QED BY <1>2, <1>4, <1>6, <1>7, <1>8 DEF Room

\* One read of a session.
Exact(got, part) ==
  /\ ~got.failed => got.content = part
  /\ IsPrefix(got.content, part)
  /\ Len(got.reader.cache) <= CacheBlocks
  /\ got.reader.http.requests <= got.reader.http.max_requests

OneRead(got, reader, part, k, server, T, object, etag) ==
  /\ Exact(got, part) /\ Sound(got.reader, T, object, etag)
  /\ got.reader.http.max_bytes = reader.http.max_bytes
  /\ (Modest(server, object) /\ Paid(reader)) => Paid(got.reader)
  /\ (Honest(server, object, etag) /\ Room(reader, MaxRange + k)) =>
       (got.failed <=> Len(part) > MaxRange) /\ Room(got.reader, k)

LEMMA ReadIsOne ==
  ASSUME BoundsAreNumbers, BlockSize <= MaxRange, None \notin Nat, NEW T, NEW object \in Seq(T),
         NEW etag, NoneIsNoPart(T, etag), NEW server, Strong(server, T, object, etag),
         NEW reader, Sound(reader, T, object, etag), NEW op \in ReadRequests, NEW k \in Nat,
         NEW got, got = Http!Read(Http!Seek(reader, op.offset, 0), op.size, server)
  PROVE  OneRead(got, reader, PartOf(object, op), k, server, T, object, etag)
<1>1. PICK sought, part, asked, size :
        /\ sought = Http!Seek(reader, op.offset, 0) /\ part = PartOf(object, op)
        /\ asked = AskedOf(sought, op.size) /\ size = op.size
  OBVIOUS
<1>2. PICK offset : offset = op.offset
  OBVIOUS
<1>3. offset \in Nat /\ size \in Nat \cup {None} /\ sought = Http!Seek(reader, offset, 0)
  BY <1>1, <1>2 DEF ReadRequests
<1>4. /\ Sound(sought, T, object, etag) /\ sought.position = offset
      /\ sought.http = reader.http /\ sought.size = Len(object)
  <2>1. SoughtIn(sought, reader, offset, T, object, etag)
    BY <1>3, SoughtIsSound, Zenon
  <2> QED BY <2>1 DEF SoughtIn
<1>5. /\ asked \in Nat /\ part \in Seq(T) /\ Len(part) = asked
      /\ part = SubSeq(object, offset + 1, offset + asked)
  BY <1>1, <1>2, <1>4, PartIsAsked
<1>6. got = Http!Read(sought, size, server) /\ asked = AskedOf(sought, size)
  BY <1>1
<1>7. /\ Sound(got.reader, T, object, etag) /\ got.content \in Seq(T)
      /\ Len(got.content) <= asked
      /\ got.content = SubSeq(object, sought.position + 1, sought.position + Len(got.content))
      /\ ~got.failed => Len(got.content) = asked
      /\ asked > MaxRange => got.failed /\ got.content = <<>> /\ got.reader = sought
      /\ got.reader.http.max_bytes = sought.http.max_bytes
      /\ (Modest(server, object) /\ Paid(sought)) => Paid(got.reader)
  BY <1>3, <1>4, <1>6, ReadsAreExact
<1>8. PICK content, n : content = got.content /\ n = Len(got.content)
  OBVIOUS
<1>9. /\ content \in Seq(T) /\ n = Len(content) /\ n \in Nat /\ n <= asked
      /\ content = SubSeq(object, offset + 1, offset + n)
  BY <1>4, <1>7, <1>8
<1>10. ~got.failed => content = part
  <2>1. ASSUME ~got.failed PROVE content = part
    <3>1. n = asked
      BY <1>7, <1>8, <2>1
    <3> QED BY <1>5, <1>9, <3>1
  <2> QED BY <2>1
<1>11. IsPrefix(content, part)
  <2>1. /\ offset + asked <= Len(object) \/ asked = 0
    BY <1>1, <1>3, <1>4, AskedIsThere
  <2>2. CASE n = 0
    <3>1. SubSeq(content, 1, 0) = <<>> /\ SubSeq(part, 1, 0) = <<>>
      BY <1>5, <1>9
    <3> QED BY <1>5, <1>9, <2>2, <3>1 DEF IsPrefix
  <2>3. CASE n > 0
    <3>1. offset + asked <= Len(object) /\ offset + n <= Len(object)
      BY <1>3, <1>5, <1>9, <2>1, <2>3
    <3>2. \A i \in 1 .. n : content[i] = object[offset + i]
      BY <1>3, <1>9, <2>3, <3>1
    <3>3. \A i \in 1 .. n : part[i] = object[offset + i]
      BY <1>3, <1>5, <1>9, <2>3, <3>1
    <3>4. /\ SubSeq(content, 1, n) \in Seq(T) /\ Len(SubSeq(content, 1, n)) = n
          /\ \A i \in 1 .. n : SubSeq(content, 1, n)[i] = content[i]
      BY <1>9, <2>3
    <3>5. /\ SubSeq(part, 1, n) \in Seq(T) /\ Len(SubSeq(part, 1, n)) = n
          /\ \A i \in 1 .. n : SubSeq(part, 1, n)[i] = part[i]
      <4>1. part \in Seq(T) /\ n <= Len(part) /\ 1 <= n /\ n \in Nat
        BY <1>5, <1>9, <2>3
      <4> QED BY <4>1
    <3>6. SubSeq(content, 1, n) = SubSeq(part, 1, n)
      <4>1. PICK a, b : a = SubSeq(content, 1, n) /\ b = SubSeq(part, 1, n)
        OBVIOUS
      <4>2. a \in Seq(T) /\ b \in Seq(T) /\ Len(a) = n /\ Len(b) = n
            /\ \A i \in 1 .. n : a[i] = b[i]
        BY <3>2, <3>3, <3>4, <3>5, <4>1
      <4> QED BY <4>1, <4>2
    <3> QED BY <1>5, <1>9, <3>6 DEF IsPrefix
  <2> QED BY <1>9, <2>2, <2>3
<1>12. Exact(got, part)
  <2>1. Len(got.reader.cache) <= CacheBlocks
        /\ got.reader.http.requests <= got.reader.http.max_requests
    BY <1>7 DEF Sound
  <2> QED BY <1>8, <1>10, <1>11, <2>1 DEF Exact
<1>13. (Modest(server, object) /\ Paid(reader)) => Paid(got.reader)
  BY <1>4, <1>7 DEF Paid
<1>14. ASSUME Honest(server, object, etag), Room(reader, MaxRange + k)
       PROVE  (got.failed <=> Len(part) > MaxRange) /\ Room(got.reader, k)
  <2>1. Room(sought, MaxRange + k)
    BY <1>4, <1>14 DEF Room
  <2>2. MaxRange \in Nat /\ sought.http \in Budgets
    BY <1>4 DEF BoundsAreNumbers, Sound, Readers
  <2>3. CASE asked > MaxRange
    <3>1. got.failed /\ got.reader = sought
      BY <1>7, <2>3
    <3>2. Room(sought, k)
      <4>1. PICK more : more = MaxRange + k
        OBVIOUS
      <4>2. more \in Nat /\ k <= more
        BY <2>2, <4>1
      <4> QED BY <2>1, <2>2, <4>1, <4>2, RoomForLess
    <3> QED BY <1>5, <2>3, <3>1, <3>2
  <2>4. CASE asked <= MaxRange
    <3>1. Room(sought, asked + k)
      <4>1. PICK more, less : more = MaxRange + k /\ less = asked + k
        OBVIOUS
      <4>2. more \in Nat /\ less \in Nat /\ less <= more
        BY <1>5, <2>2, <2>4, <4>1
      <4> QED BY <2>1, <2>2, <4>1, <4>2, RoomForLess
    <3>2. ~got.failed /\ Room(got.reader, k)
      <4>1. AskedOf(sought, size) <= MaxRange /\ Room(sought, AskedOf(sought, size) + k)
        BY <1>6, <2>4, <3>1
      <4> QED BY <1>3, <1>4, <1>6, <1>14, <4>1, ReadsAreAnswered
    <3>3. ~(asked > MaxRange)
      BY <1>5, <2>2, <2>4
    <3> QED BY <1>5, <3>2, <3>3
  <2> QED BY <1>5, <2>2, <2>3, <2>4
<1>15. got.reader.http.max_bytes = reader.http.max_bytes
  BY <1>4, <1>7
<1> QED BY <1>1, <1>7, <1>12, <1>13, <1>14, <1>15 DEF OneRead

\* A session: each read is made by the reader that the one before it left.
ReadInTurn(session, ops, n, first, server) ==
  /\ session.readers[1] = first
  /\ \A i \in 1 .. n :
       /\ session.gots[i] =
            Http!Read(Http!Seek(session.readers[i], ops[i].offset, 0), ops[i].size, server)
       /\ session.readers[i + 1] = session.gots[i].reader

\* What is true of the reader that a session left, with so many reads to come.
Left(reader, first, k, server, T, object, etag) ==
  /\ Sound(reader, T, object, etag)
  /\ reader.http.max_bytes = first.http.max_bytes
  /\ (Modest(server, object) /\ Paid(first)) => Paid(reader)

ExactSession(session, ops, n, first, server, T, object, etag) ==
  \A i \in 1 .. n :
    /\ Exact(session.gots[i], PartOf(object, ops[i]))
    /\ (Modest(server, object) /\ Paid(first)) =>
         session.gots[i].reader.http.bytes <= first.http.max_bytes
    /\ (Honest(server, object, etag) /\ Room(first, n * MaxRange)) =>
         (session.gots[i].failed <=> Len(PartOf(object, ops[i])) > MaxRange)

\* Whatever a server sends, and however long a session of reads is: what is got
\* is the part of the pinned object that was asked for, or a beginning of it if
\* the read fails; requests, kept blocks and, from a server that sends no more
\* than asked, bytes stay within what was allowed. If the server is honest and
\* the budget large enough, only a read of more than MaxRange fails
\* (RangeFile.seek, RangeFile.read).
THEOREM SessionsAreExact ==
  ASSUME BoundsAreNumbers, BlockSize <= MaxRange, None \notin Nat, NEW T, NEW object \in Seq(T),
         NEW etag, NoneIsNoPart(T, etag), NEW server, Strong(server, T, object, etag),
         NEW first, Sound(first, T, object, etag), NEW n \in Nat,
         NEW ops, \A i \in 1 .. n : ops[i] \in ReadRequests,
         NEW session, ReadInTurn(session, ops, n, first, server)
  PROVE  ExactSession(session, ops, n, first, server, T, object, etag)
<1>1. MaxRange \in Nat
  BY DEF BoundsAreNumbers
<1>2. PICK S : S = {m \in Nat : m <= n =>
                 /\ Left(session.readers[m + 1], first, m, server, T, object, etag)
                 /\ (Honest(server, object, etag) /\ Room(first, n * MaxRange)) =>
                      Room(session.readers[m + 1], (n - m) * MaxRange)}
  OBVIOUS
<1>3. 0 \in S
  <2>1. 0 + 1 = 1 /\ n - 0 = n /\ session.readers[1] = first
    BY DEF ReadInTurn
  <2>2. Left(session.readers[0 + 1], first, 0, server, T, object, etag)
    BY <2>1 DEF Left
  <2> QED BY <1>2, <2>1, <2>2
<1>4. ASSUME NEW m \in Nat, m + 1 <= n, m \in S
      PROVE  \E reader, k :
               /\ reader = session.readers[m + 1] /\ k = (n - (m + 1)) * MaxRange /\ k \in Nat
               /\ Left(reader, first, m, server, T, object, etag)
               /\ (Honest(server, object, etag) /\ Room(first, n * MaxRange)) =>
                    Room(reader, MaxRange + k)
               /\ OneRead(session.gots[m + 1], reader, PartOf(object, ops[m + 1]), k,
                          server, T, object, etag)
  <2>1. PICK reader, i, got, op, k, j :
          /\ reader = session.readers[m + 1] /\ i = m + 1 /\ got = session.gots[m + 1]
          /\ op = ops[m + 1] /\ k = (n - (m + 1)) * MaxRange /\ j = n - (m + 1)
    OBVIOUS
  <2>2. i \in 1 .. n /\ m <= n /\ j \in Nat /\ n - m = j + 1
    BY <1>4, <2>1
  <2>3. k \in Nat /\ (n - m) * MaxRange = MaxRange + k
    <3>1. (j + 1) * MaxRange = MaxRange + j * MaxRange /\ j * MaxRange \in Nat
      BY <1>1, <2>2
    <3> QED BY <2>1, <2>2, <3>1
  <2>4. /\ Left(reader, first, m, server, T, object, etag)
        /\ (Honest(server, object, etag) /\ Room(first, n * MaxRange)) =>
             Room(reader, (n - m) * MaxRange)
    BY <1>2, <1>4, <2>1, <2>2
  <2>5. got = Http!Read(Http!Seek(reader, op.offset, 0), op.size, server) /\ op \in ReadRequests
    BY <2>1, <2>2 DEF ReadInTurn
  <2>6. OneRead(got, reader, PartOf(object, op), k, server, T, object, etag)
    BY <2>3, <2>4, <2>5, ReadIsOne, Zenon DEF Left
  <2> QED BY <2>1, <2>3, <2>4, <2>6
<1>5. ASSUME NEW m \in Nat, m \in S PROVE m + 1 \in S
  <2>1. CASE m + 1 <= n
    <3>1. PICK reader, k :
            /\ reader = session.readers[m + 1] /\ k = (n - (m + 1)) * MaxRange /\ k \in Nat
            /\ Left(reader, first, m, server, T, object, etag)
            /\ (Honest(server, object, etag) /\ Room(first, n * MaxRange)) =>
                 Room(reader, MaxRange + k)
            /\ OneRead(session.gots[m + 1], reader, PartOf(object, ops[m + 1]), k,
                       server, T, object, etag)
      BY <1>4, <1>5, <2>1
    <3>2. PICK i : i = m + 1
      OBVIOUS
    <3>3. i \in 1 .. n /\ session.readers[i + 1] = session.gots[i].reader
      BY <2>1, <3>2 DEF ReadInTurn
    <3>4. Left(session.readers[i + 1], first, i, server, T, object, etag)
      BY <3>1, <3>2, <3>3 DEF Left, OneRead
    <3>5. (Honest(server, object, etag) /\ Room(first, n * MaxRange)) =>
             Room(session.readers[i + 1], k)
      BY <3>1, <3>2, <3>3 DEF OneRead
    <3>6. i \in Nat /\ k = (n - i) * MaxRange
      BY <3>1, <3>2
    <3> QED BY <1>2, <3>2, <3>4, <3>5, <3>6
  <2>2. CASE ~(m + 1 <= n)
    BY <1>2, <2>2
  <2> QED BY <2>1, <2>2
<1>6. Nat \subseteq S
  BY <1>3, <1>5, AllNumbers
<1>7. ASSUME NEW i \in 1 .. n
      PROVE  /\ Exact(session.gots[i], PartOf(object, ops[i]))
             /\ (Modest(server, object) /\ Paid(first)) =>
                  session.gots[i].reader.http.bytes <= first.http.max_bytes
             /\ (Honest(server, object, etag) /\ Room(first, n * MaxRange)) =>
                  (session.gots[i].failed <=> Len(PartOf(object, ops[i])) > MaxRange)
  <2>1. PICK m : m = i - 1
    OBVIOUS
  <2>2. m \in Nat /\ m + 1 <= n /\ i = m + 1 /\ m \in S
    BY <1>6, <2>1
  <2>3. PICK reader, k :
          /\ Left(reader, first, m, server, T, object, etag)
          /\ (Honest(server, object, etag) /\ Room(first, n * MaxRange)) =>
               Room(reader, MaxRange + k)
          /\ OneRead(session.gots[i], reader, PartOf(object, ops[i]), k, server, T, object, etag)
    BY <1>4, <2>2
  <2> QED BY <2>3 DEF OneRead, Left, Paid
<1> QED BY <1>7 DEF ExactSession

-------------------------------------------------------------------------------
(* Windows of an image *)

Quotient(n, d, q, r) == q \in Nat /\ r \in 0 .. (d - 1) /\ n = q * d + r

LEMMA QuotientAndRest ==
  ASSUME NEW n \in Nat, NEW d \in Nat \ {0}, NEW q, q = n \div d, NEW r, r = n % d
  PROVE  Quotient(n, d, q, r)
<1>1. q \in Nat /\ r \in Nat /\ r < d /\ q * d + r = n
  OBVIOUS
<1> QED BY <1>1 DEF Quotient

LEMMA OneQuotient ==
  ASSUME NEW d \in Nat \ {0}, NEW q \in Nat, NEW r \in 0 .. (d - 1),
         NEW p \in Nat, NEW s \in 0 .. (d - 1), q * d + r = p * d + s
  PROVE  q = p /\ r = s
<1>1. PICK u, v : u = q * d /\ v = p * d
  OBVIOUS
<1>2. u \in Nat /\ v \in Nat /\ u + r = v + s
  BY <1>1
<1>3. ~(q < p)
  <2> SUFFICES ASSUME q < p PROVE FALSE
    OBVIOUS
  <2>1. (q + 1) * d <= p * d
    BY Multiplied
  <2>2. (q + 1) * d = u + d
    BY <1>1
  <2> QED BY <1>1, <1>2, <2>1, <2>2
<1>4. ~(p < q)
  <2> SUFFICES ASSUME p < q PROVE FALSE
    OBVIOUS
  <2>1. (p + 1) * d <= q * d
    BY Multiplied
  <2>2. (p + 1) * d = v + d
    BY <1>1
  <2> QED BY <1>1, <1>2, <2>1, <2>2
<1>5. q = p
  BY <1>3, <1>4
<1> QED BY <1>1, <1>2, <1>5

\* The places of a table of so many columns and rows, and their numbers.
LEMMA PlaceOfNumber ==
  ASSUME NEW columns \in Nat \ {0}, NEW rows \in Nat \ {0}, NEW n \in 0 .. (rows * columns - 1)
  PROVE  n % columns \in 0 .. (columns - 1) /\ n \div columns \in 0 .. (rows - 1)
<1>1. PICK total, q, r : total = rows * columns /\ q = n \div columns /\ r = n % columns
  OBVIOUS
<1>2. /\ total \in Nat /\ n \in Nat /\ n < total
  BY <1>1
<1>3. q \in Nat /\ r \in 0 .. (columns - 1) /\ n = q * columns + r
  <2>1. Quotient(n, columns, q, r)
    BY <1>1, <1>2, QuotientAndRest
  <2> QED BY <2>1 DEF Quotient
<1>4. q < rows
  <2> SUFFICES ASSUME rows <= q PROVE FALSE
    BY <1>3
  <2>1. rows * columns <= q * columns
    BY <1>3, Multiplied
  <2>2. q * columns \in Nat
    BY <1>3
  <2> QED BY <1>1, <1>2, <1>3, <2>1, <2>2
<1> QED BY <1>1, <1>3, <1>4

Placed(n, columns, c, r) == n % columns = c /\ n \div columns = r

LEMMA NumberOfPlace ==
  ASSUME NEW columns \in Nat \ {0}, NEW rows \in Nat \ {0},
         NEW c \in 0 .. (columns - 1), NEW r \in 0 .. (rows - 1), NEW n, n = r * columns + c
  PROVE  n \in 0 .. (rows * columns - 1) /\ Placed(n, columns, c, r)
<1>1. r * columns \in Nat /\ rows * columns \in Nat /\ n \in Nat
  OBVIOUS
<1>2. (r + 1) * columns <= rows * columns
  BY Multiplied
<1>3. (r + 1) * columns = r * columns + columns
  OBVIOUS
<1>4. PICK q, s : q = n \div columns /\ s = n % columns
  OBVIOUS
<1>5. n \div columns = r /\ n % columns = c
  <2>0. Quotient(n, columns, q, s)
    BY <1>1, <1>4, QuotientAndRest
  <2>1. q \in Nat /\ s \in 0 .. (columns - 1) /\ n = q * columns + s
    BY <2>0 DEF Quotient
  <2>2. q * columns + s = r * columns + c /\ r \in Nat
    BY <2>1
  <2>3. q = r /\ s = c
    BY <2>1, <2>2, OneQuotient
  <2> QED BY <1>4, <2>3
<1>6. n < rows * columns
  <2>1. PICK u, v : u = r * columns /\ v = rows * columns
    OBVIOUS
  <2> QED BY <1>1, <1>2, <1>3, <2>1
<1> QED BY <1>1, <1>5, <1>6 DEF Placed

LEMMA LesserOfTwo ==
  ASSUME NEW a \in Int, NEW b \in Int
  PROVE  Large!Min({a, b}) \in {a, b} /\ Large!Min({a, b}) <= a /\ Large!Min({a, b}) <= b
BY DEF Large!Min

LEMMA TilesOfLength ==
  ASSUME NEW n \in Nat \ {0}
  PROVE  /\ Large!Tiles(n) \in Nat \ {0}
         /\ \A c \in 0 .. (Large!Tiles(n) - 1) : 2 * c < n
         /\ \A x \in 0 .. (n - 1) : x \div 2 \in 0 .. (Large!Tiles(n) - 1)
BY DEF Large!Tiles, Large!TileSize

\* An image has pixels.
Measured(image) == image.width \in Nat \ {0} /\ image.height \in Nat \ {0}

WindowRecords == [column : Nat, row : Nat, width : Nat \ {0}, height : Nat \ {0}]

\* A window of an image at a place of its grid.
Clipped(window, image, c, r) ==
  /\ window \in WindowRecords /\ window.column = 2 * c /\ window.row = 2 * r
  /\ window.width <= 2 /\ window.height <= 2
  /\ window.column + window.width <= image.width
  /\ window.row + window.height <= image.height
  /\ window.width = 2 \/ window.column + window.width = image.width
  /\ window.height = 2 \/ window.row + window.height = image.height

LEMMA PlaceIsClipped ==
  ASSUME NEW image, Measured(image), NEW c \in 0 .. (Large!Tiles(image.width) - 1),
         NEW r \in 0 .. (Large!Tiles(image.height) - 1)
  PROVE  Clipped(Large!Window(image, c, r), image, c, r)
<1>1. PICK width, height, across, down :
        width = image.width /\ height = image.height /\ across = 2 * c /\ down = 2 * r
  OBVIOUS
<1>2. /\ width \in Nat \ {0} /\ height \in Nat \ {0} /\ across \in Nat /\ down \in Nat
      /\ across < width /\ down < height
  BY <1>1, TilesOfLength DEF Measured
<1>3. PICK right, below : right = width - across /\ below = height - down
  OBVIOUS
<1>4. right \in Int /\ below \in Int /\ 2 \in Int
  BY <1>2, <1>3
<1>5. PICK w, h : w = Large!Min({2, right}) /\ h = Large!Min({2, below})
  OBVIOUS
<1>6. /\ w \in {2, right} /\ w <= 2 /\ w <= right
      /\ h \in {2, below} /\ h <= 2 /\ h <= below
  BY <1>4, <1>5, LesserOfTwo, Zenon
<1>7. Large!Window(image, c, r) = [column |-> across, row |-> down, width |-> w, height |-> h]
  <2>1. c * 2 = across /\ r * 2 = down
    BY <1>1
  <2> QED BY <1>1, <1>3, <1>5, <2>1 DEF Large!Window, Large!TileSize
<1>8. w \in Nat \ {0} /\ h \in Nat \ {0} /\ across + w <= width /\ down + h <= height
      /\ (w = 2 \/ across + w = width) /\ (h = 2 \/ down + h = height)
  BY <1>2, <1>3, <1>6
<1> QED BY <1>1, <1>2, <1>6, <1>7, <1>8 DEF Clipped, WindowRecords

\* The window of an index lies where the index says.
LEMMA IndexIsClipped ==
  ASSUME NEW image, Measured(image), NEW index \in 0 .. (Large!TileCount(image) - 1),
         NEW c, c = index % Large!Tiles(image.width), NEW r, r = index \div Large!Tiles(image.width)
  PROVE  /\ c \in 0 .. (Large!Tiles(image.width) - 1) /\ r \in 0 .. (Large!Tiles(image.height) - 1)
         /\ index = r * Large!Tiles(image.width) + c
         /\ Large!WindowAt(image, index) = Large!Window(image, c, r)
         /\ Clipped(Large!WindowAt(image, index), image, c, r)
<1>1. PICK across, down : across = Large!Tiles(image.width) /\ down = Large!Tiles(image.height)
  OBVIOUS
<1>2. across \in Nat \ {0} /\ down \in Nat \ {0}
  BY <1>1, TilesOfLength DEF Measured
<1>3. Large!TileCount(image) = down * across
  BY <1>1, <1>2 DEF Large!TileCount
<1>4. index \in 0 .. (down * across - 1)
  BY <1>3
<1>5. c \in 0 .. (across - 1) /\ r \in 0 .. (down - 1)
  BY <1>1, <1>2, <1>4, PlaceOfNumber
<1>6. index \in Nat
  BY <1>2, <1>4
<1>7. index = r * across + c
  <2>1. Quotient(index, across, r, c)
    BY <1>1, <1>2, <1>6, QuotientAndRest
  <2> QED BY <2>1 DEF Quotient
<1>8. Large!WindowAt(image, index) = Large!Window(image, c, r)
  BY DEF Large!WindowAt
<1> QED BY <1>1, <1>5, <1>7, <1>8, PlaceIsClipped

\* Different indices, different windows.
LEMMA WindowsDiffer ==
  ASSUME NEW image, Measured(image), NEW i \in 0 .. (Large!TileCount(image) - 1),
         NEW j \in 0 .. (Large!TileCount(image) - 1),
         Large!WindowAt(image, i) = Large!WindowAt(image, j)
  PROVE  i = j
<1>1. PICK across, c, r, d, s : /\ across = Large!Tiles(image.width)
                                /\ c = i % across /\ r = i \div across
                                /\ d = j % across /\ s = j \div across
  OBVIOUS
<1>2. PICK w : w = Large!WindowAt(image, i)
  OBVIOUS
<1>3. Clipped(w, image, c, r) /\ i = r * across + c /\ c \in Int /\ r \in Int
  BY <1>1, <1>2, IndexIsClipped
<1>4. Clipped(w, image, d, s) /\ j = s * across + d /\ d \in Int /\ s \in Int
  BY <1>1, <1>2, IndexIsClipped
<1>5. c = d /\ r = s
  BY <1>3, <1>4 DEF Clipped
<1> QED BY <1>3, <1>4, <1>5

LEMMA TileCountIs ==
  ASSUME NEW image, Measured(image)
  PROVE  Large!TileCount(image) \in Nat \ {0}
<1>1. PICK a, b : a = Large!Tiles(image.width) /\ b = Large!Tiles(image.height)
  OBVIOUS
<1>2. a \in Nat \ {0} /\ b \in Nat \ {0}
  BY <1>1, TilesOfLength DEF Measured
<1>3. a * b \in Nat \ {0}
  <2>1. 1 * b <= a * b
    BY <1>2, Multiplied
  <2> QED BY <1>2, <2>1
<1> QED BY <1>1, <1>3 DEF Large!TileCount

\* Rows of equal length, one after the other.
RowsJoined(rows, m, n) ==
  [k \in 1 .. (m * n) |-> rows[((k - 1) \div n) + 1][((k - 1) % n) + 1]]

Joins(joined, rows, m, n) == joined = [i \in 1 .. m |-> RowsJoined(rows, i, n)]

NextRow(rows, i, n) == RowsJoined(rows, i, n) = RowsJoined(rows, i - 1, n) \o rows[i]

LEMMA OneMoreRow ==
  ASSUME NEW m \in Nat, NEW n \in Nat \ {0}, NEW S, NEW rows, DOMAIN rows = 1 .. m,
         \A i \in 1 .. m : rows[i] \in [1 .. n -> S], NEW i \in 2 .. m
  PROVE  NextRow(rows, i, n)
<1>1. PICK a, b, p, row : /\ a = (i - 1) * n /\ b = i * n
                          /\ p = RowsJoined(rows, i - 1, n) /\ row = rows[i]
  OBVIOUS
<1>2. a \in Nat /\ b \in Nat /\ b = a + n /\ i \in Nat /\ i - 1 \in Nat /\ i - 1 >= 1
  BY <1>1
<1>3. row \in Seq(S) /\ Len(row) = n
  BY <1>1
<1>4. ASSUME NEW h \in 1 .. m, NEW k \in 1 .. (h * n)
      PROVE  (k - 1) \div n \in 0 .. (h - 1) /\ (k - 1) % n \in 0 .. (n - 1)
  <2>1. PICK j, q, r : j = k - 1 /\ q = j \div n /\ r = j % n
    OBVIOUS
  <2>2. h \in Nat \ {0} /\ h * n \in Nat
    OBVIOUS
  <2>3. j \in 0 .. (h * n - 1) /\ j \in Nat
    BY <2>1, <2>2
  <2>4. r \in 0 .. (n - 1) /\ q \in 0 .. (h - 1)
    BY <2>1, <2>2, <2>3, PlaceOfNumber
  <2> QED BY <2>1, <2>4
<1>5. p \in Seq(S) /\ Len(p) = a
  <2>1. ASSUME NEW k \in 1 .. a PROVE rows[((k - 1) \div n) + 1][((k - 1) % n) + 1] \in S
    <3>1. i - 1 \in 1 .. m /\ k \in 1 .. ((i - 1) * n)
      BY <1>1, <1>2
    <3>2. PICK q, r : q = (k - 1) \div n /\ r = (k - 1) % n
      OBVIOUS
    <3>3. q \in 0 .. (i - 1 - 1) /\ r \in 0 .. (n - 1)
      BY <1>4, <3>1, <3>2
    <3>4. q + 1 \in 1 .. m /\ r + 1 \in 1 .. n
      BY <1>2, <3>3
    <3> QED BY <3>2, <3>4
  <2>2. p = [k \in 1 .. a |-> rows[((k - 1) \div n) + 1][((k - 1) % n) + 1]]
    BY <1>1 DEF RowsJoined
  <2>3. p \in [1 .. a -> S]
    BY <2>1, <2>2
  <2> QED BY <1>2, <2>3
<1>6. PICK joined : joined = p \o row
  OBVIOUS
<1>7. /\ joined \in Seq(S) /\ Len(joined) = b /\ DOMAIN joined = 1 .. b
      /\ \A k \in 1 .. a : joined[k] = p[k]
      /\ \A k \in (a + 1) .. b : joined[k] = row[k - a]
  <2>1. p \in Seq(S) /\ row \in Seq(S) /\ Len(p) = a /\ Len(row) = n /\ a \in Nat
    BY <1>2, <1>3, <1>5
  <2>2. joined \in Seq(S) /\ Len(joined) = a + n
    BY <1>6, <2>1, ConcatProperties
  <2>3. \A k \in 1 .. a : joined[k] = p[k]
    BY <1>6, <2>1
  <2>4. \A k \in (a + 1) .. (a + n) : joined[k] = row[k - a]
    <3> SUFFICES ASSUME NEW k \in (a + 1) .. (a + n) PROVE joined[k] = row[k - a]
      OBVIOUS
    <3>1. k \in 1 .. (Len(p) + Len(row)) /\ ~(k <= Len(p))
      BY <2>1
    <3>2. (p \o row)[k] = row[k - Len(p)]
      BY <2>1, <3>1, ConcatProperties
    <3> QED BY <1>6, <2>1, <3>2
  <2>5. b = a + n
    BY <1>2
  <2> QED BY <2>2, <2>3, <2>4, <2>5
<1>8. ASSUME NEW k \in 1 .. b
      PROVE  joined[k] = rows[((k - 1) \div n) + 1][((k - 1) % n) + 1]
  <2>1. CASE k <= a
    <3>1. k \in 1 .. a
      BY <1>2, <2>1
    <3>2. joined[k] = p[k]
      BY <1>7, <3>1
    <3>3. p = [l \in 1 .. a |-> rows[((l - 1) \div n) + 1][((l - 1) % n) + 1]]
      BY <1>1 DEF RowsJoined
    <3> QED BY <3>1, <3>2, <3>3
  <2>2. CASE k > a
    <3>1. PICK c, j : c = k - a - 1 /\ j = k - 1
      OBVIOUS
    <3>2. c \in 0 .. (n - 1) /\ c + 1 = k - a /\ c + 1 \in 1 .. n /\ j = a + c
      BY <1>2, <2>2, <3>1
    <3>3. joined[k] = row[c + 1]
      <4>1. joined[k] = row[k - a]
        BY <1>2, <1>7, <2>2
      <4> QED BY <3>2, <4>1
    <3>4. PICK q : q = i - 1
      OBVIOUS
    <3>5. q \in 0 .. (i - 1) /\ i \in Nat \ {0} /\ j = q * n + c
      BY <1>1, <1>2, <3>2, <3>4
    <3>6. Placed(j, n, c, q)
      <4>1. n \in Nat \ {0} /\ i \in Nat \ {0} /\ c \in 0 .. (n - 1) /\ q \in 0 .. (i - 1)
            /\ j = q * n + c
        BY <3>2, <3>5
      <4> QED BY <4>1, NumberOfPlace
    <3>7. j % n = c /\ j \div n = q
      BY <3>6 DEF Placed
    <3>8. (k - 1) % n = c /\ (k - 1) \div n = q
      BY <3>1, <3>7, Zenon
    <3>9. q + 1 = i
      BY <1>2, <3>4
    <3>10. joined[k] = rows[q + 1][c + 1]
      BY <1>1, <3>3, <3>9
    <3> QED BY <3>8, <3>10, Zenon
  <2> QED BY <1>2, <2>1, <2>2
<1>9. RowsJoined(rows, i, n) = [k \in 1 .. b |-> rows[((k - 1) \div n) + 1][((k - 1) % n) + 1]]
  BY <1>1 DEF RowsJoined
<1>10. joined = [k \in 1 .. b |-> joined[k]]
  BY <1>7
<1> QED BY <1>1, <1>6, <1>8, <1>9, <1>10 DEF NextRow

LEMMA RowsAreJoined ==
  ASSUME NEW m \in Nat \ {0}, NEW n \in Nat \ {0}, NEW S, NEW rows, DOMAIN rows = 1 .. m,
         rows \in Seq([1 .. n -> S]), \A i \in 1 .. m : rows[i] \in [1 .. n -> S], Len(rows) = m
  PROVE  Large!FlattenSeq(rows) = RowsJoined(rows, m, n)
<1> DEFINE Flattens(f) == f = [i \in 1 .. m |-> IF i = 1 THEN rows[i] ELSE f[i - 1] \o rows[i]]
<1>1. PICK joined : joined = [i \in 1 .. m |-> RowsJoined(rows, i, n)]
  OBVIOUS
<1>2. RowsJoined(rows, 1, n) = rows[1]
  <2>1. RowsJoined(rows, 1, n) = [k \in 1 .. n |-> rows[((k - 1) \div n) + 1][((k - 1) % n) + 1]]
    <3>1. 1 * n = n
      OBVIOUS
    <3> QED BY <3>1 DEF RowsJoined
  <2>2. ASSUME NEW k \in 1 .. n
        PROVE  rows[((k - 1) \div n) + 1][((k - 1) % n) + 1] = rows[1][k]
    <3>1. PICK j : j = k - 1
      OBVIOUS
    <3>2. 0 \in 0 .. (1 - 1) /\ 1 \in Nat \ {0} /\ j \in 0 .. (n - 1) /\ j = 0 * n + j
      BY <3>1
    <3>3. j % n = j /\ j \div n = 0
      BY <3>2, NumberOfPlace DEF Placed
    <3> QED BY <3>1, <3>2, <3>3
  <2>3. rows[1] = [k \in 1 .. n |-> rows[1][k]]
    OBVIOUS
  <2> QED BY <2>1, <2>2, <2>3
<1>3. Flattens(joined)
  <2>1. ASSUME NEW i \in 1 .. m
        PROVE  joined[i] = IF i = 1 THEN rows[i] ELSE joined[i - 1] \o rows[i]
    <3>1. CASE i = 1
      BY <1>1, <1>2, <3>1
    <3>2. CASE i # 1
      <4>1. i \in 2 .. m /\ i - 1 \in 1 .. m /\ m \in Nat
        BY <3>2
      <4>2. RowsJoined(rows, i, n) = RowsJoined(rows, i - 1, n) \o rows[i]
        <5>1. NextRow(rows, i, n)
          BY <4>1, OneMoreRow
        <5> QED BY <5>1 DEF NextRow
      <4>3. joined[i] = RowsJoined(rows, i, n) /\ joined[i - 1] = RowsJoined(rows, i - 1, n)
        BY <1>1, <4>1
      <4> QED BY <3>2, <4>2, <4>3
    <3> QED BY <3>1, <3>2
  <2>2. joined = [i \in 1 .. m |-> joined[i]]
    BY <1>1
  <2> QED BY <2>1, <2>2
<1>4. PICK f : f = CHOOSE g : Flattens(g)
  BY Zenon
<1>5. Flattens(f)
  BY <1>3, <1>4, Zenon
<1>6. PICK T : T = {k \in Nat : k + 1 \in 1 .. m => f[k + 1] = joined[k + 1]}
  OBVIOUS
<1>7. 0 \in T
  <2>1. 1 \in 1 .. m
    OBVIOUS
  <2>2. f[1] = rows[1] /\ joined[1] = rows[1]
    BY <1>3, <1>5, <2>1
  <2> QED BY <1>6, <2>2
<1>8. ASSUME NEW k \in Nat, k \in T PROVE k + 1 \in T
  <2>1. CASE k + 2 \in 1 .. m
    <3>1. PICK i : i = k + 2
      OBVIOUS
    <3>2. i \in 1 .. m /\ i # 1 /\ i - 1 = k + 1 /\ k + 1 \in 1 .. m
      BY <2>1, <3>1
    <3>3. f[i] = f[i - 1] \o rows[i] /\ joined[i] = joined[i - 1] \o rows[i]
      BY <1>3, <1>5, <3>2
    <3>4. f[i - 1] = joined[i - 1]
      BY <1>6, <1>8, <3>2
    <3>5. f[i] = joined[i]
      BY <3>3, <3>4
    <3>6. (k + 1) + 1 = i /\ k + 1 \in Nat
      BY <3>1
    <3> QED BY <1>6, <3>5, <3>6
  <2>2. CASE ~(k + 2 \in 1 .. m)
    <3>1. (k + 1) + 1 = k + 2 /\ k + 1 \in Nat
      OBVIOUS
    <3> QED BY <1>6, <2>2, <3>1
  <2> QED BY <2>1, <2>2
<1>9. f[m] = joined[m]
  <2>1. m - 1 \in Nat
    OBVIOUS
  <2>2. m - 1 \in T
    BY <1>7, <1>8, <2>1, AllNumbers
  <2>3. (m - 1) + 1 = m /\ m \in 1 .. m
    OBVIOUS
  <2> QED BY <1>6, <2>2, <2>3
<1>10. Large!FlattenSeq(rows) = f[m]
  <2>1. Len(rows) # 0
    OBVIOUS
  <2> QED BY <1>4, <2>1 DEF Large!FlattenSeq
<1>11. joined[m] = RowsJoined(rows, m, n)
  BY <1>1
<1> QED BY <1>9, <1>10, <1>11

\* The grid of an image, by its indices.
Gridded(grid, image) ==
  /\ grid \in Seq(WindowRecords) /\ Len(grid) = Large!TileCount(image)
  /\ \A i \in 1 .. Large!TileCount(image) : grid[i] = Large!WindowAt(image, i - 1)

LEMMA GridIsWindows ==
  ASSUME NEW image, Measured(image)
  PROVE  Gridded(Large!GridWindows(image), image)
<1>1. PICK m, n : m = Large!Tiles(image.height) /\ n = Large!Tiles(image.width)
  OBVIOUS
<1>2. m \in Nat \ {0} /\ n \in Nat \ {0}
  BY <1>1, TilesOfLength DEF Measured
<1>3. PICK rows : rows = [r \in 1 .. m |-> [c \in 1 .. n |-> Large!Window(image, c - 1, r - 1)]]
  OBVIOUS
<1>4. ASSUME NEW c \in 0 .. (n - 1), NEW r \in 0 .. (m - 1)
      PROVE  Large!Window(image, c, r) \in WindowRecords
  <2>1. Clipped(Large!Window(image, c, r), image, c, r)
    BY <1>1, PlaceIsClipped
  <2> QED BY <2>1 DEF Clipped
<1>5. \A r \in 1 .. m : rows[r] \in [1 .. n -> WindowRecords]
  <2> SUFFICES ASSUME NEW r \in 1 .. m PROVE rows[r] \in [1 .. n -> WindowRecords]
    OBVIOUS
  <2>1. rows[r] = [c \in 1 .. n |-> Large!Window(image, c - 1, r - 1)]
    BY <1>3
  <2>2. ASSUME NEW c \in 1 .. n PROVE Large!Window(image, c - 1, r - 1) \in WindowRecords
    <3>1. PICK b, q : b = c - 1 /\ q = r - 1
      OBVIOUS
    <3>2. b \in 0 .. (n - 1) /\ q \in 0 .. (m - 1)
      BY <1>2, <3>1
    <3> QED BY <1>4, <3>1, <3>2
  <2> QED BY <2>1, <2>2
<1>6. /\ DOMAIN rows = 1 .. m /\ Len(rows) = m
      /\ rows \in Seq([1 .. n -> WindowRecords])
  <2>1. DOMAIN rows = 1 .. m
    BY <1>3
  <2>2. rows = [r \in 1 .. m |-> rows[r]]
    BY <1>3, <2>1
  <2> QED BY <1>2, <1>5, <2>1, <2>2
<1>7. Large!GridWindows(image) = Large!FlattenSeq(rows)
  BY <1>1, <1>3 DEF Large!GridWindows
<1>8. PICK grid : grid = Large!GridWindows(image)
  OBVIOUS
<1>9. grid = RowsJoined(rows, m, n)
  BY <1>2, <1>5, <1>6, <1>7, <1>8, RowsAreJoined
<1>10. PICK total : total = m * n
  OBVIOUS
<1>11. total = Large!TileCount(image) /\ total \in Nat
  BY <1>1, <1>2, <1>10 DEF Large!TileCount
<1>12. grid = [k \in 1 .. total |-> rows[((k - 1) \div n) + 1][((k - 1) % n) + 1]]
  BY <1>9, <1>10 DEF RowsJoined
<1>13. ASSUME NEW k \in 1 .. total
       PROVE  grid[k] = Large!WindowAt(image, k - 1) /\ grid[k] \in WindowRecords
  <2>1. PICK j, q, c : j = k - 1 /\ q = j \div n /\ c = j % n
    OBVIOUS
  <2>2. j \in 0 .. (m * n - 1)
    BY <1>10, <1>11, <2>1
  <2>3. c \in 0 .. (n - 1) /\ q \in 0 .. (m - 1)
    BY <1>2, <2>1, <2>2, PlaceOfNumber
  <2>4. grid[k] = rows[q + 1][c + 1]
    BY <1>12, <2>1, Zenon
  <2>5. /\ q + 1 \in 1 .. m /\ c + 1 \in 1 .. n /\ (q + 1) - 1 = q /\ (c + 1) - 1 = c
    BY <1>2, <2>3
  <2>6. rows[q + 1][c + 1] = Large!Window(image, c, q)
    BY <1>3, <2>5
  <2>7. Large!WindowAt(image, j) = Large!Window(image, c, q)
    BY <1>1, <2>1 DEF Large!WindowAt
  <2> QED BY <1>4, <2>1, <2>3, <2>4, <2>6, <2>7
<1>14. grid \in Seq(WindowRecords) /\ Len(grid) = total
  <2>1. grid = [k \in 1 .. total |-> grid[k]]
    BY <1>12
  <2> QED BY <1>11, <1>13, <2>1
<1> QED BY <1>8, <1>11, <1>13, <1>14 DEF Gridded

LEMMA CellsOfWindow ==
  ASSUME NEW image, Measured(image), NEW c \in Int, NEW r \in Int,
         NEW window, Clipped(window, image, c, r), NEW cell \in Cells(window)
  PROVE  /\ cell \in (0 .. (image.width - 1)) \X (0 .. (image.height - 1))
         /\ cell[1] \div 2 = c /\ cell[2] \div 2 = r
<1>1. PICK x, y, w, h, width, height :
        /\ x = cell[1] /\ y = cell[2] /\ w = window.width /\ h = window.height
        /\ width = image.width /\ height = image.height
  OBVIOUS
<1>2. /\ cell = <<x, y>> /\ width \in Nat /\ height \in Nat /\ w \in Nat /\ h \in Nat
      /\ window.column = 2 * c /\ window.row = 2 * r /\ 2 * c \in Nat /\ 2 * r \in Nat
      /\ w <= 2 /\ h <= 2 /\ 2 * c + w <= width /\ 2 * r + h <= height
      /\ x \in (2 * c) .. (2 * c + w - 1) /\ y \in (2 * r) .. (2 * r + h - 1)
  BY <1>1 DEF Cells, Clipped, WindowRecords, Measured
<1>3. x \in 0 .. (width - 1) /\ y \in 0 .. (height - 1)
  BY <1>2
<1>4. x \div 2 = c /\ y \div 2 = r
  BY <1>2
<1> QED BY <1>1, <1>2, <1>3, <1>4

LEMMA WindowOfCell ==
  ASSUME NEW image, Measured(image),
         NEW x \in 0 .. (image.width - 1), NEW y \in 0 .. (image.height - 1)
  PROVE  \E i \in 0 .. (Large!TileCount(image) - 1) :
           <<x, y>> \in Cells(Large!WindowAt(image, i))
<1>1. PICK m, n, c, r : /\ m = Large!Tiles(image.height) /\ n = Large!Tiles(image.width)
                        /\ c = x \div 2 /\ r = y \div 2
  OBVIOUS
<1>2. m \in Nat \ {0} /\ n \in Nat \ {0} /\ c \in 0 .. (n - 1) /\ r \in 0 .. (m - 1)
  BY <1>1, TilesOfLength DEF Measured
<1>3. PICK i : i = r * n + c
  OBVIOUS
<1>4. i \in 0 .. (m * n - 1) /\ Placed(i, n, c, r)
  BY <1>2, <1>3, NumberOfPlace
<1>5. Large!TileCount(image) = m * n
  BY <1>1, <1>2 DEF Large!TileCount
<1>6. PICK w : w = Large!WindowAt(image, i)
  OBVIOUS
<1>7. w = Large!Window(image, c, r)
  BY <1>1, <1>4, <1>6 DEF Large!WindowAt, Placed
<1>8. Clipped(w, image, c, r)
  BY <1>1, <1>2, <1>7, PlaceIsClipped
<1>9. /\ x \in (2 * c) .. (2 * c + 1) /\ y \in (2 * r) .. (2 * r + 1)
      /\ c \in Int /\ r \in Int /\ x \in Int /\ y \in Int
      /\ image.width \in Int /\ image.height \in Int /\ x < image.width /\ y < image.height
  BY <1>1, <1>2 DEF Measured
<1>10. /\ x \in w.column .. (w.column + w.width - 1)
       /\ y \in w.row .. (w.row + w.height - 1)
  BY <1>8, <1>9 DEF Clipped, WindowRecords
<1>11. <<x, y>> \in Cells(w)
  BY <1>10 DEF Cells
<1> QED BY <1>4, <1>5, <1>6, <1>11

\* The windows of an image of any size share no pixel, leave none out, and are
\* found by their index (core/data/raster_windows.py, iter_grid_windows, _window_at).
THEOREM ImagesAreTiled ==
  ASSUME NEW image, Measured(image)
  PROVE  Tiled(image)
<1>1. PICK grid, n : grid = Large!GridWindows(image) /\ n = Large!TileCount(image)
  OBVIOUS
<1>2. Gridded(grid, image) /\ n \in Nat \ {0}
  BY <1>1, GridIsWindows, TileCountIs
<1>3. DOMAIN grid = 1 .. n /\ Len(grid) = n /\ \A i \in 1 .. n : grid[i] = Large!WindowAt(image, i - 1)
  BY <1>1, <1>2 DEF Gridded
<1>4. ASSUME NEW i \in 1 .. n
      PROVE  \E c, r \in Int :
               /\ Clipped(grid[i], image, c, r) /\ i - 1 = r * Large!Tiles(image.width) + c
  <2>1. PICK j, c, r : /\ j = i - 1
                       /\ c = j % Large!Tiles(image.width) /\ r = j \div Large!Tiles(image.width)
    OBVIOUS
  <2>2. j \in 0 .. (Large!TileCount(image) - 1)
    BY <1>1, <1>2, <2>1
  <2>3. /\ c \in 0 .. (Large!Tiles(image.width) - 1) /\ r \in 0 .. (Large!Tiles(image.height) - 1)
        /\ j = r * Large!Tiles(image.width) + c
        /\ Clipped(Large!WindowAt(image, j), image, c, r)
    BY <2>1, <2>2, IndexIsClipped
  <2>4. grid[i] = Large!WindowAt(image, j)
    BY <1>3, <2>1
  <2>5. c \in Int /\ r \in Int
    BY <2>3
  <2> QED BY <2>1, <2>3, <2>4, <2>5
<1>5. PICK all : all = (0 .. (image.width - 1)) \X (0 .. (image.height - 1))
  OBVIOUS
<1>6. \A i \in 1 .. n : \A cell \in Cells(grid[i]) : cell \in all
  BY <1>4, <1>5, CellsOfWindow
<1>7. \A cell \in all : \E i \in 1 .. n : cell \in Cells(grid[i])
  <2> SUFFICES ASSUME NEW cell \in all PROVE \E i \in 1 .. n : cell \in Cells(grid[i])
    OBVIOUS
  <2>1. PICK x \in 0 .. (image.width - 1), y \in 0 .. (image.height - 1) : cell = <<x, y>>
    BY <1>5
  <2>2. PICK j \in 0 .. (Large!TileCount(image) - 1) : <<x, y>> \in Cells(Large!WindowAt(image, j))
    BY WindowOfCell
  <2>3. PICK i : i = j + 1
    OBVIOUS
  <2>4. i \in 1 .. n /\ i - 1 = j
    BY <1>1, <1>2, <2>3
  <2> QED BY <1>3, <2>1, <2>2, <2>4
<1>8. UNION {Cells(w) : w \in ToSet(grid)} = all
  <2>1. ToSet(grid) = {grid[i] : i \in 1 .. n}
    BY <1>3 DEF ToSet
  <2> QED BY <1>6, <1>7, <2>1
<1>9. ASSUME NEW i \in 1 .. n, NEW j \in 1 .. n, NEW cell, cell \in Cells(grid[i]), cell \in Cells(grid[j])
      PROVE  i = j
  <2>1. PICK c \in Int, r \in Int : /\ Clipped(grid[i], image, c, r)
                                    /\ i - 1 = r * Large!Tiles(image.width) + c
    BY <1>4
  <2>2. PICK d \in Int, s \in Int : /\ Clipped(grid[j], image, d, s)
                                    /\ j - 1 = s * Large!Tiles(image.width) + d
    BY <1>4
  <2>3. c = d /\ r = s
    BY <1>9, <2>1, <2>2, CellsOfWindow
  <2> QED BY <1>2, <2>1, <2>2, <2>3
<1>10. \A i, j \in DOMAIN grid : i # j => Cells(grid[i]) \cap Cells(grid[j]) = {}
  BY <1>3, <1>9
<1> QED BY <1>1, <1>3, <1>5, <1>8, <1>10 DEF Tiled

-------------------------------------------------------------------------------
(* Passes over rows and windows *)

\* One more row, or one more turn of a source.
Forward(phase, spec, run, x) ==
  IF phase = "rows" THEN Large!Inspect(run, spec, x)
  ELSE Large!TakeWindow(run, spec, x.index, x.at)

\* What is there after the steps of a set, one after the other.
Passes(stages, n, begin, seq, phase, spec) ==
  stages = [s \in SUBSET (1 .. n) |->
    IF s = {} THEN begin ELSE Forward(phase, spec, stages[s \ {Large!Max(s)}], seq[Large!Max(s)])]

LEMMA LastPass ==
  ASSUME NEW k \in Nat, NEW s \in SUBSET (1 .. k), k \in s
  PROVE  Large!Max(s) = k
<1>1. \A x \in s : x \in Int /\ x <= k
  OBVIOUS
<1>2. \A x \in s : (\A y \in s : x >= y) => x = k
  BY <1>1
<1>3. \E x \in s : \A y \in s : x >= y
  BY <1>1
<1> QED BY <1>1, <1>2, <1>3 DEF Large!Max

LEMMA PassesExist ==
  ASSUME NEW begin, NEW seq, NEW phase, NEW spec, NEW n \in Nat
  PROVE  \E stages : Passes(stages, n, begin, seq, phase, spec)
<1>1. PICK S : S = {m \in Nat : \E stages : Passes(stages, m, begin, seq, phase, spec)}
  OBVIOUS
<1>2. 0 \in S
  <2>1. PICK stages : stages = [s \in SUBSET (1 .. 0) |-> begin]
    OBVIOUS
  <2>2. SUBSET (1 .. 0) = {{}}
    OBVIOUS
  <2>3. Passes(stages, 0, begin, seq, phase, spec)
    BY <2>1, <2>2, Zenon DEF Passes
  <2> QED BY <1>1, <2>3
<1>3. ASSUME NEW m \in Nat, m \in S PROVE m + 1 \in S
  <2>1. PICK stages : Passes(stages, m, begin, seq, phase, spec)
    BY <1>1, <1>3
  <2>2. PICK k, more :
          /\ k = m + 1
          /\ more = [s \in SUBSET (1 .. k) |->
                      IF k \in s THEN Forward(phase, spec, stages[s \ {k}], seq[k]) ELSE stages[s]]
    OBVIOUS
  <2>3. /\ \A s \in SUBSET (1 .. k) : k \in s => Large!Max(s) = k
        /\ \A s \in SUBSET (1 .. k) : s \ {k} \in SUBSET (1 .. m)
        /\ \A s \in SUBSET (1 .. k) : k \notin s => s \in SUBSET (1 .. m)
        /\ k \in Nat
    <3>1. k \in Nat /\ 1 .. k = (1 .. m) \cup {k}
      BY <2>2
    <3>2. ASSUME NEW s \in SUBSET (1 .. k), k \in s PROVE Large!Max(s) = k
      BY <3>1, <3>2, LastPass, Zenon
    <3> QED BY <3>1, <3>2
  <2>5. ASSUME NEW s \in SUBSET (1 .. k)
        PROVE  more[s] = IF s = {} THEN begin ELSE Forward(phase, spec, more[s \ {Large!Max(s)}], seq[Large!Max(s)])
    <3>1. CASE k \in s
      <4>1. s \ {k} \in SUBSET (1 .. k) /\ k \notin s \ {k} /\ s # {}
        BY <3>1
      <4>2. more[s \ {k}] = stages[s \ {k}]
        BY <2>2, <4>1
      <4>3. more[s] = Forward(phase, spec, stages[s \ {k}], seq[k])
        BY <2>2, <3>1
      <4> QED BY <2>3, <3>1, <4>1, <4>2, <4>3
    <3>2. CASE k \notin s
      <4>1. s \in SUBSET (1 .. m) /\ more[s] = stages[s]
        BY <2>2, <2>3, <3>2
      <4>2. more[s] = IF s = {} THEN begin ELSE Forward(phase, spec, stages[s \ {Large!Max(s)}], seq[Large!Max(s)])
        BY <2>1, <4>1 DEF Passes
      <4>3. s # {} => more[s \ {Large!Max(s)}] = stages[s \ {Large!Max(s)}]
        <5>1. s \ {Large!Max(s)} \in SUBSET (1 .. k) /\ k \notin s \ {Large!Max(s)}
          BY <3>2
        <5> QED BY <2>2, <5>1
      <4> QED BY <4>2, <4>3
    <3> QED BY <3>1, <3>2
  <2>6. Passes(more, k, begin, seq, phase, spec)
    BY <2>2, <2>5, Zenon DEF Passes
  <2> QED BY <1>1, <2>2, <2>3, <2>6
<1>4. Nat \subseteq S
  BY <1>2, <1>3, AllNumbers
<1> QED BY <1>1, <1>4

\* A run: from its beginning, step by step, to its end.
Passage(run, n, begin, end, seq, phase, spec) ==
  /\ run[0] = begin /\ run[n] = end
  /\ \A k \in 1 .. n : run[k] = Forward(phase, spec, run[k - 1], seq[k])

LEMMA PassesRun ==
  ASSUME NEW n \in Nat, NEW begin, NEW seq, NEW phase, NEW spec, NEW stages, Passes(stages, n, begin, seq, phase, spec)
  PROVE  \E run : Passage(run, n, begin, stages[1 .. n], seq, phase, spec)
<1>1. PICK run : run = [k \in 0 .. n |-> stages[1 .. k]]
  OBVIOUS
<1>2. run[0] = begin
  <2>1. 1 .. 0 = {} /\ {} \in SUBSET (1 .. n)
    OBVIOUS
  <2>2. stages[1 .. 0] = begin
    BY <2>1 DEF Passes
  <2> QED BY <1>1, <2>2
<1>3. ASSUME NEW k \in 1 .. n PROVE run[k] = Forward(phase, spec, run[k - 1], seq[k])
  <2>1. PICK s : s = 1 .. k
    OBVIOUS
  <2>2. s \in SUBSET (1 .. n) /\ s # {} /\ k \in Nat /\ s \in SUBSET (1 .. k) /\ k \in s
    BY <2>1
  <2>3. Large!Max(s) = k
    BY <2>2, LastPass
  <2>4. s \ {k} = 1 .. (k - 1) /\ k - 1 \in 0 .. n
    BY <2>1
  <2>5. stages[s] = Forward(phase, spec, stages[s \ {k}], seq[k])
    BY <2>2, <2>3 DEF Passes
  <2>6. k \in 0 .. n /\ run[k] = stages[s] /\ run[k - 1] = stages[s \ {k}]
    <3>1. \A j \in 0 .. n : run[j] = stages[1 .. j]
      BY <1>1
    <3>2. k \in 0 .. n
      OBVIOUS
    <3> QED BY <2>1, <2>4, <3>1, <3>2, Zenon
  <2> QED BY <2>5, <2>6
<1>4. run[n] = stages[1 .. n]
  BY <1>1
<1> QED BY <1>2, <1>3, <1>4 DEF Passage

\* The two loops of an extraction.
InspectedBy(begin, spec, seq) ==
  Large!FoldLeft(LAMBDA run, row : Large!Inspect(run, spec, row), begin, seq)

TakenBy(begin, spec, seq) ==
  Large!FoldLeft(LAMBDA run, turn : Large!TakeWindow(run, spec, turn.index, turn.at), begin, seq)

RowStages(begin, spec, seq) ==
  CHOOSE stages : stages = [s \in SUBSET (DOMAIN seq) |->
    IF s = {} THEN begin
    ELSE Large!Inspect(stages[s \ {Large!Max(s)}], spec, seq[Large!Max(s)])]

TurnStages(begin, spec, seq) ==
  CHOOSE stages : stages = [s \in SUBSET (DOMAIN seq) |->
    IF s = {} THEN begin
    ELSE Large!TakeWindow(stages[s \ {Large!Max(s)}], spec, seq[Large!Max(s)].index,
                          seq[Large!Max(s)].at)]

LEMMA RowsArePassed ==
  ASSUME NEW n \in Nat, NEW seq, DOMAIN seq = 1 .. n, NEW begin, NEW spec
  PROVE  \E run : Passage(run, n, begin, InspectedBy(begin, spec, seq), seq, "rows", spec)
<1>1. PICK phase : phase = "rows"
  OBVIOUS
<1>2. PICK stages : Passes(stages, n, begin, seq, phase, spec)
  BY PassesExist
<1>3. stages = [s \in SUBSET (DOMAIN seq) |->
        IF s = {} THEN begin
        ELSE Large!Inspect(stages[s \ {Large!Max(s)}], spec, seq[Large!Max(s)])]
  BY <1>1, <1>2, Zenon DEF Passes, Forward
<1>4. PICK chosen : chosen = RowStages(begin, spec, seq)
  OBVIOUS
<1>5. chosen = [s \in SUBSET (DOMAIN seq) |->
        IF s = {} THEN begin
        ELSE Large!Inspect(chosen[s \ {Large!Max(s)}], spec, seq[Large!Max(s)])]
  BY <1>3, <1>4, Zenon DEF RowStages
<1>6. Passes(chosen, n, begin, seq, phase, spec)
  BY <1>1, <1>5, Zenon DEF Passes, Forward
<1>7. InspectedBy(begin, spec, seq) = chosen[1 .. n]
  BY <1>4 DEF InspectedBy, Large!FoldLeft, Large!MapThenFoldSet, RowStages
<1> QED BY <1>1, <1>6, <1>7, PassesRun

LEMMA TurnsArePassed ==
  ASSUME NEW n \in Nat, NEW seq, DOMAIN seq = 1 .. n, NEW begin, NEW spec
  PROVE  \E run : Passage(run, n, begin, TakenBy(begin, spec, seq), seq, "turns", spec)
<1>1. PICK phase : phase = "turns"
  OBVIOUS
<1>2. PICK stages : Passes(stages, n, begin, seq, phase, spec)
  BY PassesExist
<1>3. stages = [s \in SUBSET (DOMAIN seq) |->
        IF s = {} THEN begin
        ELSE Large!TakeWindow(stages[s \ {Large!Max(s)}], spec, seq[Large!Max(s)].index,
                              seq[Large!Max(s)].at)]
  <2>1. phase # "rows"
    BY <1>1
  <2> QED BY <1>2, <2>1, Zenon DEF Passes, Forward
<1>4. PICK chosen : chosen = TurnStages(begin, spec, seq)
  OBVIOUS
<1>5. chosen = [s \in SUBSET (DOMAIN seq) |->
        IF s = {} THEN begin
        ELSE Large!TakeWindow(chosen[s \ {Large!Max(s)}], spec, seq[Large!Max(s)].index,
                              seq[Large!Max(s)].at)]
  BY <1>3, <1>4, Zenon DEF TurnStages
<1>6. Passes(chosen, n, begin, seq, phase, spec)
  <2>1. phase # "rows"
    BY <1>1
  <2> QED BY <1>5, <2>1, Zenon DEF Passes, Forward
<1>7. TakenBy(begin, spec, seq) = chosen[1 .. n]
  BY <1>4 DEF TakenBy, Large!FoldLeft, Large!MapThenFoldSet, TurnStages
<1> QED BY <1>1, <1>6, <1>7, PassesRun

-------------------------------------------------------------------------------
(* The survey of a table *)

Rasters(D) ==
  [digest : D, width : Nat \ {0}, height : Nat \ {0}, decodes : BOOLEAN,
   changes : {None, "hash", "read", "publish"}, lossy : SUBSET WindowRecords]

\* What an extraction is asked for: any table, any images, any limits.
Extraction(spec, D) ==
  /\ Len(spec.rows) \in Nat /\ DOMAIN spec.rows = 1 .. Len(spec.rows)
  /\ \A name \in DOMAIN spec.images : spec.images[name] \in Rasters(D)
  /\ spec.sample_count \in Nat /\ spec.max_rows \in Nat /\ spec.max_output_bytes \in Nat

WindowCodes ==
  {"band_masks_not_losslessly_representable", "source_changed_during_window_read",
   "output_byte_limit"}

\* None is no objection.
CodesAreCodes ==
  None \notin RowCodes \cup WindowCodes \cup
    {"source_changed_during_hash", "source_changed_before_publish", "derivation_identity_mismatch",
     "staged_window_checksum_mismatch", "window_outside_source",
     "admitted_window_reference_mismatch", "invalid_admission_metadata",
     "admission_window_count_mismatch", "duplicate_admission_asset",
     "source_checksum_mismatch"}

Sources(spec, D) ==
  [name : DOMAIN spec.images, digest : D, width : Nat \ {0}, height : Nat \ {0},
   changes : {None, "hash", "read", "publish"}, lossy : SUBSET WindowRecords]

Failures == [at : Nat \cup (Nat \X Nat), code : RowCodes \cup WindowCodes]

\* Every source is one of the images, and none is found twice.
Genuinely(sources, spec, D) ==
  /\ sources \in Seq(Sources(spec, D))
  /\ \A i \in DOMAIN sources :
       sources[i] = Large!SourceOf(spec.images[sources[i].name], sources[i].name)
  /\ \A i, j \in DOMAIN sources : sources[i].digest = sources[j].digest => i = j

\* What the survey of some rows has found.
Surveyed(run, spec, D) ==
  /\ DOMAIN run = {"error", "sources", "duplicates", "ineligible", "inspected", "failures",
                   "samples", "used"}
  /\ Genuinely(run.sources, spec, D)
  /\ run.duplicates \in Nat /\ run.ineligible \in Nat /\ run.inspected \in Nat
  /\ run.failures \in Seq(Failures)
  /\ \A i \in DOMAIN run.failures : run.failures[i].code \in RowCodes
  /\ run.samples = <<>> /\ run.used = 0
  /\ run.error = None =>
       run.inspected = Len(run.failures) + run.ineligible + run.duplicates + Len(run.sources)

WithOneMore(more, sources, spec, D) ==
  Genuinely(more, spec, D) /\ Len(more) = Len(sources) + 1

LEMMA OneMoreSource ==
  ASSUME NEW spec, NEW D, NEW sources, Genuinely(sources, spec, D),
         NEW name \in DOMAIN spec.images, spec.images[name] \in Rasters(D),
         \A i \in DOMAIN sources : sources[i].digest # spec.images[name].digest,
         NEW more, more = Append(sources, Large!SourceOf(spec.images[name], name))
  PROVE  WithOneMore(more, sources, spec, D)
<1>1. PICK S, x, image, n : /\ S = Sources(spec, D) /\ image = spec.images[name]
                            /\ x = Large!SourceOf(image, name) /\ n = Len(sources)
  OBVIOUS
<1>2. x \in S /\ x.name = name /\ x.digest = image.digest
  BY <1>1 DEF Large!SourceOf, Sources, Rasters
<1>3. sources \in Seq(S) /\ n \in Nat /\ DOMAIN sources = 1 .. n
  BY <1>1 DEF Genuinely
<1>4. /\ more \in Seq(S) /\ Len(more) = n + 1 /\ DOMAIN more = 1 .. (n + 1)
      /\ more[n + 1] = x /\ \A i \in 1 .. n : more[i] = sources[i]
  BY <1>1, <1>2, <1>3
<1>5. ASSUME NEW i \in DOMAIN more
      PROVE  more[i] = Large!SourceOf(spec.images[more[i].name], more[i].name)
  <2>1. CASE i = n + 1
    BY <1>1, <1>2, <1>4, <2>1
  <2>2. CASE i \in 1 .. n
    BY <1>3, <1>4, <2>2 DEF Genuinely
  <2> QED BY <1>3, <1>4, <2>1, <2>2
<1>6. ASSUME NEW i \in DOMAIN more, NEW j \in DOMAIN more, more[i].digest = more[j].digest
      PROVE  i = j
  <2>1. CASE i \in 1 .. n /\ j \in 1 .. n
    BY <1>3, <1>4, <1>6, <2>1 DEF Genuinely
  <2>2. CASE i = n + 1 /\ j \in 1 .. n
    BY <1>1, <1>2, <1>3, <1>4, <1>6, <2>2
  <2>3. CASE j = n + 1 /\ i \in 1 .. n
    BY <1>1, <1>2, <1>3, <1>4, <1>6, <2>3
  <2> QED BY <1>3, <1>4, <2>1, <2>2, <2>3
<1> QED BY <1>1, <1>4, <1>5, <1>6 DEF Genuinely, WithOneMore

LEMMA NoSourceYet ==
  ASSUME NEW spec, NEW D
  PROVE  Surveyed(Large!Started, spec, D)
<1>1. PICK S : S = Sources(spec, D)
  OBVIOUS
<1>2. <<>> \in Seq(S) /\ <<>> \in Seq(Failures) /\ Len(<<>>) = 0 /\ DOMAIN <<>> = {}
  OBVIOUS
<1>3. Genuinely(<<>>, spec, D)
  BY <1>1, <1>2 DEF Genuinely
<1> QED BY <1>2, <1>3 DEF Surveyed, Large!Started

LEMMA SurveyGoesOn ==
  ASSUME CodesAreCodes, NEW D, NEW spec, Extraction(spec, D), NEW run, Surveyed(run, spec, D),
         NEW row \in 1 .. Len(spec.rows)
  PROVE  Surveyed(Large!Inspect(run, spec, row), spec, D)
<1>1. PICK name, image, seen, next, code :
        /\ name = spec.rows[row] /\ image = spec.images[name]
        /\ seen = [run EXCEPT !.inspected = @ + 1]
        /\ next = Large!Inspect(run, spec, row) /\ code = Large!RowCode(spec, name)
  OBVIOUS
<1>2. PICK same : same = {i \in DOMAIN run.sources : run.sources[i].digest = image.digest}
  BY Zenon
<1>3. \/ next = run
      \/ code # None /\ next = [seen EXCEPT !.failures = Append(@, Large!Failure(row, code))]
      \/ next = [seen EXCEPT !.ineligible = @ + 1]
      \/ next = [seen EXCEPT !.error = "source_changed_during_hash"]
      \/ next = [seen EXCEPT !.duplicates = @ + 1]
      \/ /\ code = None /\ same = {}
         /\ next = [seen EXCEPT !.sources = Append(@, Large!SourceOf(image, name))]
  BY <1>1, <1>2, Zenon DEF Large!Inspect
<1>4. /\ seen.inspected = run.inspected + 1 /\ seen.sources = run.sources
      /\ seen.failures = run.failures /\ seen.ineligible = run.ineligible
      /\ seen.duplicates = run.duplicates /\ seen.error = run.error
      /\ seen.samples = run.samples /\ seen.used = run.used
      /\ DOMAIN seen = DOMAIN run
  BY <1>1 DEF Surveyed
<1>5. Len(run.failures) \in Nat /\ Len(run.sources) \in Nat
  BY DEF Surveyed, Genuinely
<1>6. CASE next = run
  BY <1>1, <1>6
<1>7. CASE code # None /\ next = [seen EXCEPT !.failures = Append(@, Large!Failure(row, code))]
  <2>1. PICK f, failures : f = Large!Failure(row, code) /\ failures = Append(run.failures, f)
    OBVIOUS
  <2>2. row \in Nat
    BY DEF Extraction
  <2>3. f \in Failures /\ f.code \in RowCodes
    BY <1>1, <1>7, <2>1, <2>2 DEF Large!Failure, Failures, Large!RowCode, RowCodes
  <2>4. run.failures \in Seq(Failures)
    BY DEF Surveyed
  <2>5. /\ failures \in Seq(Failures) /\ Len(failures) = Len(run.failures) + 1
        /\ \A i \in DOMAIN failures : failures[i].code \in RowCodes
    <3>1. /\ failures \in Seq(Failures) /\ Len(failures) = Len(run.failures) + 1
          /\ DOMAIN failures = 1 .. (Len(run.failures) + 1)
          /\ \A i \in 1 .. Len(run.failures) : failures[i] = run.failures[i]
          /\ failures[Len(run.failures) + 1] = f /\ DOMAIN run.failures = 1 .. Len(run.failures)
      BY <2>1, <2>3, <2>4
    <3> QED BY <1>5, <2>3, <3>1 DEF Surveyed
  <2>6. /\ next.failures = failures /\ next.inspected = run.inspected + 1
        /\ next.sources = run.sources /\ next.ineligible = run.ineligible
        /\ next.duplicates = run.duplicates /\ next.error = run.error
        /\ next.samples = run.samples /\ next.used = run.used /\ DOMAIN next = DOMAIN run
    BY <1>4, <1>7, <2>1 DEF Surveyed
  <2>7. Surveyed(next, spec, D)
    BY <1>5, <2>5, <2>6 DEF Surveyed
  <2> QED BY <1>1, <2>7
<1>8. CASE next = [seen EXCEPT !.ineligible = @ + 1]
  <2>1. Surveyed(next, spec, D)
    BY <1>4, <1>5, <1>8 DEF Surveyed
  <2> QED BY <1>1, <2>1
<1>9. CASE next = [seen EXCEPT !.error = "source_changed_during_hash"]
  <2>1. next.error # None
    BY <1>4, <1>9 DEF CodesAreCodes, Surveyed
  <2>2. Surveyed(next, spec, D)
    BY <1>4, <1>5, <1>9, <2>1 DEF Surveyed
  <2> QED BY <1>1, <2>2
<1>10. CASE next = [seen EXCEPT !.duplicates = @ + 1]
  <2>1. Surveyed(next, spec, D)
    BY <1>4, <1>5, <1>10 DEF Surveyed
  <2> QED BY <1>1, <2>1
<1>11. CASE /\ code = None /\ same = {}
            /\ next = [seen EXCEPT !.sources = Append(@, Large!SourceOf(image, name))]
  <2>1. name \in DOMAIN spec.images
    BY <1>1, <1>11 DEF Large!RowCode, CodesAreCodes, RowCodes
  <2>2. PICK sources : sources = Append(run.sources, Large!SourceOf(image, name))
    OBVIOUS
  <2>3. spec.images[name] \in Rasters(D) /\ Genuinely(run.sources, spec, D)
        /\ \A i \in DOMAIN run.sources : run.sources[i].digest # spec.images[name].digest
    BY <1>1, <1>2, <1>11, <2>1 DEF Extraction, Surveyed
  <2>4. Genuinely(sources, spec, D) /\ Len(sources) = Len(run.sources) + 1
    <3>1. sources = Append(run.sources, Large!SourceOf(spec.images[name], name))
      BY <1>1, <2>2
    <3>2. WithOneMore(sources, run.sources, spec, D)
      BY <2>1, <2>3, <3>1, OneMoreSource
    <3> QED BY <3>2 DEF WithOneMore
  <2>5. /\ next.sources = sources /\ next.inspected = run.inspected + 1
        /\ next.failures = run.failures /\ next.ineligible = run.ineligible
        /\ next.duplicates = run.duplicates /\ next.error = run.error
        /\ next.samples = run.samples /\ next.used = run.used /\ DOMAIN next = DOMAIN run
    BY <1>4, <1>11, <2>2 DEF Surveyed
  <2>6. Surveyed(next, spec, D)
    BY <1>5, <2>4, <2>5 DEF Surveyed
  <2> QED BY <1>1, <2>6
<1> QED BY <1>3, <1>6, <1>7, <1>8, <1>9, <1>10, <1>11

\* What the survey of a whole table has found.
LEMMA TablesAreSurveyed ==
  ASSUME CodesAreCodes, NEW D, NEW spec, Extraction(spec, D),
         NEW seq, seq = [i \in DOMAIN spec.rows |-> i]
  PROVE  Surveyed(InspectedBy(Large!Started, spec, seq), spec, D)
<1>1. PICK n : n = Len(spec.rows)
  OBVIOUS
<1>2. n \in Nat /\ DOMAIN seq = 1 .. n /\ \A i \in 1 .. n : seq[i] = i
  BY <1>1 DEF Extraction
<1>3. PICK last : last = InspectedBy(Large!Started, spec, seq)
  OBVIOUS
<1>4. PICK run : Passage(run, n, Large!Started, last, seq, "rows", spec)
  BY <1>2, <1>3, RowsArePassed
<1>5. PICK S : S = {k \in Nat : k <= n => Surveyed(run[k], spec, D)}
  OBVIOUS
<1>6. 0 \in S
  BY <1>4, <1>5, NoSourceYet DEF Passage
<1>7. ASSUME NEW k \in Nat, k \in S PROVE k + 1 \in S
  <2>1. CASE k + 1 <= n
    <3>1. PICK i : i = k + 1
      OBVIOUS
    <3>2. i \in 1 .. n /\ i - 1 = k /\ Surveyed(run[k], spec, D)
      BY <1>2, <1>5, <1>7, <2>1, <3>1
    <3>3. run[i] = Large!Inspect(run[k], spec, i)
      BY <1>2, <1>4, <3>2 DEF Passage, Forward
    <3>4. Surveyed(run[i], spec, D)
      BY <1>1, <3>2, <3>3, SurveyGoesOn
    <3> QED BY <1>5, <3>1, <3>4
  <2>2. CASE ~(k + 1 <= n)
    BY <1>5, <2>2
  <2> QED BY <2>1, <2>2
<1>8. n \in S
  BY <1>2, <1>6, <1>7, AllNumbers
<1>9. Surveyed(run[n], spec, D)
  BY <1>2, <1>5, <1>8
<1> QED BY <1>3, <1>4, <1>9 DEF Passage

-------------------------------------------------------------------------------
(* The turns of the sources *)

Greatest(S, b) == b \in S /\ \A x \in S : b >= x

\* The values up to some place, and 0.
UpTo(f, k) == {0} \cup {f[i] : i \in 1 .. k}

LEMMA GreatestExists ==
  ASSUME NEW f, NEW m \in Nat, \A i \in 1 .. m : f[i] \in Nat
  PROVE  \E b \in Nat : Greatest(UpTo(f, m), b)
<1>1. PICK T : T = {k \in Nat : k <= m => \E b \in Nat : Greatest(UpTo(f, k), b)}
  OBVIOUS
<1>2. 0 \in T
  <2>1. UpTo(f, 0) = {0}
    BY DEF UpTo
  <2>2. Greatest({0}, 0)
    BY DEF Greatest
  <2> QED BY <1>1, <2>1, <2>2
<1>3. ASSUME NEW k \in Nat, k \in T PROVE k + 1 \in T
  <2>1. CASE k + 1 <= m
    <3>1. PICK S, R, x, l : S = UpTo(f, k) /\ l = k + 1 /\ R = UpTo(f, l) /\ x = f[l]
      OBVIOUS
    <3>2. x \in Nat
      BY <2>1, <3>1
    <3>3. PICK b \in Nat : Greatest(S, b)
      <4>1. k <= m
        BY <2>1
      <4>2. \E c \in Nat : Greatest(UpTo(f, k), c)
        BY <1>1, <1>3, <4>1, Zenon
      <4> QED BY <3>1, <4>2, Zenon
    <3>4. 1 .. l = (1 .. k) \cup {l}
      BY <3>1
    <3>5. R = S \cup {x}
      BY <3>1, <3>4 DEF UpTo
    <3>6. \A y \in S : y \in Int
      BY <2>1, <3>1 DEF UpTo
    <3>7. \E c \in Nat : Greatest(R, c)
      <4>1. CASE x >= b
        <5>1. Greatest(R, x)
          BY <3>2, <3>3, <3>5, <3>6, <4>1 DEF Greatest
        <5> QED BY <3>2, <5>1
      <4>2. CASE ~(x >= b)
        <5>1. Greatest(R, b)
          BY <3>2, <3>3, <3>5, <3>6, <4>2 DEF Greatest
        <5> QED BY <3>3, <5>1
      <4> QED BY <4>1, <4>2
    <3>8. l \in Nat /\ \E c \in Nat : Greatest(UpTo(f, l), c)
      BY <3>1, <3>7
    <3>9. l \in T
      BY <1>1, <3>8, Zenon
    <3> QED BY <3>1, <3>9
  <2>2. CASE ~(k + 1 <= m)
    BY <1>1, <2>2
  <2> QED BY <2>1, <2>2
<1>4. m \in T
  BY <1>2, <1>3, AllNumbers
<1>5. m <= m
  OBVIOUS
<1> QED BY <1>1, <1>4, <1>5, Zenon

\* Every source has its turn in each round.
InTurns(seq, n, count) ==
  /\ n \in Nat /\ DOMAIN seq = 1 .. n
  /\ \A i \in 1 .. n : seq[i].at \in 1 .. count /\ seq[i].index \in Nat
  /\ \A i, j \in 1 .. n : i < j => seq[i].index <= seq[j].index
  /\ \A i, j \in 1 .. n : seq[i].index = seq[j].index /\ seq[i].at = seq[j].at => i = j

LEMMA TurnsAreInOrder ==
  ASSUME NEW D, NEW spec, NEW run, Genuinely(run.sources, spec, D)
  PROVE  \E n : InTurns(Large!Turns(run), n, Len(run.sources))
<1>1. PICK count, f : /\ count = Len(run.sources)
                      /\ f = [i \in 1 .. count |-> Large!TileCount(run.sources[i])]
  OBVIOUS
<1>2. count \in Nat /\ DOMAIN run.sources = 1 .. count
  BY <1>1 DEF Genuinely
<1>3. \A i \in 1 .. count : f[i] \in Nat
  <2> SUFFICES ASSUME NEW i \in 1 .. count PROVE f[i] \in Nat
    OBVIOUS
  <2>1. PICK s : s = run.sources[i]
    OBVIOUS
  <2>2. Measured(s)
    <3>1. run.sources \in Seq(Sources(spec, D))
      BY DEF Genuinely
    <3>2. PICK Q : Q = Sources(spec, D)
      OBVIOUS
    <3>3. s \in Q
      BY <1>1, <1>2, <2>1, <3>1, <3>2
    <3> QED BY <3>2, <3>3 DEF Sources, Measured
  <2>3. Large!TileCount(s) \in Nat
    BY <2>2, TileCountIs
  <2> QED BY <1>1, <2>1, <2>3
<1>4. PICK counts : counts = {0} \cup {Large!TileCount(s) : s \in Large!ToSet(run.sources)}
  OBVIOUS
<1>5. counts = UpTo(f, count)
  <2>1. Large!ToSet(run.sources) = {run.sources[i] : i \in 1 .. count}
    BY <1>2 DEF Large!ToSet
  <2> QED BY <1>1, <1>4, <2>1 DEF UpTo
<1>6. PICK rounds : rounds = Large!Max(counts)
  OBVIOUS
<1>7. rounds \in Nat
  <2>1. PICK b \in Nat : Greatest(counts, b)
    BY <1>2, <1>3, <1>5, GreatestExists
  <2>2. \A x \in counts : x \in Nat
    BY <1>3, <1>5 DEF UpTo
  <2>3. rounds \in counts
    BY <1>6, <2>1 DEF Large!Max, Greatest
  <2> QED BY <2>2, <2>3
<1>8. PICK n, seq : n = rounds * count /\ seq = Large!Turns(run)
  OBVIOUS
<1>9. n \in Nat /\ (n > 0 => count \in Nat \ {0})
  BY <1>2, <1>7, <1>8
<1>10. seq = [i \in 1 .. n |-> [index |-> (i - 1) \div count, at |-> ((i - 1) % count) + 1]]
  BY <1>1, <1>4, <1>6, <1>8 DEF Large!Turns
<1>11. ASSUME NEW i \in 1 .. n
       PROVE  /\ seq[i].index \in Nat /\ seq[i].at \in 1 .. count
              /\ i - 1 = seq[i].index * count + (seq[i].at - 1)
  <2>1. PICK j, q, r : j = i - 1 /\ q = j \div count /\ r = j % count
    OBVIOUS
  <2>2. j \in Nat /\ count \in Nat \ {0}
    BY <1>9, <2>1
  <2>3. Quotient(j, count, q, r)
    BY <2>1, <2>2, QuotientAndRest
  <2>4. seq[i].index = q /\ seq[i].at = r + 1
    BY <1>10, <2>1
  <2>5. q \in Nat /\ r \in 0 .. (count - 1) /\ j = q * count + r
    BY <2>3 DEF Quotient
  <2>6. r + 1 \in 1 .. count /\ (r + 1) - 1 = r
    BY <2>2, <2>5
  <2> QED BY <2>1, <2>4, <2>5, <2>6
<1>12. ASSUME NEW i \in 1 .. n, NEW j \in 1 .. n, i < j
       PROVE  seq[i].index <= seq[j].index
  <2> SUFFICES ASSUME seq[j].index < seq[i].index PROVE FALSE
    BY <1>11
  <2>1. PICK p, q, a, b : /\ p = seq[i].index /\ q = seq[j].index
                          /\ a = seq[i].at - 1 /\ b = seq[j].at - 1
    OBVIOUS
  <2>2. /\ p \in Nat /\ q \in Nat /\ a \in Nat /\ b \in Nat /\ b < count /\ q + 1 <= p
        /\ i - 1 = p * count + a /\ j - 1 = q * count + b
    <3>1. /\ p \in Nat /\ a + 1 \in 1 .. count /\ a \in Int
          /\ i - 1 = p * count + a
      BY <1>11, <2>1
    <3>2. /\ q \in Nat /\ b + 1 \in 1 .. count /\ b \in Int
          /\ j - 1 = q * count + b
      BY <1>11, <2>1
    <3>3. q < p
      BY <2>1
    <3> QED BY <1>2, <3>1, <3>2, <3>3
  <2>3. (q + 1) * count <= p * count
    BY <1>2, <2>2, Multiplied
  <2>4. (q + 1) * count = q * count + count
    BY <1>2, <2>2
  <2>5. PICK u, v : u = p * count /\ v = q * count
    OBVIOUS
  <2>6. u \in Nat /\ v \in Nat
    BY <1>2, <2>2, <2>5
  <2> QED BY <1>2, <1>12, <2>2, <2>3, <2>4, <2>5, <2>6
<1>13. ASSUME NEW i \in 1 .. n, NEW j \in 1 .. n, seq[i].index = seq[j].index, seq[i].at = seq[j].at
       PROVE  i = j
  <2>1. i - 1 = j - 1
    BY <1>11, <1>13
  <2> QED BY <1>9, <2>1
<1>14. DOMAIN seq = 1 .. n
  BY <1>10
<1> QED BY <1>1, <1>8, <1>9, <1>11, <1>12, <1>13, <1>14 DEF InTurns

-------------------------------------------------------------------------------
(* The windows taken *)

SampleOf(spec, source, window) ==
  [derivation |-> Large!Derivation(spec, source, window), source |-> source.digest,
   pixels |-> <<source.digest, window>>]

Samples(spec, D) == {SampleOf(spec, s, w) : s \in Sources(spec, D), w \in WindowRecords}

\* A sample is the window of a turn, and no mask is lost with it.
OfTurn(sample, sources, spec, turn) ==
  LET source == sources[turn.at]
  IN /\ turn.at \in DOMAIN sources
     /\ turn.index \in 0 .. (Large!TileCount(source) - 1)
     /\ Large!WindowAt(source, turn.index) \notin source.lossy
     /\ sample = SampleOf(spec, source, Large!WindowAt(source, turn.index))

\* Places of n things among m, in order.
InPlaces(where, n, m) ==
  /\ where \in [1 .. n -> 1 .. m]
  /\ \A i, j \in 1 .. n : i < j => where[i] < where[j]

TakenInTurn(samples, where, sources, spec, seq, m) ==
  /\ InPlaces(where, Len(samples), m)
  /\ \A i \in DOMAIN samples : OfTurn(samples[i], sources, spec, seq[where[i]])

\* What some turns have made of a survey.
Took(run, first, spec, D, seq, m) ==
  /\ DOMAIN run = {"error", "sources", "duplicates", "ineligible", "inspected", "failures",
                   "samples", "used"}
  /\ run.sources = first.sources /\ run.duplicates = first.duplicates
  /\ run.ineligible = first.ineligible /\ run.inspected = first.inspected
  /\ run.error = None => first.error = None
  /\ run.failures \in Seq(Failures) /\ Len(first.failures) <= Len(run.failures)
  /\ \A i \in DOMAIN run.failures : run.failures[i].code \in RowCodes <=> i <= Len(first.failures)
  /\ run.samples \in Seq(Samples(spec, D)) /\ Len(run.samples) <= spec.sample_count
  /\ run.used \in Nat /\ run.used <= spec.max_output_bytes
  /\ \E where : TakenInTurn(run.samples, where, first.sources, spec, seq, m)

LEMMA OneMoreFailure ==
  ASSUME NEW failures \in Seq(Failures), NEW f \in Failures, f.code \notin RowCodes,
         NEW k \in Nat, k <= Len(failures),
         \A i \in DOMAIN failures : failures[i].code \in RowCodes <=> i <= k,
         NEW more, more = Append(failures, f)
  PROVE  /\ more \in Seq(Failures) /\ k <= Len(more)
         /\ \A i \in DOMAIN more : more[i].code \in RowCodes <=> i <= k
<1>1. PICK n : n = Len(failures)
  OBVIOUS
<1>2. n \in Nat /\ DOMAIN failures = 1 .. n
  BY <1>1
<1>3. /\ more \in Seq(Failures) /\ Len(more) = n + 1 /\ DOMAIN more = 1 .. (n + 1)
      /\ more[n + 1] = f /\ \A i \in 1 .. n : more[i] = failures[i]
  BY <1>1, <1>2
<1>4. ASSUME NEW i \in DOMAIN more PROVE more[i].code \in RowCodes <=> i <= k
  <2>1. CASE i = n + 1
    BY <1>1, <1>2, <1>3, <2>1
  <2>2. CASE i \in 1 .. n
    BY <1>2, <1>3, <2>2
  <2> QED BY <1>2, <1>3, <2>1, <2>2
<1> QED BY <1>1, <1>2, <1>3, <1>4

\* More turns take nothing from the samples there are.
LEMMA SamplesStay ==
  ASSUME NEW S, NEW samples \in Seq(S), NEW where, NEW sources, NEW spec, NEW seq, NEW m \in Nat,
         TakenInTurn(samples, where, sources, spec, seq, m)
  PROVE  \E next : TakenInTurn(samples, next, sources, spec, seq, m + 1)
<1>1. PICK n : n = Len(samples)
  OBVIOUS
<1>2. n \in Nat /\ InPlaces(where, n, m)
  BY <1>1 DEF TakenInTurn
<1>3. InPlaces(where, n, m + 1)
  <2>1. 1 .. m \subseteq 1 .. (m + 1)
    OBVIOUS
  <2> QED BY <1>2, <2>1 DEF InPlaces
<1> QED BY <1>1, <1>3 DEF TakenInTurn

LEMMA OneMoreSample ==
  ASSUME NEW S, NEW samples \in Seq(S), NEW where, NEW sources, NEW spec, NEW seq, NEW m \in Nat,
         TakenInTurn(samples, where, sources, spec, seq, m),
         NEW x \in S, OfTurn(x, sources, spec, seq[m + 1]), NEW more, more = Append(samples, x)
  PROVE  \E next : TakenInTurn(more, next, sources, spec, seq, m + 1)
<1>1. PICK n, k, l : n = Len(samples) /\ k = n + 1 /\ l = m + 1
  OBVIOUS
<1>2. n \in Nat /\ InPlaces(where, n, m) /\ DOMAIN samples = 1 .. n
  BY <1>1 DEF TakenInTurn
<1>3. /\ Len(more) = k /\ DOMAIN more = 1 .. k /\ more[k] = x
      /\ \A i \in 1 .. n : more[i] = samples[i]
  BY <1>1, <1>2
<1>4. PICK next : next = [i \in 1 .. k |-> IF i = k THEN l ELSE where[i]]
  OBVIOUS
<1>5. /\ next[k] = l /\ \A i \in 1 .. n : next[i] = where[i] /\ where[i] \in 1 .. m
      /\ \A i \in 1 .. k : i = k \/ i \in 1 .. n
  BY <1>1, <1>2, <1>4 DEF InPlaces
<1>6. InPlaces(next, k, l)
  <2>1. next \in [1 .. k -> 1 .. l]
    <3>1. l \in 1 .. l /\ 1 .. m \subseteq 1 .. l
      BY <1>1
    <3>2. \A i \in 1 .. k : next[i] \in 1 .. l
      BY <1>5, <3>1
    <3>3. DOMAIN next = 1 .. k /\ next = [i \in 1 .. k |-> next[i]]
      BY <1>4
    <3> QED BY <3>2, <3>3
  <2>2. ASSUME NEW i \in 1 .. k, NEW j \in 1 .. k, i < j PROVE next[i] < next[j]
    <3>1. CASE j = k
      BY <1>1, <1>2, <1>5, <2>2, <3>1
    <3>2. CASE j \in 1 .. n
      BY <1>1, <1>2, <1>5, <2>2, <3>2 DEF InPlaces
    <3> QED BY <1>5, <3>1, <3>2
  <2> QED BY <2>1, <2>2 DEF InPlaces
<1>7. ASSUME NEW i \in DOMAIN more PROVE OfTurn(more[i], sources, spec, seq[next[i]])
  <2>1. CASE i = k
    BY <1>1, <1>3, <1>5, <2>1
  <2>2. CASE i \in 1 .. n
    BY <1>2, <1>3, <1>5, <2>2 DEF TakenInTurn
  <2> QED BY <1>3, <1>5, <2>1, <2>2
<1>8. TakenInTurn(more, next, sources, spec, seq, l)
  BY <1>3, <1>6, <1>7 DEF TakenInTurn
<1> QED BY <1>1, <1>8

LEMMA AreaIs ==
  ASSUME NEW w \in WindowRecords
  PROVE  Large!Area(w) \in Nat
<1>1. w.width \in Nat /\ w.height \in Nat
  BY DEF WindowRecords
<1>2. 0 * w.height <= w.width * w.height
  BY <1>1, Multiplied
<1> QED BY <1>1, <1>2 DEF Large!Area

LEMMA WindowsAreRecords ==
  ASSUME NEW image, Measured(image), NEW index \in 0 .. (Large!TileCount(image) - 1)
  PROVE  Large!WindowAt(image, index) \in WindowRecords
<1>1. PICK c, r : c = index % Large!Tiles(image.width) /\ r = index \div Large!Tiles(image.width)
  OBVIOUS
<1>2. Clipped(Large!WindowAt(image, index), image, c, r)
  BY <1>1, IndexIsClipped
<1> QED BY <1>2 DEF Clipped

LEMMA TakingGoesOn ==
  ASSUME CodesAreCodes, NEW D, NEW spec, Extraction(spec, D), NEW first, Surveyed(first, spec, D),
         NEW seq, NEW m \in Nat, NEW turn, turn = seq[m + 1],
         turn.index \in Nat, turn.at \in DOMAIN first.sources,
         NEW run, Took(run, first, spec, D, seq, m)
  PROVE  Took(Large!TakeWindow(run, spec, turn.index, turn.at), first, spec, D, seq, m + 1)
<1>1. PICK source, window, code, next, index, at, l :
        /\ source = run.sources[at] /\ window = Large!WindowAt(source, index)
        /\ code = Large!WindowCode(run, spec, source, window)
        /\ next = Large!TakeWindow(run, spec, index, at) /\ index = turn.index /\ at = turn.at
        /\ l = m + 1
  OBVIOUS
<1>2. PICK x : x = SampleOf(spec, source, window)
  OBVIOUS
<1>3. \/ next = run
      \/ next = [run EXCEPT !.error = "source_changed_during_window_read"]
      \/ /\ code # None /\ next = [run EXCEPT !.failures = Append(@, Large!Failure(<<at, index>>, code))]
      \/ /\ ~(index >= Large!TileCount(source)) /\ ~(Len(run.samples) >= spec.sample_count)
         /\ code = None
         /\ next = [run EXCEPT !.used = @ + Large!Area(window), !.samples = Append(@, x)]
  <2>1. x = [derivation |-> Large!Derivation(spec, source, window), source |-> source.digest,
             pixels |-> <<source.digest, window>>]
    BY <1>2, Zenon DEF SampleOf
  <2>2. next = IF run.error # None \/ index >= Large!TileCount(source) \/ Len(run.samples) >= spec.sample_count
                 THEN run
               ELSE IF code = "source_changed_during_window_read"
                 THEN [run EXCEPT !.error = code]
               ELSE IF code # None
                 THEN [run EXCEPT !.failures = Append(@, Large!Failure(<<at, index>>, code))]
               ELSE [run EXCEPT !.used = @ + Large!Area(window), !.samples = Append(@, x)]
    BY <1>1, <2>1 DEF Large!TakeWindow
  <2>5. CASE run.error # None \/ index >= Large!TileCount(source) \/ Len(run.samples) >= spec.sample_count
    BY <2>2, <2>5
  <2>6. CASE /\ ~(run.error # None \/ index >= Large!TileCount(source) \/ Len(run.samples) >= spec.sample_count)
             /\ code = "source_changed_during_window_read"
    BY <2>2, <2>6
  <2>7. CASE /\ ~(run.error # None \/ index >= Large!TileCount(source) \/ Len(run.samples) >= spec.sample_count)
             /\ code # "source_changed_during_window_read" /\ code # None
    BY <2>2, <2>7
  <2>8. CASE /\ ~(run.error # None \/ index >= Large!TileCount(source) \/ Len(run.samples) >= spec.sample_count)
             /\ code # "source_changed_during_window_read" /\ code = None
    BY <2>2, <2>8
  <2> QED BY <2>5, <2>6, <2>7, <2>8
<1>4. source \in Sources(spec, D) /\ Measured(source) /\ at \in DOMAIN first.sources
      /\ at \in Nat /\ index \in Nat /\ source = first.sources[at]
  <2>1. first.sources \in Seq(Sources(spec, D))
    BY DEF Surveyed, Genuinely
  <2>2. PICK Q : Q = Sources(spec, D)
    OBVIOUS
  <2>3. source \in Q /\ at \in DOMAIN first.sources /\ at \in Nat /\ index \in Nat
        /\ source = first.sources[at]
    BY <1>1, <2>1, <2>2 DEF Took
  <2> QED BY <2>2, <2>3 DEF Sources, Measured
<1>5. PICK where : TakenInTurn(run.samples, where, first.sources, spec, seq, m)
  BY DEF Took
<1>6. PICK stay : TakenInTurn(run.samples, stay, first.sources, spec, seq, l)
  <2>1. run.samples \in Seq(Samples(spec, D))
    BY DEF Took
  <2>2. \E next2 : TakenInTurn(run.samples, next2, first.sources, spec, seq, m + 1)
    BY <1>5, <2>1, SamplesStay
  <2> QED BY <1>1, <2>2
<1>7. CASE next = run
  <2>1. Took(next, first, spec, D, seq, l)
    BY <1>6, <1>7 DEF Took
  <2> QED BY <1>1, <2>1
<1>8. CASE next = [run EXCEPT !.error = "source_changed_during_window_read"]
  <2>1. /\ next.error # None /\ next.sources = run.sources /\ next.duplicates = run.duplicates
        /\ next.ineligible = run.ineligible /\ next.inspected = run.inspected
        /\ next.failures = run.failures /\ next.samples = run.samples /\ next.used = run.used
        /\ DOMAIN next = DOMAIN run
    BY <1>8 DEF CodesAreCodes, WindowCodes, Took
  <2>2. Took(next, first, spec, D, seq, l)
    BY <1>6, <2>1 DEF Took
  <2> QED BY <1>1, <2>2
<1>9. CASE /\ code # None /\ next = [run EXCEPT !.failures = Append(@, Large!Failure(<<at, index>>, code))]
  <2>1. PICK f, failures : f = Large!Failure(<<at, index>>, code) /\ failures = Append(run.failures, f)
    OBVIOUS
  <2>2. code \in WindowCodes
    BY <1>1, <1>9 DEF Large!WindowCode, WindowCodes
  <2>3. f \in Failures /\ f.code \notin RowCodes
    BY <1>4, <2>1, <2>2 DEF Large!Failure, Failures, RowCodes, WindowCodes
  <2>4. PICK k : k = Len(first.failures)
    OBVIOUS
  <2>5. /\ run.failures \in Seq(Failures) /\ k \in Nat /\ k <= Len(run.failures)
        /\ \A i \in DOMAIN run.failures : run.failures[i].code \in RowCodes <=> i <= k
    BY <2>4 DEF Took, Surveyed
  <2>6. /\ failures \in Seq(Failures) /\ k <= Len(failures)
        /\ \A i \in DOMAIN failures : failures[i].code \in RowCodes <=> i <= k
    BY <2>1, <2>3, <2>5, OneMoreFailure
  <2>7. /\ next.error = run.error /\ next.sources = run.sources /\ next.duplicates = run.duplicates
        /\ next.ineligible = run.ineligible /\ next.inspected = run.inspected
        /\ next.failures = failures /\ next.samples = run.samples /\ next.used = run.used
        /\ DOMAIN next = DOMAIN run
    BY <1>9, <2>1 DEF Took
  <2>8. Took(next, first, spec, D, seq, l)
    BY <1>6, <2>4, <2>6, <2>7 DEF Took
  <2> QED BY <1>1, <2>8
<1>10. CASE /\ ~(index >= Large!TileCount(source)) /\ ~(Len(run.samples) >= spec.sample_count)
            /\ code = None
            /\ next = [run EXCEPT !.used = @ + Large!Area(window), !.samples = Append(@, x)]
  <2>1. index \in 0 .. (Large!TileCount(source) - 1)
    <3>1. Large!TileCount(source) \in Nat
      BY <1>4, TileCountIs
    <3> QED BY <1>4, <1>10, <3>1
  <2>2. window \in WindowRecords
    BY <1>1, <1>4, <2>1, WindowsAreRecords
  <2>3. PICK area, n : area = Large!Area(window) /\ n = Len(run.samples)
    OBVIOUS
  <2>4. area \in Nat
    BY <2>2, <2>3, AreaIs
  <2>5. window \notin source.lossy /\ ~(run.used + area > spec.max_output_bytes)
    BY <1>1, <1>10, <2>3 DEF Large!WindowCode, CodesAreCodes, WindowCodes
  <2>6. x \in Samples(spec, D)
    BY <1>2, <1>4, <2>2 DEF Samples
  <2>7. OfTurn(x, first.sources, spec, turn)
    BY <1>1, <1>2, <1>4, <2>1, <2>5 DEF OfTurn
  <2>8. PICK samples : samples = Append(run.samples, x)
    OBVIOUS
  <2>9. PICK Q : Q = Samples(spec, D)
    OBVIOUS
  <2>10. run.samples \in Seq(Q) /\ x \in Q
    BY <2>6, <2>9 DEF Took
  <2>11. \E where2 : TakenInTurn(samples, where2, first.sources, spec, seq, m + 1)
    BY <1>5, <2>7, <2>8, <2>10, OneMoreSample
  <2>12. samples \in Seq(Q) /\ Len(samples) = n + 1 /\ n \in Nat
    BY <2>3, <2>8, <2>10
  <2>13. n + 1 <= spec.sample_count
    BY <1>10, <2>3, <2>12 DEF Extraction
  <2>14. run.used + area \in Nat /\ run.used + area <= spec.max_output_bytes
    BY <2>4, <2>5 DEF Extraction, Took
  <2>15. /\ next.error = run.error /\ next.sources = run.sources /\ next.duplicates = run.duplicates
         /\ next.ineligible = run.ineligible /\ next.inspected = run.inspected
         /\ next.failures = run.failures /\ next.samples = samples /\ next.used = run.used + area
         /\ DOMAIN next = DOMAIN run
    BY <1>10, <2>3, <2>8 DEF Took
  <2>16. Took(next, first, spec, D, seq, l)
    BY <1>1, <2>9, <2>11, <2>12, <2>13, <2>14, <2>15 DEF Took
  <2> QED BY <1>1, <2>16
<1> QED BY <1>3, <1>7, <1>8, <1>9, <1>10

LEMMA NothingTakenYet ==
  ASSUME NEW D, NEW spec, Extraction(spec, D), NEW first, Surveyed(first, spec, D), NEW seq
  PROVE  Took(first, first, spec, D, seq, 0)
<1>1. PICK Q : Q = Samples(spec, D)
  OBVIOUS
<1>2. first.samples = <<>> /\ first.samples \in Seq(Q) /\ Len(first.samples) = 0
      /\ DOMAIN first.samples = {}
  BY DEF Surveyed
<1>3. PICK where : where = [i \in 1 .. 0 |-> 1]
  OBVIOUS
<1>4. InPlaces(where, 0, 0)
  BY <1>3 DEF InPlaces
<1>5. TakenInTurn(first.samples, where, first.sources, spec, seq, 0)
  BY <1>2, <1>4 DEF TakenInTurn
<1>6. /\ first.failures \in Seq(Failures)
      /\ \A i \in DOMAIN first.failures : first.failures[i].code \in RowCodes
      /\ \A i \in DOMAIN first.failures : i <= Len(first.failures)
      /\ Len(first.failures) <= Len(first.failures)
  BY DEF Surveyed
<1>7. 0 <= spec.sample_count /\ 0 <= spec.max_output_bytes
  BY DEF Extraction
<1> QED BY <1>1, <1>2, <1>5, <1>6, <1>7 DEF Took, Surveyed

\* What all the turns have made of a survey.
LEMMA AllTurnsAreTaken ==
  ASSUME CodesAreCodes, NEW D, NEW spec, Extraction(spec, D), NEW first, Surveyed(first, spec, D),
         NEW seq, NEW n, InTurns(seq, n, Len(first.sources))
  PROVE  Took(TakenBy(first, spec, seq), first, spec, D, seq, n)
<1>1. PICK last : last = TakenBy(first, spec, seq)
  OBVIOUS
<1>2. n \in Nat /\ DOMAIN seq = 1 .. n
  BY DEF InTurns
<1>3. PICK run : Passage(run, n, first, last, seq, "turns", spec)
  BY <1>1, <1>2, TurnsArePassed
<1>4. PICK S : S = {k \in Nat : k <= n => Took(run[k], first, spec, D, seq, k)}
  OBVIOUS
<1>5. 0 \in S
  BY <1>3, <1>4, NothingTakenYet DEF Passage
<1>6. ASSUME NEW k \in Nat, k \in S PROVE k + 1 \in S
  <2>1. CASE k + 1 <= n
    <3>1. PICK i, turn : i = k + 1 /\ turn = seq[i]
      OBVIOUS
    <3>2. i \in 1 .. n /\ i - 1 = k /\ Took(run[k], first, spec, D, seq, k)
      BY <1>2, <1>4, <1>6, <2>1, <3>1
    <3>3. run[i] = Large!TakeWindow(run[k], spec, turn.index, turn.at)
      <4>1. run[i] = Forward("turns", spec, run[k], turn)
        BY <1>3, <3>1, <3>2 DEF Passage
      <4> QED BY <4>1 DEF Forward
    <3>4. turn.index \in Nat /\ turn.at \in DOMAIN first.sources
      <4>1. DOMAIN first.sources = 1 .. Len(first.sources)
        BY DEF Surveyed, Genuinely
      <4> QED BY <3>1, <3>2, <4>1 DEF InTurns
    <3>5. turn = seq[k + 1]
      BY <3>1
    <3>6. Took(Large!TakeWindow(run[k], spec, turn.index, turn.at), first, spec, D, seq, k + 1)
      BY <3>2, <3>4, <3>5, TakingGoesOn
    <3>7. Took(run[i], first, spec, D, seq, i)
      BY <3>1, <3>3, <3>6
    <3> QED BY <1>4, <3>1, <3>2, <3>7
  <2>2. CASE ~(k + 1 <= n)
    BY <1>4, <2>2
  <2> QED BY <2>1, <2>2
<1>7. n \in S
  BY <1>2, <1>5, <1>6, AllNumbers
<1>8. Took(run[n], first, spec, D, seq, n)
  BY <1>2, <1>4, <1>7
<1> QED BY <1>1, <1>3, <1>8 DEF Passage

-------------------------------------------------------------------------------
(* What an extraction leaves *)

\* A run without an error went through all turns of a survey.
Complete(run, first, spec, D, seq, n) ==
  /\ Surveyed(first, spec, D) /\ first.error = None
  /\ InTurns(seq, n, Len(first.sources))
  /\ Took(run, first, spec, D, seq, n)

LEMMA ExtractionsAreComplete ==
  ASSUME CodesAreCodes, NEW D, NEW spec, Extraction(spec, D),
         NEW run, run = Large!Extracted(spec), run.error = None
  PROVE  \E first, seq, n : Complete(run, first, spec, D, seq, n)
<1>1. PICK first : first = InspectedBy(Large!Started, spec, [i \in DOMAIN spec.rows |-> i])
  OBVIOUS
<1>2. PICK seq : seq = Large!Turns(first)
  OBVIOUS
<1>3. PICK taken : taken = TakenBy(first, spec, seq)
  OBVIOUS
<1>4. run = Large!Publish(taken)
  BY <1>1, <1>2, <1>3 DEF Large!Extracted, InspectedBy, TakenBy
<1>5. Surveyed(first, spec, D)
  BY <1>1, TablesAreSurveyed
<1>6. PICK n : InTurns(seq, n, Len(first.sources))
  <2>1. Genuinely(first.sources, spec, D)
    BY <1>5 DEF Surveyed
  <2> QED BY <1>2, <2>1, TurnsAreInOrder
<1>7. Took(taken, first, spec, D, seq, n)
  BY <1>3, <1>5, <1>6, AllTurnsAreTaken
<1>8. run = taken
  <2>1. "error" \in DOMAIN taken
    BY <1>7 DEF Took
  <2>2. run = taken \/ run.error = "source_changed_before_publish"
    BY <1>4, <2>1 DEF Large!Publish
  <2> QED BY <2>2 DEF CodesAreCodes
<1>9. first.error = None
  BY <1>7, <1>8 DEF Took
<1> QED BY <1>5, <1>6, <1>7, <1>8, <1>9 DEF Complete

LEMMA SourcesAreMeasured ==
  ASSUME NEW D, NEW spec, NEW sources, Genuinely(sources, spec, D), NEW i \in DOMAIN sources
  PROVE  Measured(sources[i]) /\ sources[i].name \in DOMAIN spec.images
<1>1. PICK Q : Q = Sources(spec, D)
  OBVIOUS
<1>2. sources \in Seq(Q)
  BY <1>1 DEF Genuinely
<1>3. sources[i] \in Q
  BY <1>2
<1> QED BY <1>1, <1>3 DEF Sources, Measured

\* A sample belongs to one turn only.
LEMMA OneTurn ==
  ASSUME NEW D, NEW spec, NEW sources, Genuinely(sources, spec, D),
         NEW x, NEW turn, OfTurn(x, sources, spec, turn),
         NEW at \in DOMAIN sources, NEW n \in 0 .. (Large!TileCount(sources[at]) - 1),
         TakenAt(x, sources[at], n)
  PROVE  at = turn.at /\ n = turn.index
<1>1. x.source = sources[turn.at].digest
      /\ x.derivation.window = Large!WindowAt(sources[turn.at], turn.index)
      /\ turn.at \in DOMAIN sources
      /\ turn.index \in 0 .. (Large!TileCount(sources[turn.at]) - 1)
  BY DEF OfTurn, SampleOf, Large!Derivation
<1>2. sources[at].digest = sources[turn.at].digest
  BY <1>1 DEF TakenAt
<1>3. at = turn.at
  BY <1>1, <1>2 DEF Genuinely
<1>4. PICK s : s = sources[at]
  OBVIOUS
<1>5. Large!WindowAt(s, n) = Large!WindowAt(s, turn.index)
  BY <1>1, <1>3, <1>4 DEF TakenAt
<1>6. Measured(s)
  BY <1>4, SourcesAreMeasured
<1>7. n \in 0 .. (Large!TileCount(s) - 1) /\ turn.index \in 0 .. (Large!TileCount(s) - 1)
  BY <1>1, <1>3, <1>4
<1>8. n = turn.index
  BY <1>5, <1>6, <1>7, WindowsDiffer
<1> QED BY <1>3, <1>8

LEMMA PlacesDiffer ==
  ASSUME NEW where, NEW n \in Nat, NEW m \in Nat, InPlaces(where, n, m),
         NEW i \in 1 .. n, NEW j \in 1 .. n, where[i] = where[j]
  PROVE  i = j
<1>1. where[i] \in Nat /\ where[j] \in Nat
  BY DEF InPlaces
<1>2. ~(i < j) /\ ~(j < i)
  BY <1>1 DEF InPlaces
<1> QED BY <1>2

\* What is derived names its turn.
LEMMA DerivedFromTurn ==
  ASSUME NEW sources, NEW spec, NEW x, NEW turn, OfTurn(x, sources, spec, turn)
  PROVE  /\ x.source = sources[turn.at].digest /\ turn.at \in DOMAIN sources
         /\ x.derivation.source = x.source
         /\ x.derivation.window = Large!WindowAt(sources[turn.at], turn.index)
         /\ turn.index \in 0 .. (Large!TileCount(sources[turn.at]) - 1)
         /\ x.derivation = Large!Derivation(spec, sources[turn.at], x.derivation.window)
         /\ x.pixels = <<x.source, x.derivation.window>>
         /\ x.derivation.window \notin sources[turn.at].lossy
BY DEF OfTurn, SampleOf, Large!Derivation

LEMMA DerivationsDiffer ==
  ASSUME NEW D, NEW spec, NEW first, NEW run, NEW seq, NEW n, Complete(run, first, spec, D, seq, n)
  PROVE  IsInjective([i \in DOMAIN run.samples |-> run.samples[i].derivation])
<1>1. PICK where : TakenInTurn(run.samples, where, first.sources, spec, seq, n)
  BY DEF Complete, Took
<1>2. Genuinely(first.sources, spec, D)
  BY DEF Complete, Surveyed
<1>3. PICK k : k = Len(run.samples)
  OBVIOUS
<1>4. k \in Nat /\ DOMAIN run.samples = 1 .. k
  BY <1>3 DEF Complete, Took
<1>5. n \in Nat /\ InPlaces(where, k, n)
  BY <1>1, <1>3 DEF Complete, InTurns, TakenInTurn
<1>6. ASSUME NEW i \in 1 .. k, NEW j \in 1 .. k, run.samples[i].derivation = run.samples[j].derivation
      PROVE  i = j
  <2>1. PICK x, y, t, u : x = run.samples[i] /\ y = run.samples[j]
                          /\ t = seq[where[i]] /\ u = seq[where[j]]
    OBVIOUS
  <2>2. OfTurn(x, first.sources, spec, t) /\ OfTurn(y, first.sources, spec, u)
    BY <1>1, <1>4, <2>1 DEF TakenInTurn
  <2>3. y.source = x.source /\ x.derivation.window = y.derivation.window
    BY <1>6, <2>1, <2>2, DerivedFromTurn
  <2>4. PICK s : s = first.sources[u.at]
    OBVIOUS
  <2>5. /\ u.at \in DOMAIN first.sources /\ u.index \in 0 .. (Large!TileCount(s) - 1)
        /\ TakenAt(x, s, u.index)
    BY <2>2, <2>3, <2>4, DerivedFromTurn DEF TakenAt
  <2>6. u.at = t.at /\ u.index = t.index
    BY <1>2, <2>2, <2>4, <2>5, OneTurn
  <2>7. where[i] \in 1 .. n /\ where[j] \in 1 .. n
    BY <1>5 DEF InPlaces
  <2>8. where[i] = where[j]
    BY <2>1, <2>6, <2>7 DEF Complete, InTurns
  <2> QED BY <1>4, <1>5, <2>8, PlacesDiffer
<1> QED BY <1>4, <1>6 DEF IsInjective

LEMMA SamplesAreInTurn ==
  ASSUME NEW D, NEW spec, NEW first, NEW run, NEW seq, NEW n, Complete(run, first, spec, D, seq, n)
  PROVE  InTurn(run)
<1>1. PICK where : TakenInTurn(run.samples, where, first.sources, spec, seq, n)
  BY DEF Complete, Took
<1>2. Genuinely(first.sources, spec, D) /\ run.sources = first.sources
  BY DEF Complete, Surveyed, Took
<1>3. PICK k, sources : k = Len(run.samples) /\ sources = first.sources
  OBVIOUS
<1>4. k \in Nat /\ DOMAIN run.samples = 1 .. k
  BY <1>3 DEF Complete, Took
<1>5. n \in Nat /\ InPlaces(where, k, n)
  BY <1>1, <1>3 DEF Complete, InTurns, TakenInTurn
<1>6. ASSUME NEW i \in 1 .. k PROVE OfTurn(run.samples[i], sources, spec, seq[where[i]])
  BY <1>1, <1>3, <1>4 DEF TakenInTurn
<1>7. /\ ToSet(run.samples) = {run.samples[i] : i \in 1 .. k}
      /\ ToSet(run.sources) = {sources[i] : i \in DOMAIN sources}
  BY <1>2, <1>3, <1>4 DEF ToSet
<1>8. ASSUME NEW x \in ToSet(run.samples)
      PROVE  \E s \in ToSet(run.sources) : \E j \in 0 .. (Large!TileCount(s) - 1) : TakenAt(x, s, j)
  <2>1. PICK i \in 1 .. k : x = run.samples[i]
    BY <1>7
  <2>2. PICK t, s : t = seq[where[i]] /\ s = sources[t.at]
    OBVIOUS
  <2>3. OfTurn(x, sources, spec, t)
    BY <1>6, <2>1, <2>2
  <2>4. t.at \in DOMAIN sources /\ t.index \in 0 .. (Large!TileCount(s) - 1) /\ TakenAt(x, s, t.index)
    BY <2>2, <2>3, DerivedFromTurn DEF TakenAt
  <2> QED BY <1>7, <2>2, <2>4
<1>9. ASSUME NEW i \in 1 .. k, NEW j \in 1 .. k, i < j,
             NEW s \in ToSet(run.sources), NEW t \in ToSet(run.sources),
             NEW a \in 0 .. (Large!TileCount(s) - 1), NEW b \in 0 .. (Large!TileCount(t) - 1),
             TakenAt(run.samples[i], s, a), TakenAt(run.samples[j], t, b)
      PROVE  a <= b
  <2>1. PICK p \in DOMAIN sources, q \in DOMAIN sources : s = sources[p] /\ t = sources[q]
    BY <1>7
  <2>2. PICK u, v : u = seq[where[i]] /\ v = seq[where[j]]
    OBVIOUS
  <2>3. OfTurn(run.samples[i], sources, spec, u) /\ OfTurn(run.samples[j], sources, spec, v)
    BY <1>6, <2>2
  <2>4. Genuinely(sources, spec, D)
    BY <1>2, <1>3
  <2>5. a = u.index
    BY <1>9, <2>1, <2>3, <2>4, OneTurn
  <2>6. b = v.index
    BY <1>9, <2>1, <2>3, <2>4, OneTurn
  <2>7. where[i] \in 1 .. n /\ where[j] \in 1 .. n /\ where[i] < where[j]
    BY <1>5, <1>9 DEF InPlaces
  <2>8. u.index <= v.index
    BY <2>2, <2>7 DEF Complete, InTurns
  <2> QED BY <2>5, <2>6, <2>8
<1> QED BY <1>4, <1>8, <1>9 DEF InTurn

LEMMA RowsAreAccounted ==
  ASSUME NEW D, NEW spec, NEW first, NEW run, NEW seq, NEW n, Complete(run, first, spec, D, seq, n)
  PROVE  RowsAccounted(run)
<1>1. PICK rows, k, found, m, f :
        /\ rows = {i \in DOMAIN run.failures : run.failures[i].code \in RowCodes}
        /\ k = Len(first.failures) /\ m = Len(first.sources)
        /\ found = {run.sources[i].digest : i \in DOMAIN run.sources}
        /\ f = [i \in 1 .. m |-> first.sources[i].digest]
  OBVIOUS
<1>2. k \in Nat /\ m \in Nat /\ DOMAIN first.sources = 1 .. m /\ run.sources = first.sources
  BY <1>1 DEF Complete, Surveyed, Took, Genuinely
<1>3. Cardinality(rows) = k
  <2>1. PICK l : l = Len(run.failures)
    OBVIOUS
  <2>2. DOMAIN run.failures = 1 .. l /\ l \in Nat /\ k <= l
    BY <1>1, <2>1 DEF Complete, Took
  <2>3. \A i \in 1 .. l : run.failures[i].code \in RowCodes <=> i <= k
    BY <1>1, <2>2 DEF Complete, Took
  <2>4. rows = 1 .. k
    BY <1>1, <1>2, <2>2, <2>3
  <2>5. Cardinality(1 .. k) = k
    <3>1. IsFiniteSet(1 .. k) /\ Cardinality(1 .. k) = IF 1 > k THEN 0 ELSE k - 1 + 1
      BY <1>2, FS_Interval
    <3> QED BY <1>2, <3>1
  <2> QED BY <2>4, <2>5
<1>4. Cardinality(found) = m
  <2>1. found = {f[i] : i \in 1 .. m}
    BY <1>1, <1>2
  <2>2. \A i, j \in 1 .. m : f[i] = f[j] => i = j
    BY <1>1, <1>2 DEF Complete, Surveyed, Genuinely
  <2>3. DOMAIN f = 1 .. m
    BY <1>1
  <2>4. f \in [1 .. m -> found]
    BY <1>1, <2>1
  <2>5. f \in Injection(1 .. m, found) /\ f \in Surjection(1 .. m, found)
    BY <2>1, <2>2, <2>3, <2>4 DEF Injection, Surjection, IsInjective
  <2>6. IsFiniteSet(1 .. m) /\ Cardinality(1 .. m) = m
    <3>1. IsFiniteSet(1 .. m) /\ Cardinality(1 .. m) = IF 1 > m THEN 0 ELSE m - 1 + 1
      BY <1>2, FS_Interval
    <3> QED BY <1>2, <3>1
  <2>7. Cardinality(found) = Cardinality(1 .. m)
    BY <2>5, <2>6, FS_Surjection
  <2> QED BY <2>6, <2>7
<1>5. run.inspected = k + run.ineligible + run.duplicates + m
  BY <1>1 DEF Complete, Surveyed, Took
<1> QED BY <1>1, <1>3, <1>4, <1>5 DEF RowsAccounted

-------------------------------------------------------------------------------
(* What is verified *)

LEMMA LeastNumber ==
  ASSUME NEW S, S \subseteq Nat, S # {}
  PROVE  Large!Min(S) \in S
<1>1. \E m \in S : \A y \in S : m <= y
  <2> SUFFICES ASSUME \A m \in S : \E y \in S : y < m PROVE FALSE
    <3>1. \A m \in S : \A y \in S : m \in Nat /\ y \in Nat
      OBVIOUS
    <3> QED BY <3>1
  <2>1. PICK T : T = {n \in Nat : \A y \in S : n <= y}
    OBVIOUS
  <2>2. 0 \in T
    BY <2>1
  <2>3. ASSUME NEW n \in Nat, n \in T PROVE n + 1 \in T
    <3>1. n \notin S
      BY <2>1, <2>3
    <3>2. \A y \in S : y \in Nat /\ n <= y /\ y # n
      BY <2>1, <2>3, <3>1
    <3>3. \A y \in S : n + 1 <= y
      BY <3>2
    <3> QED BY <2>1, <3>3
  <2>4. Nat \subseteq T
    BY <2>2, <2>3, AllNumbers
  <2>5. PICK x \in S : TRUE
    OBVIOUS
  <2>6. x \in Nat /\ x + 1 \in T
    BY <2>4
  <2> QED BY <2>1, <2>6
<1> QED BY <1>1 DEF Large!Min

LEMMA OneIsObjected ==
  ASSUME CodesAreCodes, NEW output, NEW images, DOMAIN output.receipt \subseteq Nat,
         NEW i \in DOMAIN output.receipt, Large!WindowReason(output, images, i) # None
  PROVE  Large!Verified(output, images) # None
<1>1. PICK objected : objected = Large!Objected(output, images)
  OBVIOUS
<1>2. i \in objected /\ objected \subseteq Nat
  BY <1>1 DEF Large!Objected
<1>3. Large!Min(objected) \in objected
  BY <1>2, LeastNumber
<1>4. Large!WindowReason(output, images, Large!Min(objected)) # None
  BY <1>1, <1>3 DEF Large!Objected
<1> QED BY <1>1, <1>2, <1>4 DEF Large!Verified, CodesAreCodes

LEMMA WindowIsGood ==
  ASSUME NEW output, NEW images, NEW i, NEW private, private = output.receipt[i],
         private.asset = private.derivation, Large!Named(output, private.asset) = {i},
         private.derivation.source = private.source,
         NEW source \in output.sources, source.digest = private.source,
         \A s \in output.sources : s.digest = private.source => s = source,
         NEW image, image = images[source.name], image.digest = private.source,
         output.staged[i] = output.samples[i].content,
         NEW window, window = private.derivation.window, Large!Inside(image, window),
         output.staged[i] = <<private.source, window>>, window \notin image.lossy
  PROVE  Large!WindowReason(output, images, i) = None
<1>1. (CHOOSE j \in Large!Named(output, private.asset) : TRUE) = i
  OBVIOUS
<1>2. (CHOOSE s \in output.sources : s.digest = private.source) = source
  OBVIOUS
<1>3. Large!SourceFound(output, images, private.source)
  BY DEF Large!SourceFound
<1>4. Large!Named(output, private.asset) # {}
  OBVIOUS
<1> QED BY <1>1, <1>2, <1>3, <1>4, Zenon DEF Large!WindowReason

\* What was made of a sample, by which it is known.
LEMMA WindowIsBad ==
  ASSUME CodesAreCodes, NEW output, NEW images, NEW i, NEW private, private = output.receipt[i],
         \/ private.asset # private.derivation
         \/ private.derivation.source # private.source
         \/ Large!Named(output, private.asset) = {i} /\ output.staged[i] # output.samples[i].content
  PROVE  Large!WindowReason(output, images, i) # None
<1>1. None # "derivation_identity_mismatch" /\ None # "staged_window_checksum_mismatch"
  BY DEF CodesAreCodes
<1>2. CASE private.asset # private.derivation \/ private.derivation.source # private.source
  BY <1>1, <1>2, Zenon DEF Large!WindowReason
<1>3. CASE Large!Named(output, private.asset) = {i} /\ output.staged[i] # output.samples[i].content
  <2>1. (CHOOSE j \in Large!Named(output, private.asset) : TRUE) = i
    BY <1>3
  <2> QED BY <1>1, <1>3, <2>1, Zenon DEF Large!WindowReason
<1> QED BY <1>2, <1>3

\* The files, sample by sample.
FilesOf(output, run, k) ==
  /\ DOMAIN output = {"receipt", "sources", "samples", "staged"}
  /\ Len(output.receipt) = k /\ Len(output.samples) = k
  /\ DOMAIN output.receipt = 1 .. k /\ DOMAIN output.samples = 1 .. k /\ DOMAIN output.staged = 1 .. k
  /\ \A i \in 1 .. k :
       /\ output.receipt[i] = [asset |-> run.samples[i].derivation,
                               derivation |-> run.samples[i].derivation,
                               source |-> run.samples[i].source]
       /\ output.samples[i] = [asset |-> run.samples[i].derivation, content |-> run.samples[i].pixels]
       /\ output.staged[i] = run.samples[i].pixels
  /\ output.sources = {[digest |-> run.sources[i].digest, name |-> run.sources[i].name] :
                         i \in DOMAIN run.sources}

LEMMA LeftOfSample ==
  ASSUME NEW output, NEW run, NEW k, FilesOf(output, run, k), NEW i \in 1 .. k
  PROVE  /\ output.receipt[i].asset = run.samples[i].derivation
         /\ output.receipt[i].derivation = run.samples[i].derivation
         /\ output.receipt[i].source = run.samples[i].source
         /\ output.samples[i].asset = run.samples[i].derivation
         /\ output.samples[i].content = run.samples[i].pixels
         /\ output.staged[i] = run.samples[i].pixels
<1>1. output.receipt[i] = [asset |-> run.samples[i].derivation,
                           derivation |-> run.samples[i].derivation,
                           source |-> run.samples[i].source]
  BY Zenon DEF FilesOf
<1>2. output.samples[i] = [asset |-> run.samples[i].derivation, content |-> run.samples[i].pixels]
  BY Zenon DEF FilesOf
<1>3. output.staged[i] = run.samples[i].pixels
  BY Zenon DEF FilesOf
<1> QED BY <1>1, <1>2, <1>3

LEMMA OutputIsLeft ==
  ASSUME NEW S, NEW run, run.samples \in Seq(S), NEW output, output = Large!Output(run),
         NEW k, k = Len(run.samples)
  PROVE  FilesOf(output, run, k)
<1>1. k \in Nat /\ DOMAIN run.samples = 1 .. k
  OBVIOUS
<1>2. PICK receipt, samples, staged, sources :
        /\ receipt = [i \in 1 .. k |-> [asset |-> run.samples[i].derivation,
                                        derivation |-> run.samples[i].derivation,
                                        source |-> run.samples[i].source]]
        /\ samples = [i \in 1 .. k |-> [asset |-> run.samples[i].derivation,
                                        content |-> run.samples[i].pixels]]
        /\ staged = [i \in 1 .. k |-> run.samples[i].pixels]
        /\ sources = {[digest |-> s.digest, name |-> s.name] : s \in Large!ToSet(run.sources)}
  OBVIOUS
<1>3. output = [receipt |-> receipt, sources |-> sources, samples |-> samples, staged |-> staged]
  BY <1>1, <1>2 DEF Large!Output
<1>4. Len(receipt) = k /\ Len(samples) = k
  BY <1>1, <1>2
<1>5. sources = {[digest |-> run.sources[i].digest, name |-> run.sources[i].name] :
                   i \in DOMAIN run.sources}
  BY <1>2 DEF Large!ToSet
<1>6. /\ DOMAIN receipt = 1 .. k /\ DOMAIN samples = 1 .. k /\ DOMAIN staged = 1 .. k
      /\ \A i \in 1 .. k :
           /\ receipt[i] = [asset |-> run.samples[i].derivation,
                            derivation |-> run.samples[i].derivation,
                            source |-> run.samples[i].source]
           /\ samples[i] = [asset |-> run.samples[i].derivation, content |-> run.samples[i].pixels]
           /\ staged[i] = run.samples[i].pixels
  BY <1>2
<1>7. /\ DOMAIN output = {"receipt", "sources", "samples", "staged"}
      /\ output.receipt = receipt /\ output.samples = samples /\ output.staged = staged
      /\ output.sources = sources
  BY <1>3
<1> QED BY <1>4, <1>5, <1>6, <1>7 DEF FilesOf

\* The images are still what the sources were.
Agree(images, sources) ==
  \A i \in DOMAIN sources :
    /\ images[sources[i].name].digest = sources[i].digest
    /\ images[sources[i].name].width = sources[i].width
    /\ images[sources[i].name].height = sources[i].height
    /\ images[sources[i].name].lossy = sources[i].lossy

LEMMA ClippedIsInside ==
  ASSUME NEW source, Measured(source), NEW index \in 0 .. (Large!TileCount(source) - 1),
         NEW image, image.width = source.width, image.height = source.height
  PROVE  Large!Inside(image, Large!WindowAt(source, index))
<1>1. PICK c, r, w : /\ c = index % Large!Tiles(source.width) /\ r = index \div Large!Tiles(source.width)
                     /\ w = Large!WindowAt(source, index)
  OBVIOUS
<1>2. Clipped(w, source, c, r)
  BY <1>1, IndexIsClipped
<1>3. /\ w.column \in Nat /\ w.row \in Nat /\ w.width \in Nat \ {0} /\ w.height \in Nat \ {0}
      /\ w.column + w.width <= source.width /\ w.row + w.height <= source.height
  BY <1>2 DEF Clipped, WindowRecords
<1>4. Large!Inside(image, w)
  BY <1>3 DEF Large!Inside
<1> QED BY <1>1, <1>4

\* An asset names its sample.
NamesOne(output, i) == Large!Named(output, output.receipt[i].asset) = {i}

LEMMA AssetsName ==
  ASSUME NEW D, NEW spec, NEW first, NEW run, NEW seq, NEW n, Complete(run, first, spec, D, seq, n),
         NEW output, NEW k, k = Len(run.samples), FilesOf(output, run, k), NEW i \in 1 .. k
  PROVE  NamesOne(output, i)
<1>1. DOMAIN run.samples = 1 .. k
  BY DEF Complete, Took
<1>2. \A a, b \in 1 .. k : run.samples[a].derivation = run.samples[b].derivation => a = b
  <2>1. PICK f : f = [j \in DOMAIN run.samples |-> run.samples[j].derivation]
    OBVIOUS
  <2>2. IsInjective(f)
    BY <2>1, DerivationsDiffer
  <2> QED BY <1>1, <2>1, <2>2 DEF IsInjective
<1>3. /\ DOMAIN output.samples = 1 .. k /\ output.receipt[i].asset = run.samples[i].derivation
      /\ \A j \in 1 .. k : output.samples[j].asset = run.samples[j].derivation
  <2>1. DOMAIN output.samples = 1 .. k
    BY Zenon DEF FilesOf
  <2> QED BY <2>1, LeftOfSample
<1> QED BY <1>2, <1>3 DEF Large!Named, NamesOne

LEMMA UntouchedWindowsAreGood ==
  ASSUME NEW D, NEW spec, NEW first, NEW run, NEW seq, NEW n, Complete(run, first, spec, D, seq, n),
         NEW output, NEW k, k = Len(run.samples), FilesOf(output, run, k), NEW i \in 1 .. k,
         NEW images, Agree(images, run.sources)
  PROVE  Large!WindowReason(output, images, i) = None
<1>1. PICK where : TakenInTurn(run.samples, where, first.sources, spec, seq, n)
  BY DEF Complete, Took
<1>2. PICK sources, x, t : sources = first.sources /\ x = run.samples[i] /\ t = seq[where[i]]
  OBVIOUS
<1>3. Genuinely(sources, spec, D) /\ run.sources = sources
  BY <1>2 DEF Complete, Surveyed, Took
<1>4. OfTurn(x, sources, spec, t)
  <2>1. DOMAIN run.samples = 1 .. k
    BY DEF Complete, Took
  <2> QED BY <1>1, <1>2, <2>1 DEF TakenInTurn
<1>5. PICK s, window : s = sources[t.at] /\ window = x.derivation.window
  OBVIOUS
<1>6. /\ x.source = s.digest /\ t.at \in DOMAIN sources /\ x.derivation.source = x.source
      /\ window = Large!WindowAt(s, t.index) /\ t.index \in 0 .. (Large!TileCount(s) - 1)
      /\ x.pixels = <<x.source, window>> /\ window \notin s.lossy
  BY <1>4, <1>5, DerivedFromTurn
<1>7. Measured(s)
  BY <1>3, <1>5, <1>6, SourcesAreMeasured
<1>8. PICK source : source = [digest |-> s.digest, name |-> s.name]
  OBVIOUS
<1>9. source \in output.sources /\ source.digest = x.source /\ source.name = s.name
  BY <1>3, <1>5, <1>6, <1>8 DEF FilesOf
<1>10. ASSUME NEW u \in output.sources, u.digest = x.source PROVE u = source
  <2>1. PICK j \in DOMAIN sources : u = [digest |-> sources[j].digest, name |-> sources[j].name]
    BY <1>3 DEF FilesOf
  <2>2. sources[j].digest = sources[t.at].digest
    BY <1>5, <1>6, <1>10, <2>1
  <2>3. j = t.at
    BY <1>3, <1>6, <2>2 DEF Genuinely
  <2> QED BY <1>5, <1>8, <2>1, <2>3
<1>11. PICK image : image = images[s.name]
  OBVIOUS
<1>12. /\ image.digest = s.digest /\ image.width = s.width /\ image.height = s.height
       /\ image.lossy = s.lossy
  BY <1>3, <1>5, <1>6, <1>11 DEF Agree
<1>13. Large!Inside(image, window)
  BY <1>6, <1>7, <1>12, ClippedIsInside
<1>14. PICK private : private = output.receipt[i]
  OBVIOUS
<1>15. /\ private.asset = x.derivation /\ private.derivation = x.derivation
       /\ private.source = x.source /\ output.staged[i] = x.pixels
       /\ output.samples[i].content = x.pixels
  BY <1>2, <1>14, LeftOfSample
<1>16. Large!Named(output, private.asset) = {i}
  <2>1. NamesOne(output, i)
    BY AssetsName
  <2> QED BY <1>14, <2>1 DEF NamesOne
<1>17. window = private.derivation.window /\ window \notin image.lossy
       /\ output.staged[i] = <<private.source, window>> /\ image = images[source.name]
       /\ image.digest = private.source /\ private.derivation.source = private.source
  BY <1>5, <1>6, <1>9, <1>11, <1>12, <1>15
<1>18. \A u \in output.sources : u.digest = private.source => u = source
  BY <1>10, <1>15
<1> QED BY <1>9, <1>13, <1>14, <1>15, <1>16, <1>17, <1>18, WindowIsGood

\* What nobody touched is verified.
LEMMA UntouchedIsVerified ==
  ASSUME NEW D, NEW spec, NEW first, NEW run, NEW seq, NEW n, Complete(run, first, spec, D, seq, n),
         NEW output, NEW k, k = Len(run.samples), FilesOf(output, run, k), k \in 1 .. Large!MaxWindows,
         NEW images, Agree(images, run.sources)
  PROVE  Large!Verified(output, images) = None
<1>1. Large!Objected(output, images) = {}
  <2>1. ASSUME NEW i \in 1 .. k PROVE Large!WindowReason(output, images, i) = None
    BY UntouchedWindowsAreGood
  <2>2. DOMAIN output.receipt = 1 .. k
    BY Zenon DEF FilesOf
  <2> QED BY <2>1, <2>2, Zenon DEF Large!Objected
<1>2. Large!IsInjective([i \in DOMAIN output.samples |-> output.samples[i].asset])
  <2>1. PICK f : f = [i \in DOMAIN run.samples |-> run.samples[i].derivation]
    OBVIOUS
  <2>2. IsInjective(f)
    BY <2>1, DerivationsDiffer
  <2>3. DOMAIN run.samples = 1 .. k
    BY DEF Complete, Took
  <2>4. \A a, b \in 1 .. k : run.samples[a].derivation = run.samples[b].derivation => a = b
    BY <2>1, <2>2, <2>3 DEF IsInjective
  <2>5. DOMAIN output.samples = 1 .. k
        /\ \A j \in 1 .. k : output.samples[j].asset = run.samples[j].derivation
    <3>1. DOMAIN output.samples = 1 .. k
      BY Zenon DEF FilesOf
    <3> QED BY <3>1, LeftOfSample
  <2> QED BY <2>4, <2>5 DEF Large!IsInjective
<1>3. ~\E s \in output.sources : images[s.name].digest # s.digest
  <2> SUFFICES ASSUME NEW s \in output.sources PROVE images[s.name].digest = s.digest
    OBVIOUS
  <2>1. PICK j \in DOMAIN run.sources : s = [digest |-> run.sources[j].digest, name |-> run.sources[j].name]
    BY DEF FilesOf
  <2> QED BY <2>1 DEF Agree
<1>4. Len(output.receipt) = k /\ Len(output.samples) = k
  BY DEF FilesOf
<1>5. ~(Len(output.receipt) \notin 1 .. Large!MaxWindows) /\ ~(Len(output.samples) # Len(output.receipt))
  BY <1>4
<1> QED BY <1>1, <1>2, <1>3, <1>5, Zenon DEF Large!Verified

-------------------------------------------------------------------------------
(* What somebody edited *)

\* An edit of some files, of which there are as many as samples.
Edited(output, run, k, edit, edited) ==
  /\ output = Large!Output(run) /\ k = Len(run.samples) /\ FilesOf(output, run, k) /\ k \in Nat
  /\ DOMAIN run.samples = 1 .. k
  /\ edit.at \in 1 .. k /\ edited = EditedOutput(output, edit) /\ edited # output

LEMMA FilesAreFunctions ==
  ASSUME NEW output, NEW run, NEW k, output = Large!Output(run), DOMAIN run.samples = 1 .. k,
         FilesOf(output, run, k)
  PROVE  /\ output.receipt = [i \in 1 .. k |-> output.receipt[i]]
         /\ output.samples = [i \in 1 .. k |-> output.samples[i]]
         /\ output.staged = [i \in 1 .. k |-> output.staged[i]]
         /\ output = [receipt |-> output.receipt, sources |-> output.sources,
                      samples |-> output.samples, staged |-> output.staged]
BY DEF Large!Output

\* An edit of a window's pixels.
LEMMA PixelsAreSeen ==
  ASSUME CodesAreCodes, NEW D, NEW spec, NEW first, NEW run, NEW seq, NEW n,
         Complete(run, first, spec, D, seq, n),
         NEW output, NEW k, NEW edit, NEW edited, Edited(output, run, k, edit, edited),
         edit.how = "pixels", NEW images
  PROVE  Large!Verified(edited, images) # None
<1>1. PICK at, receipt, samples, staged, sources :
        /\ at = edit.at /\ receipt = output.receipt /\ samples = output.samples
        /\ staged = output.staged /\ sources = output.sources
  OBVIOUS
<1>2. FilesOf(output, run, k) /\ at \in 1 .. k /\ k \in Nat /\ k = Len(run.samples)
  BY <1>1 DEF Edited
<1>3. /\ staged = [i \in 1 .. k |-> staged[i]]
      /\ output = [receipt |-> receipt, sources |-> sources, samples |-> samples, staged |-> staged]
  BY <1>1, FilesAreFunctions DEF Edited
<1>4. DOMAIN output.samples = 1 .. k
  BY <1>2, Zenon DEF FilesOf
<1>5. edited = [output EXCEPT !.staged[at] = <<7, output.staged[at][2]>>]
  BY <1>1, <1>2, <1>4 DEF Edited, EditedOutput
<1>6. PICK pixels, changed : pixels = <<7, staged[at][2]>> /\ changed = [staged EXCEPT ![at] = pixels]
  OBVIOUS
<1>7. edited = [receipt |-> receipt, sources |-> sources, samples |-> samples, staged |-> changed]
  BY <1>3, <1>5, <1>6
<1>8. changed[at] = pixels
  BY <1>2, <1>3, <1>6
<1>9. pixels # staged[at]
  <2> SUFFICES ASSUME pixels = staged[at] PROVE FALSE
    OBVIOUS
  <2>1. changed = staged
    BY <1>3, <1>6
  <2> QED BY <1>3, <1>7, <2>1 DEF Edited
<1>10. staged[at] = samples[at].content
  BY <1>1, <1>2, LeftOfSample
<1>11. Large!Named(edited, edited.receipt[at].asset) = {at}
  <2>1. NamesOne(output, at)
    BY <1>2, AssetsName
  <2>2. edited.samples = output.samples /\ edited.receipt = output.receipt
    BY <1>1, <1>7
  <2> QED BY <2>1, <2>2 DEF NamesOne, Large!Named
<1>12. edited.staged[at] # edited.samples[at].content
  BY <1>7, <1>8, <1>9, <1>10
<1>13. Large!WindowReason(edited, images, at) # None
  BY <1>11, <1>12, WindowIsBad
<1>14. DOMAIN edited.receipt = 1 .. k
  <2>1. DOMAIN output.receipt = 1 .. k
    BY <1>2, Zenon DEF FilesOf
  <2> QED BY <1>1, <1>7, <2>1
<1> QED BY <1>2, <1>13, <1>14, OneIsObjected

\* What has the window of another image.
LEMMA ForeignWindowIsBad ==
  ASSUME CodesAreCodes, NEW output, NEW images, NEW i, NEW private, private = output.receipt[i],
         Large!Named(output, private.asset) = {i},
         \A s \in output.sources : images[s.name].digest = s.digest,
         output.staged[i] # <<private.source, private.derivation.window>>
  PROVE  Large!WindowReason(output, images, i) # None
<1>1. /\ None # "derivation_identity_mismatch" /\ None # "staged_window_checksum_mismatch"
      /\ None # "window_outside_source" /\ None # "band_masks_not_losslessly_representable"
      /\ None # "admitted_window_reference_mismatch"
  BY DEF CodesAreCodes, WindowCodes
<1>2. (CHOOSE j \in Large!Named(output, private.asset) : TRUE) = i
  OBVIOUS
<1>3. PICK source : source = CHOOSE s \in output.sources : s.digest = private.source
  OBVIOUS
<1>4. CASE ~Large!SourceFound(output, images, private.source)
  BY <1>1, <1>4, Zenon DEF Large!WindowReason
<1>5. CASE Large!SourceFound(output, images, private.source)
  <2>1. source \in output.sources /\ source.digest = private.source
    BY <1>3, <1>5, Zenon DEF Large!SourceFound
  <2>2. images[source.name].digest = private.source
    BY <2>1
  <2> QED BY <1>1, <1>2, <1>3, <2>2, Zenon DEF Large!WindowReason
<1> QED BY <1>4, <1>5

\* An edit of a window's pixels and of their checksum.
LEMMA RewritingIsSeen ==
  ASSUME CodesAreCodes, NEW D, NEW spec, NEW first, NEW run, NEW seq, NEW n,
         Complete(run, first, spec, D, seq, n),
         NEW output, NEW k, NEW edit, NEW edited, Edited(output, run, k, edit, edited),
         edit.how = "rewritten", NEW images
  PROVE  Large!Verified(edited, images) # None
<1>1. PICK at, receipt, samples, staged, sources, x :
        /\ at = edit.at /\ receipt = output.receipt /\ samples = output.samples
        /\ staged = output.staged /\ sources = output.sources /\ x = run.samples[at]
  OBVIOUS
<1>2. FilesOf(output, run, k) /\ at \in 1 .. k /\ k \in Nat /\ k = Len(run.samples)
      /\ DOMAIN run.samples = 1 .. k
  BY <1>1 DEF Edited
<1>3. /\ samples = [i \in 1 .. k |-> samples[i]] /\ staged = [i \in 1 .. k |-> staged[i]]
      /\ output = [receipt |-> receipt, sources |-> sources, samples |-> samples, staged |-> staged]
  BY <1>1, FilesAreFunctions DEF Edited
<1>4. DOMAIN output.samples = 1 .. k /\ DOMAIN output.receipt = 1 .. k
  BY <1>2, Zenon DEF FilesOf
<1>5. PICK pixels, changed, told :
        /\ pixels = <<7, staged[at][2]>> /\ changed = [staged EXCEPT ![at] = pixels]
        /\ told = [samples EXCEPT ![at].content = pixels]
  OBVIOUS
<1>6. edited = [output EXCEPT !.staged[at] = pixels, !.samples[at].content = pixels]
  BY <1>1, <1>2, <1>4, <1>5 DEF Edited, EditedOutput
<1>7. edited = [receipt |-> receipt, sources |-> sources, samples |-> told, staged |-> changed]
  BY <1>3, <1>5, <1>6
<1>8. /\ receipt[at].source = x.source /\ receipt[at].derivation = x.derivation
      /\ staged[at] = x.pixels /\ samples[at].content = x.pixels
      /\ samples[at] = [asset |-> x.derivation, content |-> x.pixels]
  <2>1. samples[at] = [asset |-> x.derivation, content |-> x.pixels]
    BY <1>1, <1>2, Zenon DEF FilesOf
  <2> QED BY <1>1, <1>2, <2>1, LeftOfSample
<1>9. x.pixels = <<x.source, x.derivation.window>>
  <2>1. PICK where : TakenInTurn(run.samples, where, first.sources, spec, seq, n)
    BY DEF Complete, Took
  <2>2. PICK t : t = seq[where[at]]
    OBVIOUS
  <2>3. OfTurn(x, first.sources, spec, t)
    BY <1>1, <1>2, <2>1, <2>2 DEF TakenInTurn
  <2> QED BY <2>3, DerivedFromTurn
<1>10. pixels # x.pixels
  <2> SUFFICES ASSUME pixels = x.pixels PROVE FALSE
    OBVIOUS
  <2>1. changed = staged
    BY <1>3, <1>5, <1>8
  <2>2. told = samples
    <3>1. [samples[at] EXCEPT !.content = pixels] = samples[at]
      BY <1>8
    <3> QED BY <1>2, <1>3, <1>5, <3>1
  <2> QED BY <1>3, <1>7, <2>1, <2>2 DEF Edited
<1>11. edited.staged[at] # <<x.source, x.derivation.window>>
  BY <1>2, <1>3, <1>5, <1>7, <1>9, <1>10
<1>12. Large!Named(edited, edited.receipt[at].asset) = {at}
  <2>1. NamesOne(output, at)
    BY <1>2, AssetsName
  <2>2. DOMAIN told = DOMAIN samples /\ \A j \in DOMAIN samples : told[j].asset = samples[j].asset
    <3>1. DOMAIN told = DOMAIN samples
      BY <1>5
    <3>2. [samples[at] EXCEPT !.content = pixels].asset = samples[at].asset
      BY <1>8
    <3>3. ASSUME NEW j \in DOMAIN samples PROVE told[j].asset = samples[j].asset
      <4>1. told[j] = IF j = at THEN [samples[at] EXCEPT !.content = pixels] ELSE samples[j]
        BY <1>5
      <4> QED BY <3>2, <4>1
    <3> QED BY <3>1, <3>3
  <2>3. edited.samples = told /\ output.samples = samples /\ edited.receipt = output.receipt
    BY <1>1, <1>7
  <2> QED BY <2>1, <2>2, <2>3 DEF NamesOne, Large!Named
<1>13. edited.receipt[at] = receipt[at] /\ DOMAIN edited.receipt = 1 .. k
       /\ edited.sources = sources
  BY <1>1, <1>4, <1>7
<1>14. CASE \E s \in edited.sources : images[s.name].digest # s.digest
  BY <1>14 DEF Large!Verified, CodesAreCodes
<1>15. CASE \A s \in edited.sources : images[s.name].digest = s.digest
  <2>1. Large!WindowReason(edited, images, at) # None
    BY <1>8, <1>11, <1>12, <1>13, <1>15, ForeignWindowIsBad
  <2> QED BY <1>2, <1>13, <2>1, OneIsObjected
<1> QED BY <1>14, <1>15

\* An edit of what is published about a window.
LEMMA ReceiptsAreSeen ==
  ASSUME CodesAreCodes, NEW D, NEW spec, NEW first, NEW run, NEW seq, NEW n,
         Complete(run, first, spec, D, seq, n),
         NEW output, NEW k, NEW edit, NEW edited, Edited(output, run, k, edit, edited),
         edit.how \in {"other_window", "other_source"}, NEW images
  PROVE  Large!Verified(edited, images) # None
<1>1. PICK at, receipt, samples, staged, sources, x :
        /\ at = edit.at /\ receipt = output.receipt /\ samples = output.samples
        /\ staged = output.staged /\ sources = output.sources /\ x = run.samples[at]
  OBVIOUS
<1>2. FilesOf(output, run, k) /\ at \in 1 .. k /\ k \in Nat /\ k = Len(run.samples)
      /\ DOMAIN run.samples = 1 .. k
  BY <1>1 DEF Edited
<1>3. /\ receipt = [i \in 1 .. k |-> receipt[i]]
      /\ output = [receipt |-> receipt, sources |-> sources, samples |-> samples, staged |-> staged]
  BY <1>1, FilesAreFunctions DEF Edited
<1>4. DOMAIN output.samples = 1 .. k
  BY <1>2, Zenon DEF FilesOf
<1>5. /\ receipt[at] = [asset |-> x.derivation, derivation |-> x.derivation, source |-> x.source]
      /\ x.derivation.source = x.source /\ x.derivation.window \in WindowRecords
      /\ DOMAIN x.derivation = {"parquet", "source", "width", "height", "window"}
  <2>1. receipt[at] = [asset |-> x.derivation, derivation |-> x.derivation, source |-> x.source]
    BY <1>1, <1>2, Zenon DEF FilesOf
  <2>2. PICK where : TakenInTurn(run.samples, where, first.sources, spec, seq, n)
    BY DEF Complete, Took
  <2>3. PICK t, s, d, w : /\ t = seq[where[at]] /\ s = first.sources[t.at]
                          /\ d = x.derivation /\ w = d.window
    OBVIOUS
  <2>4. OfTurn(x, first.sources, spec, t)
    BY <1>1, <1>2, <2>2, <2>3 DEF TakenInTurn
  <2>5. /\ d.source = x.source /\ w = Large!WindowAt(s, t.index) /\ t.at \in DOMAIN first.sources
        /\ t.index \in 0 .. (Large!TileCount(s) - 1) /\ d = Large!Derivation(spec, s, w)
    BY <2>3, <2>4, DerivedFromTurn
  <2>6. Genuinely(first.sources, spec, D)
    BY Zenon DEF Complete, Surveyed
  <2>7. w \in WindowRecords
    BY <2>3, <2>5, <2>6, SourcesAreMeasured, WindowsAreRecords, Zenon
  <2>8. DOMAIN d = {"parquet", "source", "width", "height", "window"}
    BY <2>5 DEF Large!Derivation
  <2> QED BY <2>1, <2>3, <2>5, <2>7, <2>8, Zenon
<1>6. ASSUME NEW private, NEW changed, changed = [receipt EXCEPT ![at] = private],
             edited = [receipt |-> changed, sources |-> sources, samples |-> samples, staged |-> staged],
             private.asset # private.derivation \/ private.derivation.source # private.source
      PROVE  Large!Verified(edited, images) # None
  <2>1. edited.receipt[at] = private /\ DOMAIN edited.receipt = 1 .. k
    BY <1>2, <1>3, <1>6
  <2>2. Large!WindowReason(edited, images, at) # None
    BY <1>6, <2>1, WindowIsBad
  <2> QED BY <1>2, <2>1, <2>2, OneIsObjected
<1>7. CASE edit.how = "other_window"
  <2>1. edited = [output EXCEPT !.receipt[at].derivation.window.column = @ + 1]
    BY <1>1, <1>2, <1>4, <1>7 DEF Edited, EditedOutput
  <2>2. PICK d, w, v, e : /\ d = x.derivation /\ w = d.window /\ v = [w EXCEPT !.column = @ + 1]
                          /\ e = [d EXCEPT !.window = v]
    OBVIOUS
  <2>3. PICK private, changed : /\ private = [asset |-> d, derivation |-> e, source |-> x.source]
                                /\ changed = [receipt EXCEPT ![at] = private]
    OBVIOUS
  <2>4. private = [receipt[at] EXCEPT !.derivation = e]
    BY <1>5, <2>2, <2>3, SMTT(30)
  <2>5. edited = [receipt |-> changed, sources |-> sources, samples |-> samples, staged |-> staged]
    <3>1. changed = [receipt EXCEPT ![at].derivation.window.column = @ + 1]
      <4>1. [receipt[at] EXCEPT !.derivation.window.column = @ + 1] = private
        <5>1. receipt[at].derivation = d /\ d.window = w
          BY <1>5, <2>2
        <5>2. [receipt[at] EXCEPT !.derivation = e] = [receipt[at] EXCEPT !.derivation.window.column = @ + 1]
          BY <2>2, <5>1, Zenon
        <5> QED BY <2>4, <5>2
      <4> QED BY <2>3, <4>1, Zenon
    <3> QED BY <1>3, <2>1, <3>1
  <2>6. e # d
    <3>1. w.column \in Nat /\ v.column = w.column + 1
      BY <1>5, <2>2 DEF WindowRecords
    <3>2. v # w
      BY <3>1
    <3>3. e.window = v /\ d.window = w
      BY <1>5, <2>2
    <3> QED BY <3>2, <3>3
  <2>7. private.asset # private.derivation
    BY <2>3, <2>6
  <2> QED BY <1>6, <2>3, <2>5, <2>7
<1>8. CASE edit.how = "other_source"
  <2>1. edited = [output EXCEPT !.receipt[at].source = 7]
    BY <1>1, <1>2, <1>4, <1>8 DEF Edited, EditedOutput
  <2>2. PICK private, changed : /\ private = [asset |-> x.derivation, derivation |-> x.derivation, source |-> 7]
                                /\ changed = [receipt EXCEPT ![at] = private]
    OBVIOUS
  <2>3. edited = [receipt |-> changed, sources |-> sources, samples |-> samples, staged |-> staged]
    <3>1. changed = [receipt EXCEPT ![at].source = 7]
      <4>1. [receipt[at] EXCEPT !.source = 7] = private
        BY <1>5, <2>2
      <4> QED BY <2>2, <4>1, Zenon
    <3> QED BY <1>3, <2>1, <3>1
  <2>4. x.source # 7
    <3> SUFFICES ASSUME x.source = 7 PROVE FALSE
      OBVIOUS
    <3>1. private = receipt[at]
      BY <1>5, <2>2
    <3>2. changed = receipt
      BY <1>2, <1>3, <2>2, <3>1
    <3> QED BY <1>3, <2>3, <3>2 DEF Edited
  <2>5. private.derivation.source # private.source
    BY <1>5, <2>2, <2>4
  <2> QED BY <1>6, <2>2, <2>3, <2>5
<1> QED BY <1>7, <1>8

OneFewer(q, at) == Len(RemoveAt(q, at)) # Len(q)

LEMMA SampleRemoved ==
  ASSUME NEW S, NEW q \in Seq(S), NEW at \in 1 .. Len(q)
  PROVE  OneFewer(q, at)
<1>1. PICK a : a = SubSeq(q, 1, at - 1)
  OBVIOUS
<1>8. PICK b : b = SubSeq(q, at + 1, Len(q))
  OBVIOUS
<1>9. PICK k : k = Len(q)
  OBVIOUS
<1>2. k \in Nat /\ at \in 1 .. k
  BY <1>9
<1>3. a \in Seq(S) /\ Len(a) = at - 1
  BY <1>1, <1>8, <1>9, <1>2
<1>4. b \in Seq(S) /\ Len(b) = k - at
  BY <1>1, <1>8, <1>9, <1>2
<1>5. Len(a \o b) = Len(a) + Len(b)
  BY <1>3, <1>4, ConcatProperties
<1>6. RemoveAt(q, at) = a \o b
  BY <1>1, <1>8, <1>9 DEF RemoveAt
<1>7. Len(a \o b) # k
  BY <1>2, <1>3, <1>4, <1>5
<1> QED BY <1>6, <1>7, <1>9, Zenon DEF OneFewer

LEMMA SamplesAreSeen ==
  ASSUME CodesAreCodes, NEW run, NEW output, NEW k, NEW edit, NEW edited,
         Edited(output, run, k, edit, edited),
         edit.how \in {"drop_sample", "repeat_sample"}, edit.at \in 1 .. 2, NEW images
  PROVE  Large!Verified(edited, images) # None
<1>1. PICK at, receipt, samples, staged, sources :
        /\ at = edit.at /\ receipt = output.receipt /\ samples = output.samples
        /\ staged = output.staged /\ sources = output.sources
  OBVIOUS
<1>2. FilesOf(output, run, k) /\ at \in 1 .. k /\ k \in Nat
  BY <1>1 DEF Edited
<1>3. /\ samples = [i \in 1 .. k |-> samples[i]]
      /\ output = [receipt |-> receipt, sources |-> sources, samples |-> samples, staged |-> staged]
  BY <1>1, FilesAreFunctions DEF Edited
<1>4. DOMAIN output.samples = 1 .. k /\ Len(samples) = k /\ Len(receipt) = k
  BY <1>1, <1>2, Zenon DEF FilesOf
<1>5. CASE edit.how = "drop_sample"
  <2>1. edited = [output EXCEPT !.samples = RemoveAt(@, at)]
    BY <1>1, <1>2, <1>4, <1>5 DEF Edited, EditedOutput
  <2>2. edited.samples = RemoveAt(samples, at) /\ edited.receipt = receipt
    BY <1>3, <2>1
  <2>3. PICK S : S = {samples[i] : i \in 1 .. k}
    OBVIOUS
  <2>4. samples \in Seq(S)
    BY <1>2, <1>3, <2>3
  <2>5. Len(edited.samples) # Len(edited.receipt)
    <3>1. at \in 1 .. Len(samples)
      BY <1>2, <1>4
    <3>2. Len(RemoveAt(samples, at)) # Len(samples)
      <4>1. OneFewer(samples, at)
        BY <2>4, <3>1, SampleRemoved
      <4> QED BY <4>1 DEF OneFewer
    <3> QED BY <1>4, <2>2, <3>2
  <2> QED BY <2>5 DEF Large!Verified, CodesAreCodes
<1>6. CASE edit.how = "repeat_sample"
  <2>1. edited = [output EXCEPT !.samples[at] = output.samples[1]]
    BY <1>1, <1>2, <1>4, <1>6 DEF Edited, EditedOutput
  <2>2. PICK changed : changed = [samples EXCEPT ![at] = samples[1]]
    OBVIOUS
  <2>3. edited = [receipt |-> receipt, sources |-> sources, samples |-> changed, staged |-> staged]
    BY <1>1, <1>3, <2>1, <2>2
  <2>4. at = 2
    <3> SUFFICES ASSUME at = 1 PROVE FALSE
      BY <1>1
    <3>1. changed = samples
      BY <1>2, <1>3, <2>2
    <3> QED BY <1>3, <2>3, <3>1 DEF Edited
  <2>5. DOMAIN changed = 1 .. k /\ changed[1] = samples[1] /\ changed[2] = samples[1]
        /\ 1 \in 1 .. k /\ 2 \in 1 .. k
    <3>1. 1 \in 1 .. k /\ 2 \in 1 .. k
      BY <1>2, <2>4
    <3>2. DOMAIN samples = 1 .. k
      BY <1>3
    <3>3. DOMAIN changed = 1 .. k /\ changed[2] = samples[1]
      BY <2>2, <2>4, <3>1, <3>2
    <3>4. changed[1] = samples[1]
      BY <2>2, <2>4, <3>1, <3>2
    <3> QED BY <3>1, <3>3, <3>4
  <2>6. PICK f : f = [i \in DOMAIN edited.samples |-> edited.samples[i].asset]
    OBVIOUS
  <2>7. ~Large!IsInjective(f)
    BY <2>3, <2>5, <2>6 DEF Large!IsInjective
  <2> QED BY <2>6, <2>7 DEF Large!Verified, CodesAreCodes
<1> QED BY <1>5, <1>6

-------------------------------------------------------------------------------
(* Any extraction, and any of the edits *)

LEMMA EditedIsSeen ==
  ASSUME CodesAreCodes, NEW D, NEW spec, NEW first, NEW run, NEW seq, NEW n,
         Complete(run, first, spec, D, seq, n), NEW output, output = Large!Output(run),
         NEW edit \in OutputEdits, NEW edited, edited = EditedOutput(output, edit), edited # output,
         NEW images
  PROVE  Large!Verified(edited, images) # None
<1>1. PICK k : k = Len(run.samples)
  OBVIOUS
<1>2. PICK S : S = Samples(spec, D)
  OBVIOUS
<1>3. run.samples \in Seq(S)
  BY <1>2 DEF Complete, Took
<1>4. FilesOf(output, run, k)
  BY <1>1, <1>3, OutputIsLeft
<1>5. k \in Nat /\ DOMAIN run.samples = 1 .. k
  BY <1>1, <1>3
<1>6. DOMAIN output.samples = 1 .. k
  BY <1>4, Zenon DEF FilesOf
<1>7. edit.at \in 1 .. k
  BY <1>6 DEF EditedOutput
<1>8. Edited(output, run, k, edit, edited)
  BY <1>1, <1>4, <1>5, <1>7, Zenon DEF Edited
<1>9. /\ edit.how \in {"none", "pixels", "rewritten", "drop_sample", "repeat_sample", "other_window",
                       "other_source", "image_changed"}
      /\ edit.at \in 1 .. 2
  BY DEF OutputEdits
<1>10. edit.how \notin {"none", "image_changed"}
  BY DEF EditedOutput
<1>11. CASE edit.how = "pixels"
  BY <1>8, <1>11, PixelsAreSeen
<1>12. CASE edit.how \in {"other_window", "other_source"}
  BY <1>8, <1>12, ReceiptsAreSeen
<1>13. CASE edit.how \in {"drop_sample", "repeat_sample"}
  BY <1>8, <1>9, <1>13, SamplesAreSeen
<1>14. CASE edit.how = "rewritten"
  BY <1>8, <1>14, RewritingIsSeen
<1> QED BY <1>9, <1>10, <1>11, <1>12, <1>13, <1>14

\* An edit of the images changes no more than a digest.
LEMMA EditedImagesKeep ==
  ASSUME NEW D, NEW case, \A name \in DOMAIN case.images : case.images[name] \in Rasters(D),
         NEW images, images = EditedImages(case), NEW name \in DOMAIN case.images
  PROVE  /\ images[name].width = case.images[name].width
         /\ images[name].height = case.images[name].height
         /\ images[name].lossy = case.images[name].lossy
<1>1. PICK image : image = case.images[name]
  OBVIOUS
<1>2. DOMAIN image = {"digest", "width", "height", "decodes", "changes", "lossy"}
  BY <1>1 DEF Rasters
<1>3. images[name] = image \/ images[name] = [image EXCEPT !.digest = 6]
  <2>1. CASE case.edit.how = "image_changed"
    <3>1. images = [case.images EXCEPT !["wide"] = [case.images["wide"] EXCEPT !.digest = 6]]
      BY <2>1, Zenon DEF EditedImages
    <3>2. CASE name = "wide"
      BY <1>1, <3>1, <3>2
    <3>3. CASE name # "wide"
      BY <1>1, <3>1, <3>3
    <3> QED BY <3>2, <3>3
  <2>2. CASE case.edit.how # "image_changed"
    BY <1>1, <2>2 DEF EditedImages
  <2> QED BY <2>1, <2>2
<1> QED BY <1>1, <1>2, <1>3

LEMMA ImagesAgree ==
  ASSUME NEW D, NEW case, NEW spec, spec = WindowSpec(case), Extraction(spec, D),
         NEW sources, Genuinely(sources, spec, D), NEW images, images = EditedImages(case),
         \A i \in DOMAIN sources : images[sources[i].name].digest = sources[i].digest
  PROVE  Agree(images, sources)
<1> SUFFICES ASSUME NEW i \in DOMAIN sources
             PROVE  /\ images[sources[i].name].width = sources[i].width
                    /\ images[sources[i].name].height = sources[i].height
                    /\ images[sources[i].name].lossy = sources[i].lossy
  BY DEF Agree
<1>1. PICK name, s : s = sources[i] /\ name = s.name
  OBVIOUS
<1>2. spec.images = case.images
  BY DEF WindowSpec
<1>3. name \in DOMAIN case.images
  BY <1>1, <1>2, SourcesAreMeasured
<1>4. s = Large!SourceOf(case.images[name], name)
  BY <1>1, <1>2 DEF Genuinely
<1>5. /\ s.width = case.images[name].width /\ s.height = case.images[name].height
      /\ s.lossy = case.images[name].lossy
  BY <1>4 DEF Large!SourceOf
<1>6. \A other \in DOMAIN case.images : case.images[other] \in Rasters(D)
  BY <1>2 DEF Extraction
<1>7. /\ images[name].width = case.images[name].width
      /\ images[name].height = case.images[name].height
      /\ images[name].lossy = case.images[name].lossy
  BY <1>3, <1>6, EditedImagesKeep
<1> QED BY <1>1, <1>5, <1>7

LEMMA OnlyUntouchedIsVerified ==
  ASSUME CodesAreCodes, NEW D, NEW case, NEW spec, spec = WindowSpec(case), Extraction(spec, D),
         spec.sample_count <= Large!MaxWindows, case.edit \in OutputEdits,
         NEW first, NEW run, NEW seq, NEW n, Complete(run, first, spec, D, seq, n)
  PROVE  VerifiedIfUntouched(case, run)
<1>1. PICK output, edit, edited, images, k :
        /\ output = Large!Output(run) /\ edit = case.edit /\ edited = EditedOutput(output, edit)
        /\ images = EditedImages(case) /\ k = Len(run.samples)
  OBVIOUS
<1>2. k \in Nat /\ k <= Large!MaxWindows /\ (k = 0 <=> run.samples = <<>>)
  <2>1. PICK S : S = Samples(spec, D)
    OBVIOUS
  <2>2. run.samples \in Seq(S) /\ k <= spec.sample_count /\ spec.sample_count \in Nat
    BY <1>1, <2>1 DEF Complete, Took, Extraction
  <2> QED BY <1>1, <2>2 DEF Large!MaxWindows
<1>3. FilesOf(output, run, k)
  <2>1. PICK S : S = Samples(spec, D)
    OBVIOUS
  <2>2. run.samples \in Seq(S)
    BY <2>1 DEF Complete, Took
  <2> QED BY <1>1, <2>2, OutputIsLeft
<1>4. ASSUME run.samples # <<>>, edited = output,
             \A s \in output.sources : images[s.name].digest = s.digest
      PROVE  Large!Verified(edited, images) = None
  <2>1. k \in 1 .. Large!MaxWindows
    BY <1>2, <1>4 DEF Large!MaxWindows
  <2>2. Genuinely(run.sources, spec, D)
    BY DEF Complete, Surveyed, Took
  <2>3. \A i \in DOMAIN run.sources : images[run.sources[i].name].digest = run.sources[i].digest
    <3> SUFFICES ASSUME NEW i \in DOMAIN run.sources
                 PROVE  images[run.sources[i].name].digest = run.sources[i].digest
      OBVIOUS
    <3>1. PICK s : s = [digest |-> run.sources[i].digest, name |-> run.sources[i].name]
      OBVIOUS
    <3>2. s \in output.sources
      <4>1. output.sources = {[digest |-> run.sources[j].digest, name |-> run.sources[j].name] :
                                j \in DOMAIN run.sources}
        BY <1>3, Zenon DEF FilesOf
      <4> QED BY <3>1, <4>1
    <3> QED BY <1>4, <3>1, <3>2
  <2>4. Agree(images, run.sources)
    BY <1>1, <2>2, <2>3, ImagesAgree
  <2>5. Large!Verified(output, images) = None
    BY <1>1, <1>3, <2>1, <2>4, UntouchedIsVerified
  <2> QED BY <1>4, <2>5
<1>5. ASSUME Large!Verified(edited, images) = None
      PROVE  /\ run.samples # <<>> /\ edited = output
             /\ \A s \in output.sources : images[s.name].digest = s.digest
  <2>1. edited = output
    BY <1>1, <1>5, EditedIsSeen
  <2>2. Large!Verified(output, images) = None
    BY <1>5, <2>1
  <2>3. Len(output.receipt) = k
    BY <1>3, Zenon DEF FilesOf
  <2>4. Len(output.receipt) \in 1 .. Large!MaxWindows
    BY <2>2, Zenon DEF Large!Verified, CodesAreCodes
  <2>5. ~\E s \in output.sources : images[s.name].digest # s.digest
    BY <2>2 DEF Large!Verified, CodesAreCodes
  <2>6. k # 0
    BY <2>3, <2>4
  <2> QED BY <1>2, <2>1, <2>5, <2>6
<1>6. (Large!Verified(edited, images) = None) <=>
        /\ run.samples # <<>> /\ edited = output
        /\ \A s \in output.sources : images[s.name].digest = s.digest
  BY <1>4, <1>5
<1> QED BY <1>1, <1>6, Zenon DEF VerifiedIfUntouched

\* Any table of images, within any limits, is extracted well: every source is
\* tiled, the windows are taken in turn and none twice, each row is accounted
\* for, and what was written is verified if and only if nobody touched it
\* (core/data/raster_windows.py, extract_raster_windows, verify_raster_window_output).
THEOREM ExtractionsVerify ==
  ASSUME CodesAreCodes, NEW D, NEW case, Extraction(WindowSpec(case), D),
         case.sample_count <= Large!MaxWindows, case.edit \in OutputEdits
  PROVE  WindowsVerifyIn(case)
<1>1. PICK spec : spec = WindowSpec(case)
  OBVIOUS
<1>2. /\ Extraction(spec, D) /\ spec.sample_count = case.sample_count
      /\ spec.max_output_bytes = case.max_output_bytes
  BY <1>1 DEF WindowSpec
<1>3. PICK run : run = Large!Extracted(spec)
  OBVIOUS
<1>4. ASSUME run.error = None PROVE WellExtracted(case, run)
  <2>1. PICK first, seq, n : Complete(run, first, spec, D, seq, n)
    BY <1>2, <1>3, <1>4, ExtractionsAreComplete
  <2>2. Genuinely(run.sources, spec, D)
    BY <2>1 DEF Complete, Surveyed, Took
  <2>3. ASSUME NEW s \in ToSet(run.sources) PROVE Tiled(s)
    <3>1. PICK i \in DOMAIN run.sources : s = run.sources[i]
      BY DEF ToSet
    <3>2. Measured(s)
      BY <2>2, <3>1, SourcesAreMeasured
    <3> QED BY <3>2, ImagesAreTiled
  <2>4. InTurn(run)
    BY <2>1, SamplesAreInTurn
  <2>5. IsInjective([i \in DOMAIN run.samples |-> run.samples[i].derivation])
    BY <2>1, DerivationsDiffer
  <2>6. Len(run.samples) <= case.sample_count /\ run.used <= case.max_output_bytes
    BY <1>2, <2>1 DEF Complete, Took
  <2>7. RowsAccounted(run)
    BY <2>1, RowsAreAccounted
  <2>8. VerifiedIfUntouched(case, run)
    BY <1>1, <1>2, <2>1, OnlyUntouchedIsVerified
  <2> QED BY <2>3, <2>4, <2>5, <2>6, <2>7, <2>8 DEF WellExtracted
<1> QED BY <1>1, <1>3, <1>4, Zenon DEF WindowsVerifyIn

-------------------------------------------------------------------------------
(* The windows of the run *)

LEMMA TallWindowIs == {Large!WindowAt(Tall, 1)} \in SUBSET WindowRecords
<1>1. Tall.width = 2 /\ Tall.height = 5
  BY DEF Tall, Image
<1>2. Measured(Tall)
  BY <1>1 DEF Measured
<1>3. Large!Tiles(2) = 1 /\ Large!Tiles(5) = 3
  BY DEF Large!Tiles, Large!TileSize
<1>4. Large!TileCount(Tall) = 3
  BY <1>1, <1>3 DEF Large!TileCount
<1>5. 1 \in 0 .. (Large!TileCount(Tall) - 1)
  BY <1>4
<1> QED BY <1>2, <1>5, WindowsAreRecords

\* A library of four images.
FourImages(wide, copy, tall, small) == [wide |-> wide, copy |-> copy, tall |-> tall, small |-> small]

LEMMA LibrariesHoldImages ==
  ASSUME NEW images \in Libraries
  PROVE  /\ DOMAIN images = {"wide", "copy", "tall", "small"}
         /\ \A name \in DOMAIN images : images[name] \in Rasters(Nat)
<1>1. PICK small, lossy : small = Image(3, 2, 2) /\ lossy = {Large!WindowAt(Tall, 1)}
  OBVIOUS
<1>2. lossy \in SUBSET WindowRecords
  BY <1>1, TallWindowIs
<1>3. /\ Wide = [digest |-> 1, width |-> 5, height |-> 3, decodes |-> TRUE, changes |-> None, lossy |-> {}]
      /\ Tall = [digest |-> 2, width |-> 2, height |-> 5, decodes |-> TRUE, changes |-> None, lossy |-> {}]
      /\ small = [digest |-> 3, width |-> 2, height |-> 2, decodes |-> TRUE, changes |-> None, lossy |-> {}]
  BY <1>1 DEF Wide, Tall, Image
<1>4. PICK all : all = FourImages(Wide, Wide, Tall, small)
  OBVIOUS
<1>5. \/ images = all
      \/ images = [all EXCEPT !.tall.lossy = lossy]
      \/ images = [all EXCEPT !.tall.decodes = FALSE]
      \/ images = [all EXCEPT !.wide.changes = "hash"]
      \/ images = [all EXCEPT !.tall.changes = "read"]
      \/ images = [all EXCEPT !.tall.changes = "publish"]
  BY <1>1, <1>4 DEF Libraries, FourImages
<1>6. /\ Wide \in Rasters(Nat) /\ Tall \in Rasters(Nat) /\ small \in Rasters(Nat)
      /\ [Tall EXCEPT !.lossy = lossy] \in Rasters(Nat)
      /\ [Tall EXCEPT !.decodes = FALSE] \in Rasters(Nat)
      /\ [Wide EXCEPT !.changes = "hash"] \in Rasters(Nat)
      /\ [Tall EXCEPT !.changes = "read"] \in Rasters(Nat)
      /\ [Tall EXCEPT !.changes = "publish"] \in Rasters(Nat)
  <2>1. Wide \in Rasters(Nat) /\ Tall \in Rasters(Nat) /\ small \in Rasters(Nat)
    BY <1>3 DEF Rasters
  <2>2. ASSUME NEW r \in Rasters(Nat), NEW l \in SUBSET WindowRecords, NEW b \in BOOLEAN,
               NEW c \in {None, "hash", "read", "publish"}
        PROVE  /\ [r EXCEPT !.lossy = l] \in Rasters(Nat) /\ [r EXCEPT !.decodes = b] \in Rasters(Nat)
               /\ [r EXCEPT !.changes = c] \in Rasters(Nat)
    BY DEF Rasters
  <2> QED BY <1>2, <2>1, <2>2
<1>7. ASSUME NEW wide, NEW tall, wide \in Rasters(Nat), tall \in Rasters(Nat),
             images = FourImages(wide, Wide, tall, small)
      PROVE  /\ DOMAIN images = {"wide", "copy", "tall", "small"}
             /\ \A name \in DOMAIN images : images[name] \in Rasters(Nat)
  <2>1. DOMAIN images = {"wide", "copy", "tall", "small"}
    BY <1>7 DEF FourImages
  <2>2. /\ images["wide"] = wide /\ images["copy"] = Wide /\ images["tall"] = tall
        /\ images["small"] = small
    BY <1>7 DEF FourImages
  <2> QED BY <1>6, <1>7, <2>1, <2>2
<1>8. \/ images = FourImages(Wide, Wide, Tall, small)
      \/ images = FourImages(Wide, Wide, [Tall EXCEPT !.lossy = lossy], small)
      \/ images = FourImages(Wide, Wide, [Tall EXCEPT !.decodes = FALSE], small)
      \/ images = FourImages([Wide EXCEPT !.changes = "hash"], Wide, Tall, small)
      \/ images = FourImages(Wide, Wide, [Tall EXCEPT !.changes = "read"], small)
      \/ images = FourImages(Wide, Wide, [Tall EXCEPT !.changes = "publish"], small)
  BY <1>4, <1>5 DEF FourImages
<1> QED BY <1>6, <1>7, <1>8

LEMMA WindowCasesVerify ==
  ASSUME CodesAreCodes, NEW case \in WindowCases
  PROVE  WindowsVerifyIn(case)
<1>1. PICK images \in Libraries, rows \in Tables, count \in {1, 3, 8}, max \in 2 .. 3,
           bytes \in {3, 9, 40}, edit \in OutputEdits :
        case = [of |-> "windows", images |-> images, rows |-> rows, sample_count |-> count,
                max_rows |-> max, max_output_bytes |-> bytes, edit |-> edit]
  BY DEF WindowCases
<1>2. PICK spec : spec = WindowSpec(case)
  OBVIOUS
<1>3. /\ spec.rows = rows /\ spec.images = images /\ spec.sample_count = count
      /\ spec.max_rows = max /\ spec.max_output_bytes = bytes
  BY <1>1, <1>2 DEF WindowSpec
<1>4. Len(rows) \in Nat /\ DOMAIN rows = 1 .. Len(rows)
  BY DEF Tables
<1>5. Extraction(spec, Nat)
  BY <1>3, <1>4, LibrariesHoldImages DEF Extraction
<1>6. case.sample_count <= Large!MaxWindows /\ case.edit \in OutputEdits
  BY <1>1 DEF Large!MaxWindows
<1> QED BY <1>2, <1>5, <1>6, ExtractionsVerify
===============================================================================
