----------------------------- MODULE StorageProofs -----------------------------
(***************************************************************************)
(* Proofs about the reservation ledger and the artifact broker beside its  *)
(* other writers, for any finite sets of processes, scopes and digests and *)
(* any sizes and numbers of requests and crashes.                          *)
(*                                                                         *)
(* The ledger sums bytes over directories.  The first part is about sums;  *)
(* where it needs an induction it takes a smallest counterexample, which   *)
(* the library proves to exist below any set of finite sets.  The second is*)
(* about rows, locks and live writers, the third about bytes.              *)
(*                                                                         *)
(* Every step of the broker keeps the invariants of the ledger, though put *)
(* looks for no overlapping row: objects have scopes of their own.  What   *)
(* is the broker's own is which bytes of such a scope are an object, an    *)
(* upload or left by a crash.                                              *)
(***************************************************************************)
EXTENDS StorageBroker, FiniteSetTheorems, TLAPS

-------------------------------------------------------------------------------
(* Sums over finite sets *)

\* The element a fold takes first.
Pick(s) == CHOOSE x \in s : TRUE

\* g adds up f over every subset of T, as the library's fold does.
Adds(f, T, g) ==
  g = [s \in SUBSET T |-> IF s = {} THEN 0 ELSE f[Pick(s)] + g[s \ {Pick(s)}]]

\* Among subsets of a finite set one has no other below it.
LEMMA SomeIsMinimal ==
  ASSUME NEW S, IsFiniteSet(S), NEW B, B \subseteq SUBSET S, B # {}
  PROVE  \E T \in B : \A U \in B : U \subseteq T => U = T
<1>1. IsWellFoundedOn(StrictSubsetOrdering(S), SUBSET S)
  BY FS_StrictSubsetOrderingWellFounded, FS_FiniteSubsetsOfFinite
<1>2. PICK T \in B : \A U \in B : <<U, T>> \notin StrictSubsetOrdering(S)
  BY <1>1, WFMin
<1> QED BY <1>2 DEF StrictSubsetOrdering

\* What one element is picked for is smaller.
LEMMA PickIsIn ==
  ASSUME NEW s, s # {}
  PROVE  /\ Pick(s) \in s /\ s \ {Pick(s)} \subseteq s
         /\ s \ {Pick(s)} # s
<1>1. \E x : x \in s
  OBVIOUS
<1>2. Pick(s) \in s
  BY <1>1 DEF Pick
<1> QED BY <1>2

\* One step of the addition.
LEMMA AddsStep ==
  ASSUME NEW f, NEW T, NEW g, Adds(f, T, g), NEW s \in SUBSET T
  PROVE  /\ s = {} => g[s] = 0
         /\ s # {} => g[s] = f[Pick(s)] + g[s \ {Pick(s)}]
<1>1. g = [r \in SUBSET T |-> IF r = {} THEN 0 ELSE f[Pick(r)] + g[r \ {Pick(r)}]]
  BY DEF Adds
<1>2. g[s] = IF s = {} THEN 0 ELSE f[Pick(s)] + g[s \ {Pick(s)}]
  BY <1>1
<1> QED BY <1>2

\* Two such additions agree where both are defined.
LEMMA AddsAgree ==
  ASSUME NEW f, NEW S, IsFiniteSet(S), NEW T, NEW U, NEW g, NEW h,
         S \subseteq T, S \subseteq U, Adds(f, T, g), Adds(f, U, h)
  PROVE  g[S] = h[S]
<1> DEFINE B == {s \in SUBSET S : g[s] # h[s]}
<1>1. SUFFICES ASSUME B # {} PROVE FALSE
  OBVIOUS
<1>2. PICK s \in B : \A r \in B : r \subseteq s => r = s
  <2>1. B \subseteq SUBSET S
    OBVIOUS
  <2> HIDE DEF B
  <2> QED BY <1>1, <2>1, SomeIsMinimal
<1>3. s \in SUBSET T /\ s \in SUBSET U /\ g[s] # h[s]
  OBVIOUS
<1>4. s # {}
  BY <1>3, AddsStep
<1>5. s \ {Pick(s)} \notin B /\ s \ {Pick(s)} \in SUBSET S
  BY <1>2, <1>4, PickIsIn
<1>6. g[s \ {Pick(s)}] = h[s \ {Pick(s)}]
  BY <1>5
<1> QED BY <1>3, <1>4, <1>6, AddsStep

\* Over a finite set there is such an addition.
LEMMA AddsExists ==
  ASSUME NEW f, NEW S, IsFiniteSet(S)
  PROVE  \E g : Adds(f, S, g)
<1> DEFINE B == {s \in SUBSET S : ~ \E g : Adds(f, s, g)}
<1>1. SUFFICES ASSUME B # {} PROVE FALSE
  OBVIOUS
<1>2. PICK T \in B : \A U \in B : U \subseteq T => U = T
  <2>1. B \subseteq SUBSET S
    OBVIOUS
  <2> HIDE DEF B
  <2> QED BY <1>1, <2>1, SomeIsMinimal
<1> DEFINE G(U) == CHOOSE g : Adds(f, U, g)
           rest(s) == s \ {Pick(s)}
           sum == [s \in SUBSET T |-> IF s = {} THEN 0 ELSE f[Pick(s)] + G(rest(s))[rest(s)]]
<1>3. T \in SUBSET S
  OBVIOUS
<1>4. ASSUME NEW U, U \subseteq T, U # T PROVE Adds(f, U, G(U)) /\ IsFiniteSet(U)
  <2>1. U \in SUBSET S /\ U \notin B
    BY <1>2, <1>3, <1>4
  <2>2. \E g : Adds(f, U, g)
    BY <2>1
  <2>3. IsFiniteSet(U)
    BY <2>1, FS_Subset
  <2> QED BY <2>2, <2>3
<1> HIDE DEF B, G
<1>5. ASSUME NEW u, u \subseteq T, u # T PROVE sum[u] = G(u)[u]
  <2>1. u \in SUBSET T /\ Adds(f, u, G(u)) /\ u \in SUBSET u
    BY <1>4, <1>5
  <2>2. CASE u = {}
    BY <2>1, <2>2, AddsStep
  <2>3. CASE u # {}
    <3>1. rest(u) \subseteq u /\ rest(u) \subseteq T /\ rest(u) # T
      BY <1>5, <2>3, PickIsIn
    <3>2. Adds(f, rest(u), G(rest(u))) /\ IsFiniteSet(rest(u))
      BY <1>4, <3>1
    <3>3. G(u)[rest(u)] = G(rest(u))[rest(u)]
      <4> HIDE DEF rest
      <4> QED BY <2>1, <3>1, <3>2, AddsAgree
    <3>4. G(u)[u] = f[Pick(u)] + G(u)[rest(u)]
      BY <2>1, <2>3, AddsStep
    <3>5. sum[u] = f[Pick(u)] + G(rest(u))[rest(u)]
      <4> HIDE DEF rest
      <4> QED BY <2>1, <2>3
    <3> QED BY <3>3, <3>4, <3>5
  <2> QED BY <2>2, <2>3
<1>6. \A s \in SUBSET T : s # {} => sum[rest(s)] = G(rest(s))[rest(s)]
  <2> SUFFICES ASSUME NEW s \in SUBSET T, s # {} PROVE sum[rest(s)] = G(rest(s))[rest(s)]
    OBVIOUS
  <2>1. rest(s) \subseteq T /\ rest(s) # T
    BY PickIsIn
  <2> HIDE DEF rest, sum
  <2> QED BY <1>5, <2>1
<1>7. sum = [s \in SUBSET T |-> IF s = {} THEN 0 ELSE f[Pick(s)] + sum[rest(s)]]
  <2> DEFINE old(s) == IF s = {} THEN 0 ELSE f[Pick(s)] + G(rest(s))[rest(s)]
             new(s) == IF s = {} THEN 0 ELSE f[Pick(s)] + sum[rest(s)]
  <2>1. \A s \in SUBSET T : old(s) = new(s)
    <3> HIDE DEF sum, rest
    <3> QED BY <1>6
  <2>2. sum = [s \in SUBSET T |-> old(s)]
    OBVIOUS
  <2> HIDE DEF old, new, sum
  <2>3. sum = [s \in SUBSET T |-> new(s)]
    BY <2>1, <2>2
  <2> QED BY <2>3 DEF new
<1>8. Adds(f, T, sum)
  <2> HIDE DEF sum
  <2> QED BY <1>7 DEF Adds
<1> HIDE DEF sum
<1> QED BY <1>2, <1>8 DEF B

\* The library's sum over a finite set, one element at a time.
LEMMA SumStep ==
  ASSUME NEW f, NEW S, IsFiniteSet(S)
  PROVE  /\ S = {} => SumFunctionOnSet(f, S) = 0
         /\ S # {} => SumFunctionOnSet(f, S)
                        = f[Pick(S)] + SumFunctionOnSet(f, S \ {Pick(S)})
<1> DEFINE G(T) == CHOOSE g : Adds(f, T, g)
           R == S \ {Pick(S)}
<1>1. \A T : SumFunctionOnSet(f, T) = G(T)[T]
  BY DEF SumFunctionOnSet, FoldFunctionOnSet, MapThenFoldSet, Adds, Pick
<1>2. IsFiniteSet(R) /\ R \subseteq S
  BY FS_RemoveElement
<1>3. Adds(f, S, G(S)) /\ Adds(f, R, G(R))
  <2>1. (\E g : Adds(f, S, g)) /\ (\E g : Adds(f, R, g))
    <3> HIDE DEF R
    <3> QED BY <1>2, AddsExists
  <2> QED BY <2>1
<1> HIDE DEF G
<1>4. G(S)[R] = G(R)[R]
  <2> HIDE DEF R
  <2> QED BY <1>2, <1>3, AddsAgree
<1>5. S \in SUBSET S
  OBVIOUS
<1>6. /\ S = {} => G(S)[S] = 0
      /\ S # {} => G(S)[S] = f[Pick(S)] + G(S)[R]
  BY <1>3, <1>5, AddsStep
<1> QED BY <1>1, <1>4, <1>6

\* A sum of naturals is one.
LEMMA SumType ==
  ASSUME NEW f, NEW S, IsFiniteSet(S), \A x \in S : f[x] \in Nat
  PROVE  SumFunctionOnSet(f, S) \in Nat
<1> DEFINE B == {T \in SUBSET S : SumFunctionOnSet(f, T) \notin Nat}
<1>1. SUFFICES ASSUME B # {} PROVE FALSE
  OBVIOUS
<1>2. PICK T \in B : \A U \in B : U \subseteq T => U = T
  <2>1. B \subseteq SUBSET S
    OBVIOUS
  <2> HIDE DEF B
  <2> QED BY <1>1, <2>1, SomeIsMinimal
<1>3. T \in SUBSET S /\ SumFunctionOnSet(f, T) \notin Nat /\ IsFiniteSet(T)
  BY FS_Subset
<1>4. T # {}
  BY <1>3, SumStep
<1>5. Pick(T) \in T /\ T \ {Pick(T)} \in SUBSET S /\ T \ {Pick(T)} \notin B
  BY <1>2, <1>3, <1>4, PickIsIn
<1>6. SumFunctionOnSet(f, T \ {Pick(T)}) \in Nat /\ f[Pick(T)] \in Nat
  BY <1>3, <1>5
<1>7. SumFunctionOnSet(f, T) = f[Pick(T)] + SumFunctionOnSet(f, T \ {Pick(T)})
  BY <1>3, <1>4, SumStep
<1> QED BY <1>3, <1>6, <1>7

\* Any element can be the one that is added last.
LEMMA SumRemove ==
  ASSUME NEW f, NEW S, IsFiniteSet(S), \A x \in S : f[x] \in Nat, NEW a \in S
  PROVE  SumFunctionOnSet(f, S) = f[a] + SumFunctionOnSet(f, S \ {a})
<1> DEFINE Odd(T) == \E x \in T : SumFunctionOnSet(f, T) # f[x] + SumFunctionOnSet(f, T \ {x})
           B == {T \in SUBSET S : Odd(T)}
<1>1. SUFFICES ASSUME B # {} PROVE FALSE
  <2>1. CASE B = {}
    BY <2>1
  <2> QED BY <1>1, <2>1
<1>2. PICK T \in B : \A U \in B : U \subseteq T => U = T
  <2>1. B \subseteq SUBSET S
    OBVIOUS
  <2> HIDE DEF B
  <2> QED BY <1>1, <2>1, SomeIsMinimal
<1>3. PICK x \in T : SumFunctionOnSet(f, T) # f[x] + SumFunctionOnSet(f, T \ {x})
  OBVIOUS
<1>4. T \in SUBSET S /\ IsFiniteSet(T) /\ T # {}
  BY FS_Subset
<1> DEFINE p == Pick(T)
<1>5. p \in T /\ SumFunctionOnSet(f, T) = f[p] + SumFunctionOnSet(f, T \ {p})
  BY <1>4, PickIsIn, SumStep
<1> HIDE DEF p
<1>6. x # p
  BY <1>3, <1>5
<1>7. ~Odd(T \ {p}) /\ ~Odd(T \ {x})
  <2>1. T \ {p} \in SUBSET S /\ T \ {p} # T /\ T \ {x} \in SUBSET S /\ T \ {x} # T
    BY <1>4, <1>5
  <2> HIDE DEF Odd
  <2> QED BY <1>2, <2>1
<1>8. SumFunctionOnSet(f, T \ {p}) = f[x] + SumFunctionOnSet(f, (T \ {p}) \ {x})
  BY <1>6, <1>7
<1>9. SumFunctionOnSet(f, T \ {x}) = f[p] + SumFunctionOnSet(f, (T \ {x}) \ {p})
  BY <1>5, <1>6, <1>7
<1> DEFINE rest == SumFunctionOnSet(f, (T \ {p}) \ {x})
<1>10. (T \ {p}) \ {x} = (T \ {x}) \ {p}
  OBVIOUS
<1>11. rest \in Nat /\ f[x] \in Nat /\ f[p] \in Nat
  <2>1. (T \ {p}) \ {x} \subseteq S
    BY <1>4
  <2> QED BY <1>4, <1>5, <2>1, FS_Subset, SumType
<1>12. SumFunctionOnSet(f, T \ {x}) = f[p] + rest
  BY <1>9, <1>10
<1> HIDE DEF rest
<1> QED BY <1>3, <1>5, <1>8, <1>11, <1>12 DEF rest

\* A sum depends on what is added only.
LEMMA SumSame ==
  ASSUME NEW f, NEW g, NEW S, IsFiniteSet(S), \A x \in S : f[x] = g[x]
  PROVE  SumFunctionOnSet(f, S) = SumFunctionOnSet(g, S)
<1> DEFINE B == {T \in SUBSET S : SumFunctionOnSet(f, T) # SumFunctionOnSet(g, T)}
<1>1. SUFFICES ASSUME B # {} PROVE FALSE
  OBVIOUS
<1>2. PICK T \in B : \A U \in B : U \subseteq T => U = T
  <2>1. B \subseteq SUBSET S
    OBVIOUS
  <2> HIDE DEF B
  <2> QED BY <1>1, <2>1, SomeIsMinimal
<1>3. /\ T \in SUBSET S /\ IsFiniteSet(T)
      /\ SumFunctionOnSet(f, T) # SumFunctionOnSet(g, T)
  BY FS_Subset
<1>4. T # {}
  BY <1>3, SumStep
<1>5. Pick(T) \in T /\ T \ {Pick(T)} \in SUBSET S /\ T \ {Pick(T)} \notin B
  BY <1>2, <1>3, <1>4, PickIsIn
<1>6. /\ SumFunctionOnSet(f, T \ {Pick(T)}) = SumFunctionOnSet(g, T \ {Pick(T)})
      /\ f[Pick(T)] = g[Pick(T)]
  BY <1>3, <1>5
<1> QED BY <1>3, <1>4, <1>6, SumStep

\* Less to add, less in sum.
LEMMA SumAtMost ==
  ASSUME NEW f, NEW g, NEW S, IsFiniteSet(S),
         \A x \in S : f[x] \in Nat /\ g[x] \in Nat /\ f[x] <= g[x]
  PROVE  SumFunctionOnSet(f, S) <= SumFunctionOnSet(g, S)
<1> DEFINE B == {T \in SUBSET S : ~(SumFunctionOnSet(f, T) <= SumFunctionOnSet(g, T))}
<1>1. SUFFICES ASSUME B # {} PROVE FALSE
  OBVIOUS
<1>2. PICK T \in B : \A U \in B : U \subseteq T => U = T
  <2>1. B \subseteq SUBSET S
    OBVIOUS
  <2> HIDE DEF B
  <2> QED BY <1>1, <2>1, SomeIsMinimal
<1>3. /\ T \in SUBSET S /\ IsFiniteSet(T)
      /\ ~(SumFunctionOnSet(f, T) <= SumFunctionOnSet(g, T))
  BY FS_Subset
<1>4. T # {}
  <2>1. T = {} => SumFunctionOnSet(f, T) = 0 /\ SumFunctionOnSet(g, T) = 0
    BY <1>3, SumStep
  <2> QED BY <1>3, <2>1
<1> DEFINE p == Pick(T)
           R == T \ {p}
<1>5. p \in T /\ R \in SUBSET S /\ R \notin B
  BY <1>2, <1>3, <1>4, PickIsIn
<1>6. /\ SumFunctionOnSet(f, T) = f[p] + SumFunctionOnSet(f, R)
      /\ SumFunctionOnSet(g, T) = g[p] + SumFunctionOnSet(g, R)
  BY <1>3, <1>4, SumStep
<1>7. SumFunctionOnSet(f, R) <= SumFunctionOnSet(g, R)
  BY <1>5
<1>8. SumFunctionOnSet(f, R) \in Nat /\ SumFunctionOnSet(g, R) \in Nat
  <2> HIDE DEF R
  <2>1. IsFiniteSet(R) /\ R \subseteq S
    BY <1>5, FS_Subset
  <2> QED BY <2>1, SumType
<1>9. f[p] \in Nat /\ g[p] \in Nat /\ f[p] <= g[p]
  BY <1>3, <1>5
<1> HIDE DEF R, p
<1> QED BY <1>3, <1>6, <1>7, <1>8, <1>9

\* Nothing to add, nothing in sum.
LEMMA SumZero ==
  ASSUME NEW f, NEW S, IsFiniteSet(S), \A x \in S : f[x] = 0
  PROVE  SumFunctionOnSet(f, S) = 0
<1> DEFINE B == {T \in SUBSET S : SumFunctionOnSet(f, T) # 0}
<1>1. SUFFICES ASSUME B # {} PROVE FALSE
  OBVIOUS
<1>2. PICK T \in B : \A U \in B : U \subseteq T => U = T
  <2>1. B \subseteq SUBSET S
    OBVIOUS
  <2> HIDE DEF B
  <2> QED BY <1>1, <2>1, SomeIsMinimal
<1>3. T \in SUBSET S /\ IsFiniteSet(T) /\ SumFunctionOnSet(f, T) # 0
  BY FS_Subset
<1>4. T # {}
  BY <1>3, SumStep
<1>5. Pick(T) \in T /\ T \ {Pick(T)} \in SUBSET S /\ T \ {Pick(T)} \notin B
  BY <1>2, <1>3, <1>4, PickIsIn
<1>6. SumFunctionOnSet(f, T \ {Pick(T)}) = 0 /\ f[Pick(T)] = 0
  BY <1>3, <1>5
<1> QED BY <1>3, <1>4, <1>6, SumStep

\* One addend changes, and the sum with it.
LEMMA SumChange ==
  ASSUME NEW f, NEW g, NEW S, IsFiniteSet(S), NEW a \in S,
         \A x \in S : f[x] \in Nat /\ g[x] \in Nat,
         \A x \in S \ {a} : f[x] = g[x]
  PROVE  SumFunctionOnSet(f, S) + g[a] = SumFunctionOnSet(g, S) + f[a]
<1> DEFINE R == S \ {a}
<1>1. IsFiniteSet(R)
  BY FS_RemoveElement
<1>2. SumFunctionOnSet(f, R) = SumFunctionOnSet(g, R) /\ SumFunctionOnSet(f, R) \in Nat
  <2>1. \A x \in R : f[x] = g[x] /\ f[x] \in Nat
    OBVIOUS
  <2> HIDE DEF R
  <2> QED BY <1>1, <2>1, SumSame, SumType
<1>3. /\ SumFunctionOnSet(f, S) = f[a] + SumFunctionOnSet(f, R)
      /\ SumFunctionOnSet(g, S) = g[a] + SumFunctionOnSet(g, R)
  BY SumRemove
<1>4. f[a] \in Nat /\ g[a] \in Nat
  OBVIOUS
<1> HIDE DEF R
<1> QED BY <1>2, <1>3, <1>4

\* Fewer to add, less in sum.
LEMMA SumSubset ==
  ASSUME NEW f, NEW S, IsFiniteSet(S), \A x \in S : f[x] \in Nat,
         NEW T, T \subseteq S
  PROVE  SumFunctionOnSet(f, T) <= SumFunctionOnSet(f, S)
<1> DEFINE B == {R \in SUBSET S :
                   T \subseteq R /\ ~(SumFunctionOnSet(f, T) <= SumFunctionOnSet(f, R))}
<1>1. SUFFICES ASSUME B # {} PROVE FALSE
  OBVIOUS
<1>2. PICK R \in B : \A U \in B : U \subseteq R => U = R
  <2>1. B \subseteq SUBSET S
    OBVIOUS
  <2> HIDE DEF B
  <2> QED BY <1>1, <2>1, SomeIsMinimal
<1>3. /\ R \in SUBSET S /\ IsFiniteSet(R) /\ T \subseteq R /\ IsFiniteSet(T)
      /\ ~(SumFunctionOnSet(f, T) <= SumFunctionOnSet(f, R))
  BY FS_Subset
<1>4. SumFunctionOnSet(f, T) \in Nat
  BY <1>3, SumType
<1>5. PICK x \in R : x \notin T
  BY <1>3, <1>4
<1> DEFINE Q == R \ {x}
<1>6. Q \notin B /\ Q \in SUBSET S /\ T \subseteq Q /\ Q # R
  BY <1>2, <1>3, <1>5
<1>7. SumFunctionOnSet(f, T) <= SumFunctionOnSet(f, Q)
  BY <1>6
<1>8. SumFunctionOnSet(f, R) = f[x] + SumFunctionOnSet(f, Q) /\ f[x] \in Nat
  BY <1>3, SumRemove
<1>9. SumFunctionOnSet(f, Q) \in Nat
  <2> HIDE DEF Q
  <2> QED BY <1>6, FS_Subset, SumType
<1> HIDE DEF Q, B
<1> QED BY <1>3, <1>4, <1>7, <1>8, <1>9

-------------------------------------------------------------------------------
(* Rows, locks and live writers *)

\* A process that is not idle has the kernel lock of its scope.
LocksHeld ==
  \A w \in Writers :
    writer[w].pc # "idle" => /\ writer[w].scope \in Scopes
                             /\ lock[writer[w].scope] = w

\* Unfinished rows are of scopes none of which lies below another.
LedgerDisjoint ==
  \A s, t \in Unfinished(ledger) : s # t => <<s, t>> \notin Inside

IInv == TypeOK /\ LocksHeld /\ HeadroomKept /\ LedgerDisjoint

\* The scope of a live writer is unfinished.
LEMMA LiveIsUnfinished ==
  ASSUME IInv, NEW w \in Writers, Writing(w)
  PROVE  /\ writer[w].scope \in Scopes /\ lock[writer[w].scope] = w
         /\ writer[w].scope \in Unfinished(ledger)
<1>1. writer[w].scope \in Scopes /\ lock[writer[w].scope] = w
  BY DEF IInv, LocksHeld, Writing
<1>2. ledger[writer[w].scope] = [status |-> "active",
                                 capacity |-> writer[w].capacity]
  BY DEF IInv, HeadroomKept
<1>3. ledger[writer[w].scope].status = "active"
  <2> DEFINE row == ledger[writer[w].scope]
             capacity == writer[w].capacity
  <2>1. row = [status |-> "active", capacity |-> capacity]
    BY <1>2
  <2> HIDE DEF row, capacity
  <2>2. row.status = "active"
    BY <2>1
  <2> QED BY <2>2 DEF row
<1> QED BY <1>1, <1>3 DEF Unfinished

\* Initially nothing is reserved, locked or written.
LEMMA InitIInv == ASSUME Init PROVE IInv
  BY QuotaAssumption, Zenon DEF Init, IInv, TypeOK, LocksHeld, HeadroomKept, LedgerDisjoint,
     Unfinished, Writing, Idle, Rows, Processes, Statuses

\* Taking a free lock disturbs no writer: its lock is not free.
LEMMA TakeKeeps ==
  ASSUME IInv, NEW w \in Writers, NEW s \in Scopes, NEW capacity \in Nat,
         NEW pc \in {"holding", "reconciling"}, Take(w, s, pc, capacity)
  PROVE  IInv'
<1>1. lock[s] = None /\ None \notin Writers
  BY QuotaAssumption DEF Take, LockFree
<1>2. TypeOK'
  BY DEF IInv, TypeOK, Take, Processes
<1>3. LocksHeld'
  BY <1>1 DEF IInv, TypeOK, Take, LocksHeld
<1>4. HeadroomKept'
  BY DEF IInv, TypeOK, Take, HeadroomKept, Writing
<1>5. LedgerDisjoint'
  BY DEF IInv, Take, LedgerDisjoint, Unfinished
<1> QED BY <1>2, <1>3, <1>4, <1>5 DEF IInv

\* The new row overlaps no unfinished one, and its scope has no other writer.
LEMMA GrantKeeps ==
  ASSUME IInv, NEW w \in Writers, Grant(w)
  PROVE  IInv'
<1> DEFINE s == writer[w].scope
           capacity == writer[w].capacity
<1>1. s \in Scopes /\ lock[s] = w /\ capacity \in Nat
  BY DEF IInv, TypeOK, LocksHeld, Grant, Processes
<1>2. PICK left \in 0 .. capacity :
        writer' = [writer EXCEPT ![w] = [pc |-> "writing", scope |-> s,
                                         capacity |-> capacity, left |-> left]]
  BY DEF Grant
<1>3. /\ ledger' = [ledger EXCEPT ![s] = [status |-> "active", capacity |-> capacity]]
      /\ UNCHANGED <<files, lock, stray>>
  BY DEF Grant, Reserved
<1>4. \A t \in Unfinished(ledger) :
        t # s => <<s, t>> \notin Inside /\ <<t, s>> \notin Inside
  BY DEF Grant, Overlapping
<1> HIDE DEF s, capacity
<1>5. left \in Nat
  BY <1>1
<1>6. TypeOK'
  <2>1. [status |-> "active", capacity |-> capacity] \in Rows
    BY <1>1 DEF Rows, Statuses
  <2>2. [pc |-> "writing", scope |-> s, capacity |-> capacity, left |-> left]
          \in Processes
    BY <1>1, <1>5 DEF Processes
  <2> QED BY <1>2, <1>3, <2>1, <2>2 DEF IInv, TypeOK
<1>7. LocksHeld'
  BY <1>1, <1>2, <1>3 DEF IInv, TypeOK, LocksHeld
<1>8. HeadroomKept'
  <2> SUFFICES ASSUME NEW v \in Writers, Writing(v)'
               PROVE  (ledger[writer[v].scope]
                        = [status |-> "active", capacity |-> writer[v].capacity])'
    BY DEF HeadroomKept
  <2>1. CASE v = w
    BY <2>1, <1>1, <1>2, <1>3 DEF IInv, TypeOK
  <2>2. CASE v # w
    <3>1. writer'[v] = writer[v] /\ Writing(v)
      BY <2>2, <1>2 DEF IInv, TypeOK, Writing
    <3>2. writer[v].scope # s
      BY <2>2, <3>1, <1>1 DEF IInv, LocksHeld, Writing
    <3> QED BY <3>1, <3>2, <1>3 DEF IInv, TypeOK, HeadroomKept
  <2> QED BY <2>1, <2>2
<1>9. LedgerDisjoint'
  <2>1. \A t \in Unfinished(ledger)' : t = s \/ t \in Unfinished(ledger)
    BY <1>3 DEF Unfinished, IInv, TypeOK
  <2> QED BY <2>1, <1>4 DEF IInv, LedgerDisjoint
<1> QED BY <1>6, <1>7, <1>8, <1>9 DEF IInv

\* The caller writes: only its own bound and the files change.
LEMMA WriteKeeps ==
  ASSUME IInv, NEW w \in Writers, NEW t \in Scopes, NEW n \in Nat, Write(w, t, n)
  PROVE  IInv'
<1> DEFINE p == writer[w]
<1>1. /\ p.pc = "writing" /\ n <= p.left
      /\ files' = [files EXCEPT ![t] = @ + n]
      /\ writer' = [writer EXCEPT ![w].left = @ - n]
      /\ UNCHANGED <<ledger, lock, stray>>
  BY DEF Write, OwnBound
<1>2. p \in Processes
  BY DEF IInv, TypeOK
<1>3. p.left \in Nat
  BY <1>2 DEF Processes
<1>4. p.left - n \in Nat
  BY <1>1, <1>3
<1>5. \A v \in Writers : /\ writer'[v].pc = writer[v].pc
                         /\ writer'[v].scope = writer[v].scope
                         /\ writer'[v].capacity = writer[v].capacity
  BY <1>1 DEF IInv, TypeOK, Processes
<1>6. TypeOK'
  <2>1. files' \in [Scopes -> Nat]
    BY <1>1 DEF IInv, TypeOK
  <2>2. writer' \in [Writers -> Processes]
    BY <1>1, <1>4 DEF IInv, TypeOK, Processes
  <2> QED BY <1>1, <2>1, <2>2 DEF IInv, TypeOK
<1> HIDE DEF p
<1>7. LocksHeld'
  BY <1>1, <1>5 DEF IInv, LocksHeld
<1>8. HeadroomKept'
  BY <1>1, <1>5 DEF IInv, HeadroomKept, Writing
<1>9. LedgerDisjoint'
  BY <1>1 DEF IInv, LedgerDisjoint, Unfinished
<1> QED BY <1>6, <1>7, <1>8, <1>9 DEF IInv

\* A process stops with its row as it was, or closed in a way that reserves
\* nothing new, and may have changed files.
LEMMA StopKeeps ==
  ASSUME IInv, NEW w \in Writers, writer[w].pc # "idle", Release(w),
         files' \in [Scopes -> Nat], stray' \in Nat,
         \/ ledger' = ledger
         \/ CloseRow(w, "failed") /\ Writing(w)
         \/ CloseRow(w, "complete")
         \/ CloseRow(w, "reconciled")
  PROVE  IInv'
<1> DEFINE s == writer[w].scope
<1>1. s \in Scopes /\ lock[s] = w
  BY DEF IInv, LocksHeld
<1>2. /\ lock' = [lock EXCEPT ![s] = None]
      /\ writer' = [writer EXCEPT ![w] = Idle]
  BY DEF Release
<1>3. PICK status \in Statuses :
        /\ ledger' = ledger \/ ledger' = [ledger EXCEPT ![s].status = status]
        /\ status \in {"active", "failed"} => s \in Unfinished(ledger)
  <2>1. CASE ledger' = ledger
    BY <2>1 DEF Statuses
  <2>2. CASE CloseRow(w, "failed") /\ Writing(w)
    <3>2. s \in Unfinished(ledger)
      BY <2>2, LiveIsUnfinished
    <3>3. ledger' = [ledger EXCEPT ![s].status = "failed"]
      BY <2>2 DEF CloseRow
    <3> QED BY <3>2, <3>3 DEF Statuses
  <2>3. CASE CloseRow(w, "complete") \/ CloseRow(w, "reconciled")
    BY <2>3 DEF CloseRow, Statuses
  <2> QED BY <2>1, <2>2, <2>3
<1> HIDE DEF s
<1>4. TypeOK'
  <2>1. ledger' \in [Scopes -> Rows]
    BY <1>3, <1>1 DEF IInv, TypeOK, Rows
  <2>2. Idle \in Processes
    BY DEF Idle, Processes
  <2> QED BY <1>1, <1>2, <2>1, <2>2 DEF IInv, TypeOK
<1>5. \A v \in Writers : writer'[v].pc # "idle"
         => v # w /\ writer'[v] = writer[v] /\ writer[v].scope # s
  BY <1>1, <1>2 DEF IInv, TypeOK, LocksHeld, Idle
<1>6. LocksHeld'
  BY <1>1, <1>2, <1>5 DEF IInv, TypeOK, LocksHeld
<1>7. HeadroomKept'
  BY <1>3, <1>5 DEF IInv, TypeOK, HeadroomKept, LocksHeld, Writing
<1>8. LedgerDisjoint'
  <2>1. Unfinished(ledger)' \subseteq Unfinished(ledger)
    BY <1>1, <1>3 DEF Unfinished, IInv, TypeOK, Rows
  <2> QED BY <2>1 DEF IInv, LedgerDisjoint
<1> QED BY <1>4, <1>6, <1>7, <1>8 DEF IInv

LEMMA ReleaseKeeps ==
  ASSUME IInv, NEW w \in Writers, writer[w].pc # "idle", Release(w),
         UNCHANGED <<files, stray>>,
         \/ ledger' = ledger
         \/ CloseRow(w, "failed") /\ Writing(w)
         \/ CloseRow(w, "complete")
         \/ CloseRow(w, "reconciled")
  PROVE  IInv'
<1>1. files' \in [Scopes -> Nat] /\ stray' \in Nat
  BY DEF IInv, TypeOK
<1> QED BY <1>1, StopKeeps

\* Files that come and go outside the ledger touch no row.
LEMMA OutsideKeeps ==
  ASSUME IInv, NEW s \in Scopes, NEW n \in Nat, Remove(s, n) \/ Stray(s, n)
  PROVE  IInv'
<1>1. UNCHANGED <<ledger, lock, writer>>
  BY DEF Remove, Stray
<1>2. TypeOK'
  <2>1. files' \in [Scopes -> Nat] /\ stray' \in Nat
    <3>1. files[s] \in Nat
      BY DEF IInv, TypeOK
    <3> QED BY <3>1 DEF Remove, Stray, IInv, TypeOK
  <2> QED BY <1>1, <2>1 DEF IInv, TypeOK
<1> QED BY <1>1, <1>2 DEF IInv, LocksHeld, HeadroomKept, LedgerDisjoint, Writing, Unfinished

\* Every operation of a process preserves the invariant.
LEMMA OperationKeeps ==
  ASSUME IInv, NEW w \in Writers, Operation(w)
  PROVE  IInv'
<1>1. ASSUME NEW s \in Scopes, NEW c \in Capacities, Hold(w, s, c) PROVE IInv'
  BY <1>1, TakeKeeps, QuotaAssumption DEF Hold
<1>2. ASSUME Grant(w) PROVE IInv'
  BY <1>2, GrantKeeps
<1>3. ASSUME Refuse(w) \/ Abandon(w) \/ UnknownReservation(w) PROVE IInv'
  BY <1>3, ReleaseKeeps DEF Refuse, Abandon, UnknownReservation
<1>4. ASSUME NEW t \in Scopes, NEW n \in 1 .. Limit, Write(w, t, n) PROVE IInv'
  BY <1>4, WriteKeeps, QuotaAssumption
<1>5. ASSUME Complete(w) PROVE IInv'
  BY <1>5, ReleaseKeeps DEF Complete, Writing
<1>6. ASSUME Fail(w) PROVE IInv'
  BY <1>6, ReleaseKeeps DEF Fail, Writing
<1>7. ASSUME NEW s \in Scopes, StartReconcile(w, s) PROVE IInv'
  BY <1>7, TakeKeeps DEF StartReconcile
<1>8. ASSUME Reconcile(w) PROVE IInv'
  BY <1>8, ReleaseKeeps DEF Reconcile
<1> QED BY <1>1, <1>2, <1>3, <1>4, <1>5, <1>6, <1>7, <1>8 DEF Operation

\* The invariant is inductive.
LEMMA NextIInv == ASSUME IInv, [Next]_vars PROVE IInv'
<1>1. ASSUME NEW w \in Writers, Operation(w) PROVE IInv'
  BY <1>1, OperationKeeps
<1>2. ASSUME NEW s \in Scopes, NEW n \in 1 .. Limit, Remove(s, n) \/ Stray(s, n)
      PROVE  IInv'
  BY <1>2, OutsideKeeps, QuotaAssumption
<1>3. CASE UNCHANGED vars
  <2>1. TypeOK' /\ LocksHeld'
    BY <1>3 DEF vars, IInv, TypeOK, LocksHeld
  <2>2. HeadroomKept' /\ LedgerDisjoint'
    BY <1>3 DEF vars, IInv, HeadroomKept, LedgerDisjoint, Writing, Unfinished
  <2> QED BY <2>1, <2>2 DEF IInv
<1> QED BY <1>1, <1>2, <1>3 DEF Next

-------------------------------------------------------------------------------
(* Bytes *)

\* The ledger's sums, of any files, rows and processes.
SizeOf(F, s) == SumFunctionOnSet(F, Below(s))

UnusedOf(F, L) ==
  [s \in Scopes |-> IF L[s].capacity > SizeOf(F, s) THEN L[s].capacity - SizeOf(F, s)
                                                   ELSE 0]

ChargedOf(F, L) ==
  SumFunctionOnSet(F, Scopes) + SumFunctionOnSet(UnusedOf(F, L), Unfinished(L))

\* What a writer may still write beyond the unused part of its scope's row.
ExcessOf(F, L, W) ==
  [w \in Writers |->
     IF W[w].pc = "writing" /\ W[w].left > UnusedOf(F, L)[W[w].scope]
     THEN W[w].left - UnusedOf(F, L)[W[w].scope] ELSE 0]

OutrunOf(F, L, W) == SumFunctionOnSet(ExcessOf(F, L, W), Writers)

\* Live writers have unfinished scopes of their own, none below another.
Separate(L, W) ==
  /\ \A s, t \in Unfinished(L) : s # t => <<s, t>> \notin Inside
  /\ \A w \in Writers : W[w].pc = "writing" => W[w].scope \in Unfinished(L)
  /\ \A v, w \in Writers :
       W[v].pc = "writing" /\ W[w].pc = "writing" /\ W[v].scope = W[w].scope => v = w

Ledgers(F, L, W) ==
  /\ F \in [Scopes -> Nat] /\ L \in [Scopes -> Rows] /\ W \in [Writers -> Processes]
  /\ Separate(L, W)

LEMMA Amounts ==
  ASSUME NEW F, NEW L, NEW W, Ledgers(F, L, W)
  PROVE  /\ \A s \in Scopes : SizeOf(F, s) \in Nat /\ UnusedOf(F, L)[s] \in Nat
         /\ \A w \in Writers : ExcessOf(F, L, W)[w] \in Nat
         /\ IsFiniteSet(Unfinished(L)) /\ Unfinished(L) \subseteq Scopes
         /\ SumFunctionOnSet(F, Scopes) \in Nat
         /\ SumFunctionOnSet(UnusedOf(F, L), Unfinished(L)) \in Nat
         /\ ChargedOf(F, L) \in Nat /\ OutrunOf(F, L, W) \in Nat
<1>1. IsFiniteSet(Scopes) /\ IsFiniteSet(Writers)
  BY QuotaAssumption
<1>2. F \in [Scopes -> Nat] /\ L \in [Scopes -> Rows] /\ W \in [Writers -> Processes]
  BY DEF Ledgers
<1>3. ASSUME NEW s \in Scopes PROVE SizeOf(F, s) \in Nat /\ UnusedOf(F, L)[s] \in Nat
  <2>1. IsFiniteSet(Below(s)) /\ Below(s) \subseteq Scopes
    BY <1>1, FS_Subset DEF Below
  <2>2. SizeOf(F, s) \in Nat
    BY <1>2, <2>1, SumType DEF SizeOf
  <2>3. L[s].capacity \in Nat
    BY <1>2 DEF Rows
  <2> QED BY <2>2, <2>3 DEF UnusedOf
<1>4. ASSUME NEW w \in Writers PROVE ExcessOf(F, L, W)[w] \in Nat
  <2>1. W[w].left \in Nat
    BY <1>2 DEF Processes
  <2>2. CASE W[w].pc = "writing"
    <3>1. W[w].scope \in Scopes
      BY <2>2 DEF Ledgers, Separate, Unfinished
    <3>2. UnusedOf(F, L)[W[w].scope] \in Nat
      BY <1>3, <3>1
    <3> QED BY <2>1, <3>2 DEF ExcessOf
  <2>3. CASE W[w].pc # "writing"
    BY <2>3 DEF ExcessOf
  <2> QED BY <2>2, <2>3
<1>5. IsFiniteSet(Unfinished(L)) /\ Unfinished(L) \subseteq Scopes
  BY <1>1, FS_Subset DEF Unfinished
<1>6. SumFunctionOnSet(F, Scopes) \in Nat
  BY <1>1, <1>2, SumType
<1>7. SumFunctionOnSet(UnusedOf(F, L), Unfinished(L)) \in Nat
  BY <1>3, <1>5, SumType
<1>8. OutrunOf(F, L, W) \in Nat
  BY <1>1, <1>4, SumType DEF OutrunOf
<1> QED BY <1>3, <1>4, <1>5, <1>6, <1>7, <1>8 DEF ChargedOf

\* In a tree no byte lies in two unfinished scopes.
LEMMA OneCovers ==
  ASSUME NEW F, NEW L, NEW W, Ledgers(F, L, W), NEW t \in Scopes,
         NEW r \in Unfinished(L), NEW s \in Unfinished(L), t \in Below(r), t \in Below(s)
  PROVE  r = s
<1>1. r \in Scopes /\ s \in Scopes
  BY DEF Unfinished
<1>2. r # s => <<r, s>> \notin Inside /\ <<s, r>> \notin Inside
  BY DEF Ledgers, Separate
<1> QED BY <1>1, <1>2, ScopesAreATree DEF Below

\* Bytes at t are bytes of the scopes above it.
LEMMA SizeGrows ==
  ASSUME NEW F \in [Scopes -> Nat], NEW G \in [Scopes -> Nat], NEW t \in Scopes,
         \A x \in Scopes \ {t} : G[x] = F[x], NEW s \in Scopes
  PROVE  /\ t \in Below(s) => SizeOf(F, s) + G[t] = SizeOf(G, s) + F[t]
         /\ t \notin Below(s) => SizeOf(G, s) = SizeOf(F, s)
<1>1. IsFiniteSet(Below(s)) /\ Below(s) \subseteq Scopes
  BY QuotaAssumption, FS_Subset DEF Below
<1>2. CASE t \in Below(s)
  <2>1. /\ \A x \in Below(s) : F[x] \in Nat /\ G[x] \in Nat
        /\ \A x \in Below(s) \ {t} : F[x] = G[x]
    BY <1>1
  <2> QED BY <1>1, <1>2, <2>1, SumChange DEF SizeOf
<1>3. CASE t \notin Below(s)
  <2>1. \A x \in Below(s) : F[x] = G[x]
    BY <1>1, <1>3
  <2> QED BY <1>1, <1>3, <2>1, SumSame DEF SizeOf
<1> QED BY <1>2, <1>3

\* The unused part of a capacity after n bytes were added at t.
LEMMA UnusedShrinks ==
  ASSUME NEW F \in [Scopes -> Nat], NEW L \in [Scopes -> Rows],
         NEW G \in [Scopes -> Nat], NEW t \in Scopes, NEW n \in Nat,
         G[t] = F[t] + n, \A x \in Scopes \ {t} : G[x] = F[x], NEW s \in Scopes
  PROVE  /\ t \notin Below(s) => UnusedOf(F, L)[s] = UnusedOf(G, L)[s]
         /\ UnusedOf(G, L)[s] <= UnusedOf(F, L)[s]
         /\ UnusedOf(F, L)[s] <= UnusedOf(G, L)[s] + n
         /\ \/ UnusedOf(G, L)[s] = 0 \/ t \notin Below(s)
            \/ UnusedOf(F, L)[s] = UnusedOf(G, L)[s] + n
<1> DEFINE k == L[s].capacity
<1>2. k \in Nat /\ F[t] \in Nat
  BY DEF Rows
<1>3. IsFiniteSet(Below(s)) /\ Below(s) \subseteq Scopes
  BY QuotaAssumption, FS_Subset DEF Below
<1>4. SizeOf(F, s) \in Nat /\ SizeOf(G, s) \in Nat
  BY <1>3, SumType DEF SizeOf
<1>5. /\ t \in Below(s) => SizeOf(F, s) + G[t] = SizeOf(G, s) + F[t]
      /\ t \notin Below(s) => SizeOf(G, s) = SizeOf(F, s)
  BY SizeGrows
<1>6. /\ UnusedOf(F, L)[s] = IF k > SizeOf(F, s) THEN k - SizeOf(F, s) ELSE 0
      /\ UnusedOf(G, L)[s] = IF k > SizeOf(G, s) THEN k - SizeOf(G, s) ELSE 0
  BY DEF UnusedOf
<1> HIDE DEF k
<1>7. t \in Below(s) => SizeOf(G, s) = SizeOf(F, s) + n
  BY <1>2, <1>4, <1>5
<1> QED BY <1>2, <1>4, <1>5, <1>6, <1>7

\* The unused part of a capacity after n bytes vanished at t.
LEMMA UnusedGrows ==
  ASSUME NEW F \in [Scopes -> Nat], NEW L \in [Scopes -> Rows],
         NEW G \in [Scopes -> Nat], NEW t \in Scopes, NEW n \in Nat,
         F[t] = G[t] + n, \A x \in Scopes \ {t} : F[x] = G[x],
         NEW K, NEW s \in Scopes, K[s].capacity = L[s].capacity
  PROVE  /\ t \notin Below(s) => UnusedOf(F, L)[s] = UnusedOf(G, K)[s]
         /\ UnusedOf(F, L)[s] <= UnusedOf(G, K)[s]
         /\ UnusedOf(G, K)[s] <= UnusedOf(F, L)[s] + n
<1>1. UnusedOf(G, K)[s] = UnusedOf(G, L)[s]
  BY DEF UnusedOf
<1>2. /\ t \notin Below(s) => UnusedOf(G, L)[s] = UnusedOf(F, L)[s]
      /\ UnusedOf(F, L)[s] <= UnusedOf(G, L)[s]
      /\ UnusedOf(G, L)[s] <= UnusedOf(F, L)[s] + n
  BY UnusedShrinks
<1> QED BY <1>1, <1>2

\* Bytes a writer had left cost nothing; the others cost themselves.
LEMMA GrowthIsPaid ==
  ASSUME NEW F, NEW L, NEW W, NEW V, Ledgers(F, L, W),
         NEW t \in Scopes, NEW n \in Nat, NEW m \in Nat, m <= n,
         \/ m = 0 /\ V = W
         \/ \E w \in Writers : /\ W[w].pc = "writing" /\ t \in Below(W[w].scope)
                               /\ m <= W[w].left
                               /\ V = [W EXCEPT ![w].left = @ - m]
  PROVE  LET G == [F EXCEPT ![t] = @ + n]
         IN  /\ OutrunOf(G, L, V) <= OutrunOf(F, L, W) + (n - m)
             /\ ChargedOf(G, L) + OutrunOf(G, L, V)
                  <= ChargedOf(F, L) + OutrunOf(F, L, W) + (n - m)
<1> DEFINE G == [F EXCEPT ![t] = @ + n]
           U == Unfinished(L)
           a == UnusedOf(F, L)
           b == UnusedOf(G, L)
           d == ExcessOf(F, L, W)
           e == ExcessOf(G, L, V)
           Covered(w) == W[w].pc = "writing" /\ t \in Below(W[w].scope)
<1>1. F \in [Scopes -> Nat] /\ L \in [Scopes -> Rows] /\ W \in [Writers -> Processes]
  BY DEF Ledgers
<1>2. /\ G \in [Scopes -> Nat] /\ G[t] = F[t] + n /\ F[t] \in Nat
      /\ \A x \in Scopes \ {t} : G[x] = F[x]
  BY <1>1
<1>3. \A w \in Writers : W[w].left \in Nat
  BY <1>1 DEF Processes
<1>4. /\ \A w \in Writers : /\ V[w].pc = W[w].pc /\ V[w].scope = W[w].scope
                            /\ V[w].left \in Nat /\ V[w] \in Processes
                            /\ ~Covered(w) => V[w].left = W[w].left
      /\ V \in [Writers -> Processes]
  <2>1. CASE m = 0 /\ V = W
    BY <1>1, <1>3, <2>1
  <2>2. CASE \E w \in Writers : /\ W[w].pc = "writing" /\ t \in Below(W[w].scope)
                                /\ m <= W[w].left
                                /\ V = [W EXCEPT ![w].left = @ - m]
    <3>1. PICK w \in Writers : /\ Covered(w) /\ m <= W[w].left
                               /\ V = [W EXCEPT ![w].left = @ - m]
      BY <2>2
    <3>2. W[w].left - m \in Nat /\ W[w] \in Processes
      BY <1>1, <1>3, <3>1
    <3> DEFINE left == W[w].left - m
    <3> HIDE DEF left
    <3>3. V = [W EXCEPT ![w].left = left]
      BY <3>1 DEF left
    <3>4. /\ [W[w] EXCEPT !.left = left] \in Processes
          /\ V[w] = [W[w] EXCEPT !.left = left]
          /\ \A x \in Writers \ {w} : V[x] = W[x]
      BY <1>1, <3>2, <3>3 DEF Processes, left
    <3>5. V[w].pc = W[w].pc /\ V[w].scope = W[w].scope /\ V[w].left = left
      BY <3>2, <3>4 DEF Processes
    <3>6. V \in [Writers -> Processes]
      BY <1>1, <3>3, <3>4
    <3> HIDE DEF Covered
    <3> QED BY <1>1, <1>3, <3>1, <3>2, <3>4, <3>5, <3>6 DEF left
  <2> QED BY <2>1, <2>2
<1>5. \/ m = 0 /\ V = W
      \/ \E w \in Writers : Covered(w) /\ m <= W[w].left /\ V[w].left = W[w].left - m
  <2>1. \A w \in Writers : W[w] \in Processes
    BY <1>1
  <2> QED BY <1>1, <2>1 DEF Processes
<1>6. Ledgers(G, L, V)
  BY <1>1, <1>2, <1>4 DEF Ledgers, Separate
<1>7. IsFiniteSet(U) /\ U \subseteq Scopes /\ IsFiniteSet(Writers) /\ IsFiniteSet(Scopes)
  BY Amounts, QuotaAssumption
<1>8. /\ \A s \in Scopes : a[s] \in Nat /\ b[s] \in Nat
      /\ \A w \in Writers : d[w] \in Nat /\ e[w] \in Nat
      /\ SumFunctionOnSet(F, Scopes) \in Nat /\ SumFunctionOnSet(G, Scopes) \in Nat
  <2> HIDE DEF G
  <2> QED BY <1>6, Amounts
<1>9. SumFunctionOnSet(G, Scopes) = SumFunctionOnSet(F, Scopes) + n
  <2> HIDE DEF G
  <2>1. SumFunctionOnSet(F, Scopes) + G[t] = SumFunctionOnSet(G, Scopes) + F[t]
    <3>1. \A x \in Scopes : F[x] \in Nat /\ G[x] \in Nat
      BY <1>1, <1>2
    <3> QED BY <1>2, <1>7, <3>1, SumChange
  <2> QED BY <1>2, <1>8, <2>1
<1>10. \A s \in Scopes : /\ t \notin Below(s) => a[s] = b[s]
                         /\ b[s] <= a[s] /\ a[s] <= b[s] + n
                         /\ b[s] = 0 \/ t \notin Below(s) \/ a[s] = b[s] + n
  <2> HIDE DEF G
  <2> QED BY <1>1, <1>2, UnusedShrinks
<1>11. \A w \in Writers :
         W[w].pc = "writing" => W[w].scope \in U
  BY DEF Ledgers, Separate
<1>12. \A w \in Writers : ~Covered(w) => e[w] = d[w]
  <2> SUFFICES ASSUME NEW w \in Writers, ~Covered(w) PROVE e[w] = d[w]
    OBVIOUS
  <2>1. CASE W[w].pc # "writing"
    BY <1>4, <2>1 DEF ExcessOf
  <2>2. CASE W[w].pc = "writing"
    <3>1. a[W[w].scope] = b[W[w].scope]
      BY <1>7, <1>10, <1>11, <2>2
    <3> HIDE DEF a, b
    <3> QED BY <1>4, <3>1 DEF ExcessOf, a, b
  <2> QED BY <2>1, <2>2
<1> DEFINE sum == SumFunctionOnSet(a, U)
           new == SumFunctionOnSet(b, U)
           out == SumFunctionOnSet(d, Writers)
           now == SumFunctionOnSet(e, Writers)
<1>13. /\ ChargedOf(F, L) = SumFunctionOnSet(F, Scopes) + sum
       /\ ChargedOf(G, L) = SumFunctionOnSet(G, Scopes) + new
       /\ OutrunOf(F, L, W) = out /\ OutrunOf(G, L, V) = now
  BY DEF ChargedOf, OutrunOf
<1>14. sum \in Nat /\ new \in Nat /\ out \in Nat /\ now \in Nat
  <2> HIDE DEF a, b, d, e, U
  <2> QED BY <1>7, <1>8, SumType
<1>15. now <= out + (n - m) /\ n + new + now <= sum + out + (n - m)
  <2>1. CASE \E s \in U : t \in Below(s)
    <3>1. PICK s \in U : t \in Below(s)
      BY <2>1
    <3>2. \A r \in U \ {s} : a[r] = b[r]
      BY <1>7, <1>10, <3>1, OneCovers
    <3>3. sum + b[s] = new + a[s]
      <4>1. \A r \in U : a[r] \in Nat /\ b[r] \in Nat
        BY <1>7, <1>8
      <4> HIDE DEF a, b, U
      <4> QED BY <1>7, <3>2, <4>1, SumChange
    <3>4. CASE \E v \in Writers : Covered(v)
      <4>1. PICK v \in Writers : Covered(v)
        BY <3>4
      <4>2. W[v].scope = s
        BY <1>11, <3>1, <4>1, OneCovers
      <4>3. \A w \in Writers \ {v} : ~Covered(w)
        <5> SUFFICES ASSUME NEW w \in Writers, Covered(w) PROVE w = v
          OBVIOUS
        <5>1. W[w].scope = s
          BY <1>11, <3>1, OneCovers
        <5> QED BY <4>1, <4>2, <5>1 DEF Ledgers, Separate
      <4>4. out + e[v] = now + d[v]
        <5> HIDE DEF d, e, Covered
        <5> QED BY <1>7, <1>8, <1>12, <4>3, SumChange
      <4>5. m <= W[v].left /\ V[v].left = W[v].left - m
        <5> HIDE DEF Covered
        <5>1. CASE m = 0 /\ V = W
          BY <1>3, <5>1
        <5>2. CASE \E w \in Writers : Covered(w) /\ m <= W[w].left /\ V[w].left = W[w].left - m
          BY <4>3, <5>2
        <5> QED BY <1>5, <5>1, <5>2
      <4>6. /\ d[v] = IF W[v].left > a[s] THEN W[v].left - a[s] ELSE 0
            /\ e[v] = IF V[v].left > b[s] THEN V[v].left - b[s] ELSE 0
        BY <1>4, <4>1, <4>2 DEF ExcessOf
      <4>7. s \in Scopes
        BY <1>7
      <4>8. b[s] <= a[s] /\ a[s] <= b[s] + n /\ (b[s] = 0 \/ a[s] = b[s] + n)
        BY <1>10, <3>1, <4>7
      <4>9. a[s] \in Nat /\ b[s] \in Nat /\ d[v] \in Nat /\ e[v] \in Nat
        BY <1>8, <4>7
      <4> HIDE DEF a, b, d, e, sum, new, out, now
      <4> QED BY <1>3, <1>14, <3>3, <4>4, <4>5, <4>6, <4>8, <4>9
    <3>5. CASE ~ \E v \in Writers : Covered(v)
      <4>1. m = 0
        BY <1>5, <3>5
      <4>2. now = out
        <5> HIDE DEF d, e, Covered
        <5> QED BY <1>7, <1>12, <3>5, SumSame
      <4>3. a[s] \in Nat /\ b[s] \in Nat /\ b[s] <= a[s]
        BY <1>7, <1>8, <1>10
      <4> HIDE DEF a, b, sum, new, out, now
      <4> QED BY <1>14, <3>3, <4>1, <4>2, <4>3
    <3> QED BY <3>4, <3>5
  <2>2. CASE ~ \E s \in U : t \in Below(s)
    <3>1. \A w \in Writers : ~Covered(w)
      BY <1>11, <2>2
    <3>2. m = 0
      BY <1>5, <3>1
    <3>3. \A s \in U : a[s] = b[s]
      BY <1>7, <1>10, <2>2
    <3>4. new = sum /\ now = out
      <4> HIDE DEF a, b, d, e, Covered, U
      <4> QED BY <1>7, <1>12, <3>1, <3>3, SumSame
    <3> HIDE DEF a, b, sum, new, out, now
    <3> QED BY <1>14, <3>2, <3>4
  <2> QED BY <2>1, <2>2
<1> HIDE DEF sum, new, out, now, G
<1> QED BY <1>8, <1>9, <1>13, <1>14, <1>15 DEF G

\* A process that stops and bytes that vanish leave no more charged.
LEMMA ReleaseIsFree ==
  ASSUME NEW F, NEW L, NEW W, NEW G, NEW K, NEW V, Ledgers(F, L, W), Ledgers(G, K, V),
         NEW t \in Scopes, NEW n \in Nat,
         F[t] = G[t] + n, \A x \in Scopes \ {t} : F[x] = G[x],
         Unfinished(K) \subseteq Unfinished(L),
         \A s \in Unfinished(K) : K[s].capacity = L[s].capacity,
         \A w \in Writers :
           V[w].pc = "writing" => /\ W[w].pc = "writing" /\ V[w].scope = W[w].scope
                                  /\ V[w].left = W[w].left
  PROVE  OutrunOf(G, K, V) <= OutrunOf(F, L, W) /\ ChargedOf(G, K) <= ChargedOf(F, L)
<1> DEFINE U == Unfinished(L)
           R == Unfinished(K)
           a == UnusedOf(F, L)
           b == UnusedOf(G, K)
           d == ExcessOf(F, L, W)
           e == ExcessOf(G, K, V)
<1>1. /\ F \in [Scopes -> Nat] /\ G \in [Scopes -> Nat]
      /\ L \in [Scopes -> Rows] /\ K \in [Scopes -> Rows]
      /\ \A w \in Writers : W[w].left \in Nat
  BY DEF Ledgers, Processes
<1>2. /\ IsFiniteSet(U) /\ IsFiniteSet(R) /\ R \subseteq U /\ U \subseteq Scopes
      /\ IsFiniteSet(Writers) /\ IsFiniteSet(Scopes)
  BY Amounts, QuotaAssumption
<1>3. /\ \A s \in Scopes : a[s] \in Nat /\ b[s] \in Nat
      /\ \A w \in Writers : d[w] \in Nat /\ e[w] \in Nat
      /\ SumFunctionOnSet(F, Scopes) \in Nat /\ SumFunctionOnSet(G, Scopes) \in Nat
  BY Amounts
<1>4. \A s \in R : /\ t \notin Below(s) => a[s] = b[s]
                   /\ a[s] <= b[s] /\ b[s] <= a[s] + n
  <2> SUFFICES ASSUME NEW s \in R
               PROVE  /\ t \notin Below(s) => a[s] = b[s]
                      /\ a[s] <= b[s] /\ b[s] <= a[s] + n
    OBVIOUS
  <2>1. s \in Scopes
    BY <1>2
  <2>2. K[s].capacity = L[s].capacity
    OBVIOUS
  <2> HIDE DEF U, R, d, e
  <2> QED BY <1>1, <2>1, <2>2, UnusedGrows
<1>5. SumFunctionOnSet(F, Scopes) = SumFunctionOnSet(G, Scopes) + n
  <2>1. SumFunctionOnSet(F, Scopes) + G[t] = SumFunctionOnSet(G, Scopes) + F[t]
    <3>1. \A x \in Scopes : F[x] \in Nat /\ G[x] \in Nat
      BY <1>1
    <3> QED BY <1>2, <3>1, SumChange
  <2>2. G[t] \in Nat
    BY <1>1
  <2> QED BY <1>3, <2>1, <2>2
<1> DEFINE sum == SumFunctionOnSet(a, U)
           new == SumFunctionOnSet(b, R)
<1>6. sum \in Nat /\ new \in Nat
  <2> HIDE DEF a, b, U, R
  <2> QED BY <1>2, <1>3, SumType
<1>7. new <= sum + n
  <2>1. CASE \E s \in R : t \in Below(s)
    <3>1. PICK s \in R : t \in Below(s)
      BY <2>1
    <3> DEFINE kept == SumFunctionOnSet(b, R \ {s})
               rest == SumFunctionOnSet(a, R \ {s})
               all == SumFunctionOnSet(a, U \ {s})
    <3>2. \A r \in R \ {s} : a[r] = b[r]
      BY <1>4, <3>1, OneCovers
    <3>3. /\ IsFiniteSet(R \ {s}) /\ IsFiniteSet(U \ {s}) /\ R \ {s} \subseteq U \ {s}
          /\ \A r \in U : a[r] \in Nat
          /\ \A r \in R : b[r] \in Nat
      BY <1>2, <1>3, FS_RemoveElement
    <3>4. sum = a[s] + all /\ new = b[s] + kept
      <4> HIDE DEF a, b, U, R
      <4>1. s \in U
        BY <1>2
      <4> QED BY <1>2, <3>3, <4>1, SumRemove
    <3>5. kept = rest
      <4> HIDE DEF a, b, U, R
      <4> QED BY <3>2, <3>3, SumSame
    <3>6. rest <= all /\ rest \in Nat /\ all \in Nat
      <4> HIDE DEF a, b, U, R
      <4> QED BY <3>3, SumSubset, SumType
    <3>7. a[s] \in Nat /\ b[s] \in Nat /\ b[s] <= a[s] + n
      BY <1>4, <3>3, <1>2
    <3> HIDE DEF a, b, sum, new, kept, rest, all
    <3> QED BY <3>4, <3>5, <3>6, <3>7
  <2>2. CASE ~ \E s \in R : t \in Below(s)
    <3>1. \A s \in R : a[s] = b[s]
      BY <1>4, <2>2
    <3>2. new = SumFunctionOnSet(a, R)
      <4> HIDE DEF a, b, R
      <4> QED BY <1>2, <3>1, SumSame
    <3>3. SumFunctionOnSet(a, R) <= sum
      <4>1. \A s \in U : a[s] \in Nat
        BY <1>2, <1>3
      <4> HIDE DEF a, R, U
      <4> QED BY <1>2, <4>1, SumSubset
    <3> HIDE DEF sum, new
    <3> QED BY <1>6, <3>2, <3>3
  <2> QED BY <2>1, <2>2
<1>8. \A w \in Writers : e[w] <= d[w]
  <2> SUFFICES ASSUME NEW w \in Writers PROVE e[w] <= d[w]
    OBVIOUS
  <2>1. CASE V[w].pc # "writing"
    <3>1. e[w] = 0
      BY <2>1 DEF ExcessOf
    <3> HIDE DEF d, e
    <3> QED BY <1>3, <3>1
  <2>2. CASE V[w].pc = "writing"
    <3> DEFINE s == V[w].scope
    <3>1. s \in R
      BY <2>2 DEF Ledgers, Separate
    <3>2. a[s] <= b[s] /\ a[s] \in Nat /\ b[s] \in Nat
      BY <1>2, <1>3, <1>4, <3>1
    <3>3. /\ d[w] = IF W[w].left > a[s] THEN W[w].left - a[s] ELSE 0
          /\ e[w] = IF W[w].left > b[s] THEN W[w].left - b[s] ELSE 0
      BY <2>2 DEF ExcessOf
    <3>4. W[w].left \in Nat
      BY <1>1
    <3> HIDE DEF a, b, d, e, s
    <3> QED BY <3>2, <3>3, <3>4
  <2> QED BY <2>1, <2>2
<1>9. OutrunOf(G, K, V) <= OutrunOf(F, L, W)
  <2> HIDE DEF d, e
  <2>1. SumFunctionOnSet(e, Writers) <= SumFunctionOnSet(d, Writers)
    BY <1>2, <1>3, <1>8, SumAtMost
  <2> QED BY <2>1 DEF OutrunOf, d, e
<1>10. /\ ChargedOf(F, L) = SumFunctionOnSet(F, Scopes) + sum
       /\ ChargedOf(G, K) = SumFunctionOnSet(G, Scopes) + new
  BY DEF ChargedOf
<1> HIDE DEF sum, new
<1> QED BY <1>3, <1>5, <1>6, <1>7, <1>9, <1>10

\* A writer that gets the unused part of its row outruns nothing.
LEMMA GrantOutrunsNothing ==
  ASSUME NEW F, NEW L, NEW W, NEW K, NEW V, Ledgers(F, L, W), Ledgers(F, K, V),
         NEW w \in Writers, W[w].pc # "writing", V[w].pc = "writing",
         V[w].left <= UnusedOf(F, K)[V[w].scope],
         \A v \in Writers \ {w} : V[v] = W[v],
         \A s \in Scopes \ {V[w].scope} : K[s] = L[s]
  PROVE  OutrunOf(F, K, V) <= OutrunOf(F, L, W)
<1> DEFINE d == ExcessOf(F, L, W)
           e == ExcessOf(F, K, V)
<1>1. \A v \in Writers : d[v] \in Nat /\ e[v] \in Nat
  BY Amounts
<1>2. e[w] = 0
  <2>1. V[w].scope \in Scopes /\ V[w].left \in Nat
    BY DEF Ledgers, Separate, Unfinished, Processes
  <2>2. UnusedOf(F, K)[V[w].scope] \in Nat
    BY <2>1, Amounts
  <2>3. ~(V[w].left > UnusedOf(F, K)[V[w].scope])
    BY <2>1, <2>2
  <2> QED BY <2>3 DEF ExcessOf
<1>3. ASSUME NEW v \in Writers \ {w} PROVE e[v] = d[v]
  <2>1. CASE W[v].pc # "writing"
    BY <1>3, <2>1 DEF ExcessOf
  <2>2. CASE W[v].pc = "writing"
    <3>1. V[v] = W[v] /\ V[v].scope # V[w].scope /\ V[v].scope \in Scopes
      BY <1>3, <2>2 DEF Ledgers, Separate, Unfinished
    <3>2. K[V[v].scope] = L[V[v].scope]
      BY <3>1
    <3>3. UnusedOf(F, K)[V[v].scope] = UnusedOf(F, L)[V[v].scope]
      BY <3>1, <3>2 DEF UnusedOf
    <3> QED BY <1>3, <3>1, <3>3 DEF ExcessOf
  <2> QED BY <2>1, <2>2
<1>4. \A v \in Writers : e[v] <= d[v]
  <2> HIDE DEF d, e
  <2> QED BY <1>1, <1>2, <1>3
<1>5. SumFunctionOnSet(e, Writers) <= SumFunctionOnSet(d, Writers)
  <2> HIDE DEF d, e
  <2> QED BY <1>1, <1>4, SumAtMost, QuotaAssumption
<1> QED BY <1>5 DEF OutrunOf

\* Bytes outside the ledger pay for what writers may still outrun their rows
\* by, and for what exceeds the limit already.
StrayPays ==
  /\ OutrunOf(files, ledger, writer) <= stray
  /\ ChargedOf(files, ledger) + OutrunOf(files, ledger, writer) <= Limit + stray

\* The invariant of rows and locks separates the live writers.
LEMMA LedgersFrom ==
  ASSUME NEW F \in [Scopes -> Nat], NEW L \in [Scopes -> Rows],
         NEW W \in [Writers -> Processes], NEW K,
         \A w \in Writers : W[w].pc # "idle" => /\ W[w].scope \in Scopes
                                               /\ K[W[w].scope] = w,
         \A w \in Writers :
           W[w].pc = "writing" => L[W[w].scope] = [status |-> "active",
                                                   capacity |-> W[w].capacity],
         \A s, t \in Unfinished(L) : s # t => <<s, t>> \notin Inside
  PROVE  Ledgers(F, L, W)
<1>1. ASSUME NEW w \in Writers, W[w].pc = "writing" PROVE W[w].scope \in Unfinished(L)
  <2> DEFINE s == W[w].scope
             k == W[w].capacity
  <2>1. s \in Scopes /\ L[s] = [status |-> "active", capacity |-> k]
    BY <1>1
  <2> HIDE DEF s, k
  <2>2. L[s].status = "active"
    BY <2>1
  <2> QED BY <2>1, <2>2 DEF Unfinished, s
<1>2. \A v, w \in Writers :
        W[v].pc = "writing" /\ W[w].pc = "writing" /\ W[v].scope = W[w].scope => v = w
  <2> SUFFICES ASSUME NEW v \in Writers, NEW w \in Writers, W[v].pc = "writing",
                      W[w].pc = "writing", W[v].scope = W[w].scope
               PROVE  v = w
    OBVIOUS
  <2>1. K[W[v].scope] = v /\ K[W[w].scope] = w
    OBVIOUS
  <2> QED BY <2>1
<1> QED BY <1>1, <1>2 DEF Ledgers, Separate

\* In this state and in the next.
LEMMA LedgersHold == ASSUME IInv PROVE Ledgers(files, ledger, writer)
<1>1. TypeOK /\ LocksHeld /\ HeadroomKept /\ LedgerDisjoint
  BY DEF IInv
<1> QED BY <1>1, LedgersFrom DEF TypeOK, LocksHeld, HeadroomKept, LedgerDisjoint, Writing

LEMMA LedgersHoldNext == ASSUME IInv' PROVE Ledgers(files', ledger', writer')
<1>1. TypeOK' /\ LocksHeld' /\ HeadroomKept' /\ LedgerDisjoint'
  BY DEF IInv
<1> QED BY <1>1, LedgersFrom DEF TypeOK, LocksHeld, HeadroomKept, LedgerDisjoint, Writing

\* The numbers of the invariant.
LEMMA StrayIsNat ==
  ASSUME IInv PROVE stray \in Nat /\ Limit \in Nat
  BY QuotaAssumption DEF IInv, TypeOK

\* The ledger's charge is the sum of the proofs.
LEMMA ChargedIs ==
  ASSUME NEW rows PROVE Charged(rows) = ChargedOf(files, rows)
  BY Zenon DEF Charged, Headroom, Unused, Size, ChargedOf, UnusedOf, SizeOf

\* Processes stop, rows close, bytes vanish.
LEMMA LettingGoPays ==
  ASSUME IInv, IInv', StrayPays, stray' = stray, NEW t \in Scopes, NEW n \in Nat,
         files[t] = files'[t] + n, \A x \in Scopes \ {t} : files[x] = files'[x],
         Unfinished(ledger') \subseteq Unfinished(ledger),
         \A s \in Unfinished(ledger') : ledger'[s].capacity = ledger[s].capacity,
         \A w \in Writers :
           writer'[w].pc = "writing" => /\ writer[w].pc = "writing"
                                        /\ writer'[w].scope = writer[w].scope
                                        /\ writer'[w].left = writer[w].left
  PROVE  StrayPays'
<1> DEFINE out == OutrunOf(files, ledger, writer)
           now == OutrunOf(files', ledger', writer')
           sum == ChargedOf(files, ledger)
           new == ChargedOf(files', ledger')
<1>1. Ledgers(files, ledger, writer) /\ Ledgers(files', ledger', writer')
  BY LedgersHold, LedgersHoldNext
<1>2. now <= out /\ new <= sum
  BY <1>1, ReleaseIsFree
<1>3. out \in Nat /\ now \in Nat /\ sum \in Nat /\ new \in Nat
  BY <1>1, Amounts
<1>4. out <= stray /\ sum + out <= Limit + stray
  BY DEF StrayPays
<1>5. stray \in Nat /\ Limit \in Nat
  BY StrayIsNat
<1> HIDE DEF out, now, sum, new
<1>6. now <= stray' /\ new + now <= Limit + stray'
  BY <1>2, <1>3, <1>4, <1>5
<1> QED BY <1>6 DEF StrayPays, now, new

\* Bytes appear: m of n are a writer's own, the others are stray.
LEMMA GrowingPays ==
  ASSUME IInv, IInv', StrayPays, NEW t \in Scopes, NEW n \in Nat, NEW m \in Nat, m <= n,
         files' = [files EXCEPT ![t] = @ + n], ledger' = ledger, stray' = stray + (n - m),
         \/ m = 0 /\ writer' = writer
         \/ \E w \in Writers : /\ writer[w].pc = "writing"
                               /\ t \in Below(writer[w].scope)
                               /\ m <= writer[w].left
                               /\ writer' = [writer EXCEPT ![w].left = @ - m]
  PROVE  StrayPays'
<1> DEFINE out == OutrunOf(files, ledger, writer)
           now == OutrunOf(files', ledger', writer')
           sum == ChargedOf(files, ledger)
           new == ChargedOf(files', ledger')
<1>1. Ledgers(files, ledger, writer) /\ Ledgers(files', ledger', writer')
  BY LedgersHold, LedgersHoldNext
<1>2. now <= out + (n - m) /\ new + now <= sum + out + (n - m)
  BY <1>1, GrowthIsPaid
<1>3. out \in Nat /\ now \in Nat /\ sum \in Nat /\ new \in Nat
  BY <1>1, Amounts
<1>4. out <= stray /\ sum + out <= Limit + stray
  BY DEF StrayPays
<1>5. stray \in Nat /\ Limit \in Nat
  BY StrayIsNat
<1> HIDE DEF out, now, sum, new
<1>6. now <= stray' /\ new + now <= Limit + stray'
  BY <1>2, <1>3, <1>4, <1>5
<1> QED BY <1>6 DEF StrayPays, now, new

\* A grant that fits, of what the scope has not used.
LEMMA GrantingPays ==
  ASSUME IInv, IInv', StrayPays, UNCHANGED <<files, stray>>, NEW w \in Writers,
         writer[w].pc # "writing", writer'[w].pc = "writing",
         Size(writer'[w].scope) + writer'[w].left = ledger'[writer'[w].scope].capacity,
         \A v \in Writers \ {w} : writer'[v] = writer[v],
         \A s \in Scopes \ {writer'[w].scope} : ledger'[s] = ledger[s],
         ChargedOf(files, ledger') <= Limit
  PROVE  StrayPays'
<1> DEFINE out == OutrunOf(files, ledger, writer)
           now == OutrunOf(files, ledger', writer')
           new == ChargedOf(files, ledger')
           s == writer'[w].scope
           left == writer'[w].left
           k == ledger'[s].capacity
<1>1. Ledgers(files, ledger, writer) /\ Ledgers(files, ledger', writer')
  BY LedgersHold, LedgersHoldNext
<1>2. s \in Scopes /\ left \in Nat
  BY <1>1 DEF Ledgers, Separate, Unfinished, Processes
<1>3. UnusedOf(files, ledger')[s] = IF k > SizeOf(files, s) THEN k - SizeOf(files, s) ELSE 0
  BY <1>2 DEF UnusedOf
<1>4. SizeOf(files, s) + left = k /\ SizeOf(files, s) \in Nat
  <2>1. SizeOf(files, s) = Size(s)
    BY DEF SizeOf, Size
  <2>2. SizeOf(files, s) \in Nat
    BY <1>1, <1>2, Amounts
  <2> QED BY <2>1, <2>2
<1>5. left <= UnusedOf(files, ledger')[s]
  <2> HIDE DEF s, left, k
  <2> QED BY <1>2, <1>3, <1>4
<1>6. now <= out
  BY <1>1, <1>5, GrantOutrunsNothing
<1>7. out \in Nat /\ now \in Nat /\ new \in Nat
  BY <1>1, Amounts
<1>8. out <= stray
  BY DEF StrayPays
<1>9. stray \in Nat /\ Limit \in Nat
  BY StrayIsNat
<1> HIDE DEF out, now, new
<1>10. now <= stray /\ new + now <= Limit + stray
  BY <1>6, <1>7, <1>8, <1>9 DEF new
<1> QED BY <1>10 DEF StrayPays, now, new

\* A process that stops, whatever becomes of its row, and the bytes it removed.
LEMMA ReleasePays ==
  ASSUME IInv, IInv', StrayPays, NEW w \in Writers, writer[w].pc # "idle", Release(w),
         stray' = stray, NEW t \in Scopes, NEW n \in Nat,
         files[t] = files'[t] + n, \A x \in Scopes \ {t} : files[x] = files'[x],
         \/ ledger' = ledger
         \/ CloseRow(w, "failed") /\ Writing(w)
         \/ CloseRow(w, "complete")
         \/ CloseRow(w, "reconciled")
  PROVE  StrayPays'
<1> DEFINE s == writer[w].scope
<1>1. TypeOK /\ s \in Scopes /\ writer' = [writer EXCEPT ![w] = Idle]
  BY DEF IInv, LocksHeld, Release
<1>2. \A v \in Writers : writer'[v].pc = "writing" => writer'[v] = writer[v]
  BY <1>1 DEF TypeOK, Idle
<1>3. /\ Unfinished(ledger') \subseteq Unfinished(ledger)
      /\ \A r \in Unfinished(ledger') : ledger'[r].capacity = ledger[r].capacity
  <2>1. CASE ledger' = ledger
    BY <2>1
  <2>2. CASE CloseRow(w, "failed") /\ Writing(w)
    <3>1. s \in Unfinished(ledger)
      BY <2>2, LiveIsUnfinished
    <3>2. ledger' = [ledger EXCEPT ![s].status = "failed"]
      BY <2>2 DEF CloseRow
    <3> HIDE DEF s
    <3> QED BY <1>1, <3>1, <3>2 DEF TypeOK, Unfinished, Rows
  <2>3. ASSUME NEW status \in {"complete", "reconciled"}, CloseRow(w, status)
        PROVE  /\ Unfinished(ledger') \subseteq Unfinished(ledger)
               /\ \A r \in Unfinished(ledger') : ledger'[r].capacity = ledger[r].capacity
    <3>1. ledger' = [ledger EXCEPT ![s].status = status]
      BY <2>3 DEF CloseRow
    <3> HIDE DEF s
    <3> QED BY <1>1, <3>1 DEF TypeOK, Unfinished, Rows
  <2> QED BY <2>1, <2>2, <2>3
<1> QED BY <1>2, <1>3, LettingGoPays

\* A process that starts, with no row yet.
LEMMA TakePays ==
  ASSUME IInv, IInv', StrayPays, NEW w \in Writers, NEW s \in Scopes,
         NEW pc \in {"holding", "reconciling"}, NEW capacity, Take(w, s, pc, capacity)
  PROVE  StrayPays'
<1>1. UNCHANGED <<files, ledger, stray>>
  BY DEF Take
<1>2. \A v \in Writers : writer'[v].pc = "writing" => writer'[v] = writer[v]
  BY DEF Take, IInv, TypeOK
<1>3. files[s] = files'[s] + 0
  BY <1>1 DEF IInv, TypeOK
<1> QED BY <1>1, <1>2, <1>3, LettingGoPays

\* Every operation of a process pays for its bytes.
LEMMA OperationPays ==
  ASSUME IInv, IInv', StrayPays, NEW w \in Writers, Operation(w)
  PROVE  StrayPays'
<1>1. ASSUME NEW s \in Scopes, NEW c \in Capacities, Hold(w, s, c) PROVE StrayPays'
  BY <1>1, TakePays DEF Hold
<1>2. ASSUME Grant(w) PROVE StrayPays'
  <2> DEFINE s == writer[w].scope
             capacity == writer[w].capacity
  <2>1. PICK left \in 0 .. capacity :
          /\ Size(s) + left = capacity
          /\ writer' = [writer EXCEPT ![w] = [pc |-> "writing", scope |-> s,
                                              capacity |-> capacity, left |-> left]]
    BY <1>2 DEF Grant
  <2>2. /\ ledger' = Reserved(s, capacity) /\ UNCHANGED <<files, stray>>
        /\ writer[w].pc = "holding"
    BY <1>2 DEF Grant
  <2>3. Charged(ledger') <= Limit
    BY <1>2, <2>2 DEF Grant, Fits
  <2>4. s \in Scopes
    BY <2>2 DEF IInv, LocksHeld
  <2>5. ledger' = [ledger EXCEPT ![s] = [status |-> "active", capacity |-> capacity]]
    BY <2>2 DEF Reserved
  <2> HIDE DEF s, capacity
  <2>6. ledger'[s].capacity = capacity /\ \A r \in Scopes \ {s} : ledger'[r] = ledger[r]
    BY <2>4, <2>5 DEF IInv, TypeOK
  <2>7. /\ writer'[w].pc = "writing" /\ writer'[w].scope = s /\ writer'[w].left = left
        /\ \A v \in Writers \ {w} : writer'[v] = writer[v]
    BY <2>1 DEF IInv, TypeOK
  <2>8. ChargedOf(files, ledger') <= Limit
    BY <2>3, ChargedIs
  <2> QED BY <2>1, <2>2, <2>6, <2>7, <2>8, GrantingPays
<1>3. ASSUME writer[w].pc # "idle", UNCHANGED <<files, stray>>, Release(w),
             \/ ledger' = ledger
             \/ CloseRow(w, "failed") /\ Writing(w)
             \/ CloseRow(w, "complete")
             \/ CloseRow(w, "reconciled")
      PROVE  StrayPays'
  <2> DEFINE s == writer[w].scope
  <2>1. s \in Scopes /\ files[s] = files'[s] + 0 /\ \A x \in Scopes \ {s} : files[x] = files'[x]
    BY <1>3 DEF IInv, TypeOK, LocksHeld
  <2> HIDE DEF s
  <2> QED BY <1>3, <2>1, ReleasePays
<1>4. ASSUME Refuse(w) \/ Abandon(w) \/ UnknownReservation(w) PROVE StrayPays'
  BY <1>3, <1>4 DEF Refuse, Abandon, UnknownReservation
<1>5. ASSUME NEW t \in Scopes, NEW n \in 1 .. Limit, Write(w, t, n) PROVE StrayPays'
  <2>1. n \in Nat /\ n <= n
    BY QuotaAssumption
  <2>2. /\ writer[w].pc = "writing" /\ t \in Below(writer[w].scope) /\ n <= writer[w].left
        /\ files' = [files EXCEPT ![t] = @ + n] /\ ledger' = ledger
        /\ writer' = [writer EXCEPT ![w].left = @ - n] /\ stray' = stray
    BY <1>5 DEF Write, OwnBound
  <2>3. stray' = stray + (n - n)
    BY <2>1, <2>2, StrayIsNat
  <2> QED BY <2>1, <2>2, <2>3, GrowingPays
<1>6. ASSUME Complete(w) \/ Fail(w) \/ Reconcile(w) PROVE StrayPays'
  <2>1. CASE Complete(w)
    BY <1>3, <2>1 DEF Complete, Writing
  <2>2. CASE Fail(w)
    BY <1>3, <2>2 DEF Fail, Writing
  <2>3. CASE Reconcile(w)
    BY <1>3, <2>3 DEF Reconcile
  <2> QED BY <1>6, <2>1, <2>2, <2>3
<1>7. ASSUME NEW s \in Scopes, StartReconcile(w, s) PROVE StrayPays'
  BY <1>7, TakePays DEF StartReconcile
<1> QED BY <1>1, <1>2, <1>4, <1>5, <1>6, <1>7 DEF Operation

\* Files outside the ledger: what appears is stray.
LEMMA OutsidePays ==
  ASSUME IInv, IInv', StrayPays, NEW s \in Scopes, NEW n \in Nat, Remove(s, n) \/ Stray(s, n)
  PROVE  StrayPays'
<1>1. files[s] \in Nat /\ files \in [Scopes -> Nat] /\ stray \in Nat
  BY DEF IInv, TypeOK
<1>2. CASE Remove(s, n)
  <2>1. n <= files[s] /\ files' = [files EXCEPT ![s] = @ - n]
        /\ UNCHANGED <<ledger, lock, writer, stray>>
    BY <1>2 DEF Remove
  <2>2. files[s] = files'[s] + n /\ \A x \in Scopes \ {s} : files[x] = files'[x]
    BY <1>1, <2>1
  <2> QED BY <2>1, <2>2, LettingGoPays
<1>3. CASE Stray(s, n)
  <2>1. files' = [files EXCEPT ![s] = @ + n] /\ stray' = stray + n
        /\ UNCHANGED <<ledger, lock, writer>>
    BY <1>3 DEF Stray
  <2>2. stray' = stray + (n - 0) /\ 0 <= n
    BY <1>1, <2>1
  <2> QED BY <2>1, <2>2, GrowingPays
<1> QED BY <1>2, <1>3

\* Initially nothing is charged.
LEMMA InitPays == ASSUME Init PROVE StrayPays
<1>1. IsFiniteSet(Scopes) /\ IsFiniteSet(Writers)
  BY QuotaAssumption
<1>2. SumFunctionOnSet(files, Scopes) = 0
  BY <1>1, SumZero DEF Init
<1>3. Unfinished(ledger) = {}
  BY DEF Init, Unfinished
<1>4. SumFunctionOnSet(UnusedOf(files, ledger), {}) = 0
  BY FS_EmptySet, SumStep
<1>5. ChargedOf(files, ledger) = 0
  BY <1>2, <1>3, <1>4 DEF ChargedOf
<1>6. \A w \in Writers : ExcessOf(files, ledger, writer)[w] = 0
  BY DEF Init, Idle, ExcessOf
<1>7. OutrunOf(files, ledger, writer) = 0
  <2> DEFINE e == ExcessOf(files, ledger, writer)
  <2>1. \A w \in Writers : e[w] = 0
    BY <1>6
  <2> HIDE DEF e
  <2>2. SumFunctionOnSet(e, Writers) = 0
    BY <1>1, <2>1, SumZero
  <2> QED BY <2>2 DEF OutrunOf, e
<1>8. stray = 0 /\ Limit \in Nat
  BY QuotaAssumption DEF Init
<1> QED BY <1>5, <1>7, <1>8 DEF StrayPays

\* The second invariant keeps what the policy promises.
LEMMA PaidIsWithin == ASSUME IInv, StrayPays PROVE WithinLimit
<1> DEFINE out == OutrunOf(files, ledger, writer)
           sum == ChargedOf(files, ledger)
<1>1. out \in Nat /\ sum \in Nat
  BY LedgersHold, Amounts
<1>2. sum + out <= Limit + stray
  BY DEF StrayPays
<1>3. stray \in Nat /\ Limit \in Nat
  BY StrayIsNat
<1> HIDE DEF out, sum
<1>4. sum <= Limit + stray
  BY <1>1, <1>2, <1>3
<1> QED BY <1>4, ChargedIs DEF WithinLimit, sum

LEMMA InvWritersDisjoint == ASSUME IInv PROVE WritersDisjoint
<1> SUFFICES ASSUME NEW v \in Writers, NEW w \in Writers,
                    v # w, Writing(v), Writing(w)
             PROVE  LET s == writer[v].scope  t == writer[w].scope
                    IN  s # t /\ <<s, t>> \notin Inside /\ <<t, s>> \notin Inside
  BY DEF WritersDisjoint
<1> DEFINE s == writer[v].scope
           t == writer[w].scope
<1>1. lock[s] = v /\ lock[t] = w
  BY LiveIsUnfinished
<1>2. s \in Unfinished(ledger) /\ t \in Unfinished(ledger)
  BY LiveIsUnfinished
<1>3. s # t
  BY <1>1
<1> QED BY <1>2, <1>3 DEF IInv, LedgerDisjoint

-------------------------------------------------------------------------------
(* Theorems *)

\* Every reachable state satisfies the invariant.
THEOREM Inductive == Spec => []IInv
<1> USE InitIInv, NextIInv
<1> QED BY PTL DEF Spec

\* Types, for any processes, scopes and capacities (TypeOK).
THEOREM QuotaTypeCorrect == Spec => []TypeOK
<1>1. IInv => TypeOK
  BY DEF IInv
<1> QED BY <1>1, Inductive, PTL

\* The row of a live writer is active with its capacity, so its headroom is
\* charged whatever other processes retry, reconcile or abandon.
THEOREM HeadroomIsKept == Spec => []HeadroomKept
<1>1. IInv => HeadroomKept
  BY DEF IInv
<1> QED BY <1>1, Inductive, PTL

\* Two live writers never share a directory: the same scope would have two
\* lock holders, and nested scopes two unfinished rows.
THEOREM WritersAreDisjoint == Spec => []WritersDisjoint
<1>1. IInv => WritersDisjoint
  BY InvWritersDisjoint
<1> QED BY <1>1, Inductive, PTL

\* However writers retry, die and are reconciled: what is stored and what is
\* still promised to unfinished writers exceeds the policy's limit by stray
\* bytes only, each counted once.
THEOREM ChargeStaysWithinLimit == Spec => []WithinLimit
<1> DEFINE Inv == IInv /\ StrayPays
<1>1. Init => Inv
  BY InitIInv, InitPays
<1>2. Inv /\ [Next]_vars => Inv'
  <2> SUFFICES ASSUME Inv, [Next]_vars PROVE Inv'
    OBVIOUS
  <2>1. IInv'
    BY NextIInv
  <2>2. ASSUME NEW w \in Writers, Operation(w) PROVE StrayPays'
    BY <2>1, <2>2, OperationPays
  <2>3. ASSUME NEW s \in Scopes, NEW n \in 1 .. Limit, Remove(s, n) \/ Stray(s, n)
        PROVE  StrayPays'
    <3>1. n \in Nat
      BY QuotaAssumption
    <3> QED BY <2>1, <2>3, <3>1, OutsidePays
  <2>4. CASE UNCHANGED vars
    BY <2>1, <2>4 DEF vars, StrayPays
  <2> QED BY <2>1, <2>2, <2>3, <2>4 DEF Next
<1>3. Inv => WithinLimit
  BY PaidIsWithin
<1> HIDE DEF Inv
<1> QED BY <1>1, <1>2, <1>3, PTL DEF Spec

-------------------------------------------------------------------------------
(* The broker *)

\* Only a handler past its reservation has a temporary file.
OnlyUploadsReceive == \A w \in Writers : ~Uploads(w) => received[w] = 0

\* What is uploaded is not there yet.
UploadsAreNew == \A w \in Writers : Uploads(w) => object[writer[w].scope] = "absent"

LedgerInv == IInv /\ StrayPays

\* The bytes of a scope are its object, an upload, and what crashes left.
Stored(d) == IF object[d] = "absent" THEN 0 ELSE ObjectSize[d]

Holds(d, n) == /\ n + Stored(d) <= files[d]
               /\ files[d] <= n + Stored(d) + crashes[d] * ObjectSize[d]

ScopesAccounted ==
  \A d \in Digests :
    /\ \A w \in Writers : Uploads(w) /\ writer[w].scope = d => Holds(d, received[w])
    /\ ~Uploaded(d) => Holds(d, 0)

ObjectInv == /\ BrokerTypeOK /\ OnlyUploadsReceive /\ UploadsAreNew
             /\ PublishedIsWhole /\ ScopesAccounted /\ OneCrashIsCovered

BrokerInv == LedgerInv /\ ObjectInv

\* The scope of an object holds nothing but its own files.
LEMMA ObjectScope ==
  ASSUME IInv, NEW d \in Digests
  PROVE  /\ d \in Scopes /\ Below(d) = {d} /\ files[d] \in Nat /\ Size(d) = files[d]
         /\ \A s : <<s, d>> \notin Inside /\ <<d, s>> \notin Inside
         /\ ObjectSize[d] \in Nat /\ ObjectSize[d] > 0 /\ Capacity(d) \in Nat
         /\ Capacity(d) = 2 * ObjectSize[d] + Overhead /\ Overhead \in Nat
<1>1. d \in Scopes
  BY BrokerAssumption
<1>2. files[d] \in Nat
  BY <1>1 DEF IInv, TypeOK
<1>3. \A s : <<s, d>> \notin Inside /\ <<d, s>> \notin Inside
  BY BrokerAssumption
<1>4. Below(d) = {d}
  BY <1>1, <1>3 DEF Below
<1>5. SumFunctionOnSet(files, {d}) = files[d]
  <2>1. IsFiniteSet({d}) /\ \A x \in {d} : files[x] \in Nat
    BY <1>2, FS_Singleton
  <2>2. SumFunctionOnSet(files, {d}) = files[d] + SumFunctionOnSet(files, {d} \ {d})
    BY <2>1, SumRemove
  <2>3. {d} \ {d} = {}
    OBVIOUS
  <2>4. SumFunctionOnSet(files, {}) = 0
    BY FS_EmptySet, SumStep
  <2> QED BY <1>2, <2>2, <2>3, <2>4
<1>6. Size(d) = files[d]
  BY <1>4, <1>5 DEF Size
<1>7. ObjectSize[d] \in Nat /\ ObjectSize[d] > 0 /\ Overhead \in Nat
  BY BrokerAssumption
<1>8. Capacity(d) \in Nat /\ Capacity(d) = 2 * ObjectSize[d] + Overhead
  BY <1>7 DEF Capacity
<1> QED BY <1>1, <1>2, <1>3, <1>4, <1>6, <1>7, <1>8

-------------------------------------------------------------------------------
(* The ledger under the broker's steps *)

\* A put that is granted: its lock was free, so no live writer has its scope.
LEMMA GrantedKeepsLedger ==
  ASSUME LedgerInv, NEW w \in Writers, NEW d \in Digests, PutGranted(w, d)
  PROVE  LedgerInv'
<1> DEFINE left == Capacity(d) - files[d]
           k == Capacity(d)
<1>1. /\ writer[w].pc = "idle" /\ lock[d] = None
      /\ lock' = [lock EXCEPT ![d] = w]
      /\ ledger' = [ledger EXCEPT ![d] = [status |-> "active", capacity |-> k]]
      /\ writer' = [writer EXCEPT ![w] = [pc |-> "writing", scope |-> d,
                                          capacity |-> k, left |-> left]]
      /\ UNCHANGED <<files, stray>>
  BY DEF PutGranted, LockFree, Reserved
<1>2. IInv /\ TypeOK /\ LocksHeld /\ HeadroomKept /\ LedgerDisjoint
  BY DEF LedgerInv, IInv
<1>3. /\ d \in Scopes /\ Size(d) = files[d] /\ files[d] \in Nat /\ k \in Nat
      /\ \A s : <<s, d>> \notin Inside /\ <<d, s>> \notin Inside
  BY <1>2, ObjectScope
<1>4. Size(d) <= k
  BY DEF PutGranted, Fits
<1>5. left \in Nat /\ Size(d) + left = k
  BY <1>3, <1>4
<1> HIDE DEF left, k
<1>6. /\ writer'[w] = [pc |-> "writing", scope |-> d, capacity |-> k, left |-> left]
      /\ \A v \in Writers \ {w} : writer'[v] = writer[v]
      /\ ledger'[d] = [status |-> "active", capacity |-> k]
      /\ \A s \in Scopes \ {d} : ledger'[s] = ledger[s]
      /\ lock'[d] = w /\ \A s \in Scopes \ {d} : lock'[s] = lock[s]
  BY <1>1, <1>2, <1>3 DEF TypeOK
<1>7. \A v \in Writers : writer[v].pc # "idle" => writer[v].scope # d
  BY <1>1, <1>2, QuotaAssumption DEF LocksHeld
<1>8. TypeOK'
  <2>1. [status |-> "active", capacity |-> k] \in Rows
    BY <1>3 DEF Rows, Statuses
  <2>2. [pc |-> "writing", scope |-> d, capacity |-> k, left |-> left] \in Processes
    BY <1>3, <1>5 DEF Processes
  <2> QED BY <1>1, <1>2, <2>1, <2>2 DEF TypeOK
<1>9. LocksHeld'
  BY <1>2, <1>3, <1>6, <1>7 DEF LocksHeld
<1>10. HeadroomKept'
  <2> SUFFICES ASSUME NEW v \in Writers, Writing(v)'
               PROVE  ledger'[writer'[v].scope] = [status |-> "active",
                                                   capacity |-> writer'[v].capacity]
    BY DEF HeadroomKept
  <2>1. CASE v = w
    BY <1>6, <2>1
  <2>2. CASE v # w
    <3>1. writer'[v] = writer[v] /\ Writing(v) /\ writer[v].scope \in Scopes \ {d}
      BY <1>2, <1>6, <1>7, <2>2 DEF Writing, LocksHeld
    <3> QED BY <1>2, <1>6, <3>1 DEF HeadroomKept
  <2> QED BY <2>1, <2>2
<1>11. LedgerDisjoint'
  <2>1. \A t \in Unfinished(ledger)' : t = d \/ t \in Unfinished(ledger)
    BY <1>6 DEF Unfinished
  <2> QED BY <1>2, <1>3, <2>1 DEF LedgerDisjoint
<1>12. IInv'
  BY <1>8, <1>9, <1>10, <1>11 DEF IInv
<1>13. StrayPays'
  <2>1. ChargedOf(files, ledger') <= Limit
    <3>1. Charged(ledger') <= Limit
      BY DEF PutGranted, Fits
    <3> QED BY <3>1, ChargedIs
  <2>2. Size(writer'[w].scope) + writer'[w].left = ledger'[writer'[w].scope].capacity
    BY <1>5, <1>6
  <2>3. writer'[w].pc = "writing" /\ writer'[w].scope = d /\ writer[w].pc # "writing"
    BY <1>1, <1>6
  <2> QED BY <1>1, <1>2, <1>6, <1>12, <2>1, <2>2, <2>3, GrantingPays DEF LedgerInv
<1> QED BY <1>12, <1>13 DEF LedgerInv

\* A block of a body: what its reservation has left pays first.
LEMMA ReceiveKeepsLedger ==
  ASSUME LedgerInv, NEW w \in Writers, NEW n \in Nat, ReceiveBlock(w, n)
  PROVE  LedgerInv'
<1> DEFINE d == writer[w].scope
           left == writer[w].left
           over == IF n > left THEN n - left ELSE 0
           m == n - over
<1>1. /\ writer[w].pc = "writing" /\ d \in Digests
      /\ files' = [files EXCEPT ![d] = @ + n]
      /\ writer' = [writer EXCEPT ![w].left = @ - m]
      /\ stray' = stray + over /\ UNCHANGED <<ledger, lock>>
  BY DEF ReceiveBlock, Uploads
<1>2. IInv /\ TypeOK /\ LocksHeld /\ HeadroomKept /\ LedgerDisjoint
  BY DEF LedgerInv, IInv
<1>3. /\ d \in Scopes /\ d \in Below(d) /\ writer[w] \in Processes /\ left \in Nat
      /\ stray \in Nat
  BY <1>1, <1>2, ObjectScope DEF TypeOK, Processes
<1>4. m \in Nat /\ m <= n /\ m <= left /\ over = n - m /\ over \in Nat /\ left - m \in Nat
  BY <1>3
<1> HIDE DEF m, over
<1>5. \A v \in Writers : /\ writer'[v].pc = writer[v].pc
                         /\ writer'[v].scope = writer[v].scope
                         /\ writer'[v].capacity = writer[v].capacity
  BY <1>1, <1>2 DEF TypeOK, Processes
<1>6. TypeOK'
  <2>1. files' \in [Scopes -> Nat]
    BY <1>1, <1>2, <1>3 DEF TypeOK
  <2>2. writer' \in [Writers -> Processes]
    BY <1>1, <1>2, <1>3, <1>4 DEF TypeOK, Processes
  <2> QED BY <1>1, <1>2, <1>3, <1>4, <2>1, <2>2 DEF TypeOK
<1> HIDE DEF d, left
<1>7. LocksHeld'
  BY <1>1, <1>2, <1>5 DEF LocksHeld
<1>8. HeadroomKept'
  BY <1>1, <1>2, <1>5 DEF HeadroomKept, Writing
<1>9. LedgerDisjoint'
  BY <1>1, <1>2 DEF LedgerDisjoint, Unfinished
<1>10. IInv'
  BY <1>6, <1>7, <1>8, <1>9 DEF IInv
<1>11. stray' = stray + (n - m)
  BY <1>1, <1>4
<1> QED BY <1>1, <1>2, <1>3, <1>4, <1>10, <1>11, GrowingPays DEF LedgerInv, d, left

\* A handler that ends, with its temporary file or without.
LEMMA EndKeepsLedger ==
  ASSUME LedgerInv, NEW w \in Writers, Uploads(w), Release(w), stray' = stray,
         NEW n \in Nat, n <= files[writer[w].scope],
         files' = [files EXCEPT ![writer[w].scope] = @ - n],
         \/ ledger' = ledger
         \/ CloseRow(w, "failed")
         \/ CloseRow(w, "complete")
  PROVE  LedgerInv'
<1> DEFINE d == writer[w].scope
<1>1. IInv /\ TypeOK /\ Writing(w) /\ writer[w].pc # "idle" /\ d \in Scopes
  BY ObjectScope DEF LedgerInv, IInv, Uploads, Writing
<1>2. /\ files' \in [Scopes -> Nat] /\ files[d] = files'[d] + n
      /\ \A x \in Scopes \ {d} : files[x] = files'[x]
      /\ stray' \in Nat
  BY <1>1 DEF TypeOK
<1> HIDE DEF d
<1>3. IInv'
  BY <1>1, <1>2, StopKeeps
<1>4. StrayPays'
  BY <1>1, <1>2, <1>3, ReleasePays DEF LedgerInv
<1> QED BY <1>3, <1>4 DEF LedgerInv

\* The process dies: its locks were of its uploads alone.
LEMMA DeathKeepsLedger ==
  ASSUME LedgerInv, MayCrash, Dies
  PROVE  LedgerInv'
<1>1. IInv /\ TypeOK /\ LocksHeld /\ HeadroomKept /\ LedgerDisjoint
  BY DEF LedgerInv, IInv
<1>2. /\ writer' = [w \in Writers |-> IF Uploads(w) THEN Idle ELSE writer[w]]
      /\ lock' = [s \in Scopes |-> IF s \in Digests /\ Uploaded(s) THEN None ELSE lock[s]]
      /\ UNCHANGED <<files, ledger, stray>>
  BY DEF Dies
<1>3. \A v \in Writers : writer'[v].pc # "idle" => ~Uploads(v) /\ writer'[v] = writer[v]
  BY <1>2 DEF Idle
<1>4. ASSUME NEW v \in Writers, writer[v].pc # "idle", ~Uploads(v)
      PROVE  writer[v].scope \in Scopes /\ lock'[writer[v].scope] = v
  <2>1. writer[v].scope \in Scopes /\ lock[writer[v].scope] = v
    BY <1>1, <1>4 DEF LocksHeld
  <2>2. ASSUME NEW u \in Writers, Uploads(u), writer[u].scope = writer[v].scope PROVE FALSE
    <3>1. lock[writer[u].scope] = u
      BY <1>1, <2>2 DEF LocksHeld, Uploads
    <3> QED BY <1>4, <2>1, <2>2, <3>1
  <2>3. ~Uploaded(writer[v].scope)
    BY <2>2 DEF Uploaded
  <2> QED BY <1>2, <2>1, <2>3
<1>5. TypeOK'
  <2>1. Idle \in Processes
    BY DEF Idle, Processes
  <2> QED BY <1>1, <1>2, <2>1 DEF TypeOK
<1>6. LocksHeld'
  BY <1>3, <1>4 DEF LocksHeld
<1>7. HeadroomKept'
  BY <1>1, <1>2, <1>3 DEF HeadroomKept, Writing
<1>8. LedgerDisjoint'
  BY <1>1, <1>2 DEF LedgerDisjoint, Unfinished
<1>9. IInv'
  BY <1>5, <1>6, <1>7, <1>8 DEF IInv
<1>10. PICK d \in Digests : d \in Scopes /\ files[d] = files'[d] + 0
  BY <1>1, <1>2, ObjectScope DEF MayCrash
<1>11. StrayPays'
  BY <1>1, <1>2, <1>3, <1>9, <1>10, LettingGoPays DEF LedgerInv
<1> QED BY <1>9, <1>11 DEF LedgerInv

\* The other processes.
LEMMA OthersKeepLedger ==
  ASSUME LedgerInv,
         \/ \E w \in Writers : Operation(w)
         \/ \E s \in Scopes, n \in 1 .. Limit : Remove(s, n) \/ Stray(s, n)
         \/ UNCHANGED vars
  PROVE  LedgerInv'
<1>1. IInv /\ StrayPays
  BY DEF LedgerInv
<1>2. ASSUME NEW w \in Writers, Operation(w) PROVE LedgerInv'
  BY <1>1, <1>2, OperationKeeps, OperationPays DEF LedgerInv
<1>3. ASSUME NEW s \in Scopes, NEW n \in 1 .. Limit, Remove(s, n) \/ Stray(s, n)
      PROVE  LedgerInv'
  <2>1. n \in Nat
    BY QuotaAssumption
  <2> QED BY <1>1, <1>3, <2>1, OutsideKeeps, OutsidePays DEF LedgerInv
<1>4. CASE UNCHANGED vars
  <2>1. IInv'
    BY <1>1, <1>4, NextIInv
  <2>2. StrayPays'
    BY <1>1, <1>4 DEF vars, StrayPays
  <2> QED BY <2>1, <2>2 DEF LedgerInv
<1> QED BY <1>2, <1>3, <1>4

-------------------------------------------------------------------------------
(* The objects under the broker's steps *)

LEMMA UploadsAlone ==
  ASSUME IInv, NEW v \in Writers, NEW w \in Writers, Uploads(v), Uploads(w),
         writer[v].scope = writer[w].scope
  PROVE  v = w
BY DEF IInv, LocksHeld, Uploads

\* A step that touches no upload and no file of an object.
LEMMA QuietKeepsObjects ==
  ASSUME ObjectInv, LedgerInv',
         \A w \in Writers : Uploads(w)' = Uploads(w),
         \A w \in Writers : Uploads(w) => writer'[w] = writer[w],
         \A d \in Digests : files'[d] = files[d],
         received' = received, crashes' = crashes,
         object' \in [Digests -> {"absent", "whole", "corrupt", "partial"}],
         \A d \in Digests : \/ object'[d] = object[d]
                            \/ object[d] = "whole" /\ object'[d] = "corrupt",
         acked' \subseteq Digests,
         \A d \in acked' : d \in acked \/ object[d] = "whole"
  PROVE  ObjectInv'
<1>1. /\ BrokerTypeOK /\ OnlyUploadsReceive /\ UploadsAreNew
      /\ PublishedIsWhole /\ ScopesAccounted /\ OneCrashIsCovered /\ TypeOK'
  BY DEF ObjectInv, LedgerInv, IInv
<1>2. \A w \in Writers : Uploads(w) => writer[w].scope \in Digests
  BY DEF Uploads
<1>3. BrokerTypeOK'
  BY <1>1 DEF BrokerTypeOK
<1>4. OnlyUploadsReceive'
  BY <1>1 DEF OnlyUploadsReceive
<1>5. UploadsAreNew'
  BY <1>1, <1>2 DEF UploadsAreNew
<1>6. PublishedIsWhole'
  BY <1>1 DEF PublishedIsWhole
<1>7. ScopesAccounted'
  <2>1. \A d \in Digests : Uploaded(d)' = Uploaded(d)
    BY DEF Uploaded
  <2>2. \A d \in Digests : Stored(d)' = Stored(d)
    BY DEF Stored
  <2>3. \A d \in Digests, n \in Nat : Holds(d, n) => Holds(d, n)'
    BY <2>2 DEF Holds
  <2>4. \A w \in Writers : received[w] \in Nat /\ received'[w] = received[w]
    BY <1>1 DEF BrokerTypeOK
  <2> QED BY <1>1, <2>1, <2>3, <2>4 DEF ScopesAccounted
<1>8. OneCrashIsCovered'
  BY <1>1 DEF OneCrashIsCovered, Expected
<1> QED BY <1>3, <1>4, <1>5, <1>6, <1>7, <1>8 DEF ObjectInv

LEMMA GrantedKeepsObjects ==
  ASSUME LedgerInv, ObjectInv, LedgerInv', NEW w \in Writers, NEW d \in Digests,
         PutGranted(w, d)
  PROVE  ObjectInv'
<1> DEFINE left == Capacity(d) - files[d]
<1>1. /\ BrokerTypeOK /\ OnlyUploadsReceive /\ UploadsAreNew
      /\ PublishedIsWhole /\ ScopesAccounted /\ OneCrashIsCovered /\ TypeOK'
      /\ IInv /\ LocksHeld /\ TypeOK
  BY DEF ObjectInv, LedgerInv, IInv
<1>2. /\ writer[w].pc = "idle" /\ object[d] = "absent" /\ lock[d] = None
      /\ writer' = [writer EXCEPT ![w] = [pc |-> "writing", scope |-> d,
                                          capacity |-> Capacity(d), left |-> left]]
      /\ UNCHANGED <<files, stray, object, received, crashes, acked>>
  BY DEF PutGranted, LockFree
<1>3. /\ d \in Scopes /\ files[d] \in Nat /\ ObjectSize[d] \in Nat /\ ObjectSize[d] > 0
      /\ Capacity(d) = 2 * ObjectSize[d] + Overhead /\ Overhead \in Nat
      /\ crashes[d] \in Nat
  BY <1>1, ObjectScope DEF BrokerTypeOK
<1>4. ~Uploaded(d)
  BY <1>1, <1>2, QuotaAssumption DEF Uploaded, Uploads, LocksHeld
<1>5. /\ Uploads(w)' /\ ~Uploads(w) /\ writer'[w].scope = d /\ writer'[w].left = left
      /\ \A v \in Writers \ {w} : writer'[v] = writer[v] /\ Uploads(v)' = Uploads(v)
  BY <1>1, <1>2 DEF Uploads, TypeOK
<1>6. received[w] = 0 /\ received' = received
  BY <1>1, <1>2, <1>5 DEF OnlyUploadsReceive
<1>7. files[d] <= crashes[d] * ObjectSize[d]
  BY <1>1, <1>2, <1>3, <1>4 DEF ScopesAccounted, Holds, Stored
<1> HIDE DEF left
<1>8. BrokerTypeOK'
  <2>1. ASSUME NEW v \in Writers, Uploads(v)'
        PROVE  received'[v] <= ObjectSize[writer'[v].scope]
    <3>1. CASE v = w
      BY <1>3, <1>5, <1>6, <3>1
    <3>2. CASE v # w
      BY <1>1, <1>5, <1>6, <2>1, <3>2 DEF BrokerTypeOK
    <3> QED BY <3>1, <3>2
  <2> QED BY <1>1, <1>2, <2>1 DEF BrokerTypeOK
<1>9. OnlyUploadsReceive'
  BY <1>1, <1>5, <1>6 DEF OnlyUploadsReceive
<1>10. UploadsAreNew'
  BY <1>1, <1>2, <1>5 DEF UploadsAreNew
<1>11. PublishedIsWhole'
  BY <1>1, <1>2 DEF PublishedIsWhole
<1>12. ScopesAccounted'
  <2> SUFFICES ASSUME NEW c \in Digests
               PROVE  /\ \A v \in Writers : Uploads(v)' /\ writer'[v].scope = c
                                            => Holds(c, received[v])'
                      /\ ~Uploaded(c)' => Holds(c, 0)'
    BY DEF ScopesAccounted
  <2>1. ASSUME NEW v \in Writers, Uploads(v)', writer'[v].scope = c
        PROVE  Holds(c, received[v])
    <3>1. CASE v = w
      BY <1>1, <1>4, <1>5, <1>6, <2>1, <3>1 DEF ScopesAccounted
    <3>2. CASE v # w
      BY <1>1, <1>5, <2>1, <3>2 DEF ScopesAccounted
    <3> QED BY <3>1, <3>2
  <2>2. ASSUME ~Uploaded(c)' PROVE Holds(c, 0)
    <3>1. \A v \in Writers : ~(Uploads(v)' /\ writer'[v].scope = c)
      BY <2>2 DEF Uploaded
    <3>2. ~Uploaded(c)
      BY <1>5, <3>1 DEF Uploaded
    <3> QED BY <1>1, <3>2 DEF ScopesAccounted
  <2>3. \A v \in Writers : Holds(c, received[v])' = Holds(c, received[v])
    BY <1>2 DEF Holds, Stored
  <2>4. Holds(c, 0)' = Holds(c, 0)
    BY <1>2 DEF Holds, Stored
  <2> QED BY <2>1, <2>2, <2>3, <2>4
<1>13. OneCrashIsCovered'
  <2> SUFFICES ASSUME NEW v \in Writers, Uploads(v)', crashes[writer'[v].scope] <= 1
               PROVE  ObjectSize[writer'[v].scope] - received[v] <= writer'[v].left
    BY <1>2 DEF OneCrashIsCovered, Expected
  <2>1. CASE v = w
    <3>1. crashes[d] <= 1
      BY <1>5, <2>1
    <3>2. crashes[d] = 0 \/ crashes[d] = 1
      BY <1>3, <3>1
    <3>3. files[d] <= ObjectSize[d]
      BY <1>3, <1>7, <3>2
    <3> QED BY <1>3, <1>5, <1>6, <2>1, <3>3 DEF left
  <2>2. CASE v # w
    BY <1>1, <1>5, <2>2 DEF OneCrashIsCovered, Expected
  <2> QED BY <2>1, <2>2
<1> QED BY <1>8, <1>9, <1>10, <1>11, <1>12, <1>13 DEF ObjectInv

LEMMA ReceiveKeepsObjects ==
  ASSUME LedgerInv, ObjectInv, LedgerInv', NEW w \in Writers, NEW n \in Nat,
         ReceiveBlock(w, n)
  PROVE  ObjectInv'
<1> DEFINE d == writer[w].scope
           left == writer[w].left
           over == IF n > left THEN n - left ELSE 0
           m == n - over
<1>1. /\ BrokerTypeOK /\ OnlyUploadsReceive /\ UploadsAreNew
      /\ PublishedIsWhole /\ ScopesAccounted /\ OneCrashIsCovered /\ TypeOK'
      /\ IInv /\ TypeOK
  BY DEF ObjectInv, LedgerInv, IInv
<1>2. /\ Uploads(w) /\ d \in Digests
      /\ n <= ObjectSize[d] - received[w]
      /\ files' = [files EXCEPT ![d] = @ + n]
      /\ received' = [received EXCEPT ![w] = @ + n]
      /\ writer' = [writer EXCEPT ![w].left = @ - m]
      /\ UNCHANGED <<object, crashes, acked>>
  BY DEF ReceiveBlock, Uploads, Expected
<1>3. /\ d \in Scopes /\ files[d] \in Nat /\ ObjectSize[d] \in Nat
      /\ crashes[d] \in Nat /\ received[w] \in Nat /\ received[w] <= ObjectSize[d]
      /\ left \in Nat
  BY <1>1, <1>2, ObjectScope DEF BrokerTypeOK, TypeOK, Processes
<1>4. \A v \in Writers : /\ writer'[v].pc = writer[v].pc
                         /\ writer'[v].scope = writer[v].scope
  BY <1>1 , <1>2 DEF TypeOK, Processes
<1>5. /\ writer'[w].left = left - m
      /\ \A v \in Writers \ {w} : writer'[v] = writer[v]
  BY <1>1, <1>2 DEF TypeOK, Processes
<1>6. /\ received'[w] = received[w] + n
      /\ \A v \in Writers \ {w} : received'[v] = received[v]
      /\ files'[d] = files[d] + n
      /\ \A c \in Digests \ {d} : files'[c] = files[c]
  BY <1>1, <1>2, <1>3, BrokerAssumption DEF BrokerTypeOK, TypeOK
<1>7. \A v \in Writers : Uploads(v)' = Uploads(v)
  BY <1>4 DEF Uploads
<1>8. \A c \in Digests : Uploaded(c)' = Uploaded(c)
  BY <1>4, <1>7 DEF Uploaded
<1>9. m \in Nat /\ m <= n /\ m <= left
  BY <1>3
<1>10. \A v \in Writers : Uploads(v) /\ writer[v].scope = d => v = w
  BY <1>1, <1>2, UploadsAlone
<1> HIDE DEF m, over, left, d
<1>11. BrokerTypeOK'
  <2>1. received' \in [Writers -> Nat]
    BY <1>1, <1>2, <1>3 DEF BrokerTypeOK
  <2>2. ASSUME NEW v \in Writers, Uploads(v)'
        PROVE  received'[v] <= ObjectSize[writer'[v].scope]
    <3>1. CASE v = w
      BY <1>2, <1>3, <1>4, <1>6, <3>1 DEF d
    <3>2. CASE v # w
      BY <1>1, <1>5, <1>6, <1>7, <2>2, <3>2 DEF BrokerTypeOK
    <3> QED BY <3>1, <3>2
  <2> QED BY <1>1, <1>2, <2>1, <2>2 DEF BrokerTypeOK
<1>12. OnlyUploadsReceive'
  BY <1>1, <1>2, <1>6, <1>7 DEF OnlyUploadsReceive
<1>13. UploadsAreNew'
  BY <1>1, <1>2, <1>4, <1>7 DEF UploadsAreNew
<1>14. PublishedIsWhole'
  BY <1>1, <1>2 DEF PublishedIsWhole
<1>15. ScopesAccounted'
  <2> SUFFICES ASSUME NEW c \in Digests
               PROVE  /\ \A v \in Writers : Uploads(v)' /\ writer'[v].scope = c
                                            => Holds(c, received[v])'
                      /\ ~Uploaded(c)' => Holds(c, 0)'
    BY DEF ScopesAccounted
  <2>1. CASE c = d
    <3>1. object[c] = "absent" /\ object' = object /\ crashes' = crashes
      BY <1>1, <1>2, <2>1 DEF UploadsAreNew, d
    <3>2. Holds(c, received[w])
      BY <1>1, <1>2, <2>1 DEF ScopesAccounted, d
    <3>3. /\ received[w] <= files[c]
          /\ files[c] <= received[w] + crashes[c] * ObjectSize[c]
      BY <1>3, <2>1, <3>1, <3>2 DEF Holds, Stored
    <3>4. crashes[c] * ObjectSize[c] \in Nat
      BY <1>3, <2>1
    <3>5. /\ received'[w] <= files'[c] /\ received'[w] \in Nat
          /\ files'[c] <= received'[w] + crashes[c] * ObjectSize[c]
      BY <1>3, <1>6, <2>1, <3>3, <3>4
    <3>6. Holds(c, received[w])'
      BY <3>1, <3>4, <3>5 DEF Holds, Stored
    <3>7. Uploaded(c)'
      BY <1>2, <1>8, <2>1 DEF Uploaded, d
    <3>8. \A v \in Writers : Uploads(v)' /\ writer'[v].scope = c => v = w
      BY <1>4, <1>7, <1>10, <2>1
    <3> QED BY <3>6, <3>7, <3>8
  <2>2. CASE c # d
    <3>1. Stored(c)' = Stored(c) /\ files'[c] = files[c] /\ crashes' = crashes
      BY <1>2, <1>6, <2>2 DEF Stored
    <3>2. \A v \in Writers : Uploads(v)' /\ writer'[v].scope = c
                             => received'[v] = received[v] /\ Holds(c, received[v])
      BY <1>1, <1>4, <1>6, <1>7, <2>2 DEF ScopesAccounted, d
    <3>3. ~Uploaded(c)' => Holds(c, 0)
      BY <1>1, <1>8 DEF ScopesAccounted
    <3> QED BY <3>1, <3>2, <3>3 DEF Holds
  <2> QED BY <2>1, <2>2
<1>16. OneCrashIsCovered'
  <2> SUFFICES ASSUME NEW v \in Writers, Uploads(v)', crashes[writer'[v].scope] <= 1
               PROVE  ObjectSize[writer'[v].scope] - received'[v] <= writer'[v].left
    BY <1>2 DEF OneCrashIsCovered, Expected
  <2>1. CASE v = w
    <3>1. ObjectSize[d] - received[w] <= left
      BY <1>1, <1>2, <1>4, <2>1 DEF OneCrashIsCovered, Expected, d, left
    <3>2. ObjectSize[d] - (received[w] + n) <= left - m
      BY <1>2, <1>3, <1>9, <3>1
    <3> QED BY <1>4, <1>5, <1>6, <2>1, <3>2 DEF d
  <2>2. CASE v # w
    BY <1>1, <1>5, <1>6, <1>7, <2>2 DEF OneCrashIsCovered, Expected
  <2> QED BY <2>1, <2>2
<1> QED BY <1>11, <1>12, <1>13, <1>14, <1>15, <1>16 DEF ObjectInv

\* A handler that ends: its file is removed, or is the object from then on.
LEMMA EndKeepsObjects ==
  ASSUME LedgerInv, ObjectInv, LedgerInv', NEW w \in Writers, Uploads(w),
         writer' = [writer EXCEPT ![w] = Idle],
         received' = [received EXCEPT ![w] = 0],
         crashes' = crashes,
         \/ object' = object /\ Unlink(w) /\ acked' = acked
         \/ /\ Verified(w) /\ object' = Published(w) /\ files' = files
            /\ acked' = acked \/ acked' = acked \cup {writer[w].scope}
  PROVE  ObjectInv'
<1> DEFINE d == writer[w].scope
<1>1. /\ BrokerTypeOK /\ OnlyUploadsReceive /\ UploadsAreNew
      /\ PublishedIsWhole /\ ScopesAccounted /\ OneCrashIsCovered /\ TypeOK'
      /\ IInv /\ TypeOK
  BY DEF ObjectInv, LedgerInv, IInv
<1>2. d \in Digests /\ object[d] = "absent"
  BY <1>1 DEF Uploads, UploadsAreNew
<1>3. /\ d \in Scopes /\ files[d] \in Nat /\ ObjectSize[d] \in Nat
      /\ crashes[d] \in Nat /\ received[w] \in Nat
  BY <1>1, <1>2, ObjectScope DEF BrokerTypeOK
<1>4. Holds(d, received[w]) /\ Stored(d) = 0
  BY <1>1, <1>2 DEF ScopesAccounted, Stored
<1>5. /\ received[w] <= files[d]
      /\ files[d] <= received[w] + crashes[d] * ObjectSize[d]
  BY <1>3, <1>4 DEF Holds
<1>6. /\ ~Uploads(w)' /\ received'[w] = 0
      /\ \A v \in Writers \ {w} : /\ writer'[v] = writer[v] /\ received'[v] = received[v]
                                  /\ Uploads(v)' = Uploads(v)
  BY <1>1 DEF Uploads, TypeOK, BrokerTypeOK, Idle
<1>7. \A v \in Writers : Uploads(v) /\ writer[v].scope = d => v = w
  BY <1>1, UploadsAlone
<1>8. /\ object' \in [Digests -> {"absent", "whole", "corrupt", "partial"}]
      /\ \A c \in Digests \ {d} : object'[c] = object[c] /\ files'[c] = files[c]
      /\ \/ object'[d] = "absent" /\ files'[d] = files[d] - received[w] /\ acked' = acked
         \/ /\ object'[d] = "whole" /\ files'[d] = files[d] /\ received[w] = ObjectSize[d]
            /\ acked' = acked \/ acked' = acked \cup {d}
  <2>1. CASE object' = object /\ Unlink(w) /\ acked' = acked
    BY <1>1, <1>2, <1>3, <2>1, BrokerAssumption DEF BrokerTypeOK, TypeOK, Unlink
  <2>2. CASE /\ Verified(w) /\ object' = Published(w) /\ files' = files
             /\ acked' = acked \/ acked' = acked \cup {writer[w].scope}
    <3>1. received[w] = ObjectSize[d]
      BY <2>2 DEF Verified
    <3>2. object' = [object EXCEPT ![d] = "whole"]
      BY <2>2, <3>1 DEF Published
    <3> QED BY <1>1, <1>2, <2>2, <3>1, <3>2 DEF BrokerTypeOK
  <2> QED BY <2>1, <2>2
<1> HIDE DEF d
<1>9. BrokerTypeOK'
  <2>1. received' \in [Writers -> Nat]
    BY <1>1 DEF BrokerTypeOK
  <2>2. \A v \in Writers : Uploads(v)' => received'[v] <= ObjectSize[writer'[v].scope]
    BY <1>1, <1>6 DEF BrokerTypeOK
  <2>3. acked' \subseteq Digests
    BY <1>1, <1>2, <1>8 DEF BrokerTypeOK
  <2> QED BY <1>1, <1>8, <2>1, <2>2, <2>3 DEF BrokerTypeOK
<1>10. OnlyUploadsReceive'
  BY <1>1, <1>6 DEF OnlyUploadsReceive
<1>11. UploadsAreNew'
  <2>1. ASSUME NEW v \in Writers, Uploads(v)' PROVE object'[writer'[v].scope] = "absent"
    <3>1. v # w /\ writer'[v] = writer[v] /\ Uploads(v) /\ writer[v].scope \in Digests
      BY <1>6, <2>1 DEF Uploads
    <3>2. writer[v].scope # d
      BY <1>7, <3>1
    <3> QED BY <1>1, <1>8, <3>1, <3>2 DEF UploadsAreNew
  <2> QED BY <2>1 DEF UploadsAreNew
<1>12. PublishedIsWhole'
  BY <1>1, <1>2, <1>8 DEF PublishedIsWhole
<1>13. ScopesAccounted'
  <2> SUFFICES ASSUME NEW c \in Digests
               PROVE  /\ \A v \in Writers : Uploads(v)' /\ writer'[v].scope = c
                                            => Holds(c, received[v])'
                      /\ ~Uploaded(c)' => Holds(c, 0)'
    BY DEF ScopesAccounted
  <2>1. CASE c = d
    <3>1. \A v \in Writers : ~(Uploads(v)' /\ writer'[v].scope = c)
      BY <1>6, <1>7, <2>1
    <3>2. crashes[d] * ObjectSize[d] \in Nat
      BY <1>3
    <3>3. crashes' = crashes /\ object'[c] = object'[d] /\ files'[c] = files'[d]
      BY <2>1
    <3>4. Holds(c, 0)'
      BY <1>2, <1>3, <1>5, <1>8, <2>1, <3>2, <3>3 DEF Holds, Stored
    <3> QED BY <3>1, <3>4
  <2>2. CASE c # d
    <3>1. Stored(c)' = Stored(c) /\ files'[c] = files[c] /\ crashes' = crashes
      BY <1>8, <2>2 DEF Stored
    <3>2. \A v \in Writers : Uploads(v)' /\ writer'[v].scope = c
                             => received'[v] = received[v] /\ Holds(c, received[v])
      BY <1>1, <1>6 DEF ScopesAccounted
    <3>3. Uploaded(c) => Uploaded(c)'
      BY <1>6, <2>2 DEF Uploaded, d
    <3> QED BY <1>1, <3>1, <3>2, <3>3 DEF Holds, ScopesAccounted
  <2> QED BY <2>1, <2>2
<1>14. OneCrashIsCovered'
  BY <1>1, <1>6 DEF OneCrashIsCovered, Expected
<1> QED BY <1>9, <1>10, <1>11, <1>12, <1>13, <1>14 DEF ObjectInv

LEMMA OnceMore ==
  ASSUME NEW c \in Nat, NEW n \in Nat
  PROVE  c * n \in Nat /\ (c + 1) * n = c * n + n
OBVIOUS

\* The process dies: what an upload has written is a crash's from then on.
LEMMA DeathKeepsObjects ==
  ASSUME LedgerInv, ObjectInv, LedgerInv', Dies,
         \/ object' = object
         \/ \E w \in Writers : Uploads(w) /\ Verified(w) /\ object' = Published(w)
  PROVE  ObjectInv'
<1>1. /\ BrokerTypeOK /\ OnlyUploadsReceive /\ UploadsAreNew
      /\ PublishedIsWhole /\ ScopesAccounted /\ OneCrashIsCovered /\ TypeOK'
      /\ IInv /\ TypeOK
  BY DEF ObjectInv, LedgerInv, IInv
<1>2. /\ writer' = [w \in Writers |-> IF Uploads(w) THEN Idle ELSE writer[w]]
      /\ received' = [w \in Writers |-> 0]
      /\ crashes' = [d \in Digests |-> IF Uploaded(d) THEN crashes[d] + 1 ELSE crashes[d]]
      /\ UNCHANGED <<files, acked>>
  BY DEF Dies
<1>3. \A v \in Writers : ~Uploads(v)'
  BY <1>2 DEF Uploads, Idle
<1>4. \A d \in Digests : \/ object'[d] = object[d]
                         \/ \E w \in Writers : /\ Uploads(w) /\ writer[w].scope = d
                                               /\ received[w] = ObjectSize[d]
                                               /\ object'[d] = "whole"
  <2>1. ASSUME NEW w \in Writers, Uploads(w), Verified(w), object' = Published(w),
               NEW d \in Digests, d = writer[w].scope
        PROVE  received[w] = ObjectSize[d] /\ object'[d] = "whole"
    <3>1. received[w] = ObjectSize[d]
      BY <2>1 DEF Verified
    <3>2. object' = [object EXCEPT ![d] = "whole"]
      BY <2>1, <3>1 DEF Published
    <3> QED BY <1>1, <3>1, <3>2 DEF BrokerTypeOK
  <2>2. ASSUME NEW w \in Writers, object' = Published(w),
               NEW d \in Digests, d # writer[w].scope
        PROVE  object'[d] = object[d]
    BY <1>1, <2>2 DEF Published, BrokerTypeOK
  <2> QED BY <2>1, <2>2
<1>5. object' \in [Digests -> {"absent", "whole", "corrupt", "partial"}]
  <2>1. ASSUME NEW w \in Writers, Verified(w), object' = Published(w)
        PROVE  object' = [object EXCEPT ![writer[w].scope] = "whole"]
    BY <2>1 DEF Verified, Published
  <2> QED BY <1>1, <2>1 DEF BrokerTypeOK
<1>6. BrokerTypeOK'
  <2>1. received' \in [Writers -> Nat] /\ crashes' \in [Digests -> Nat]
    BY <1>1, <1>2 DEF BrokerTypeOK
  <2> QED BY <1>1, <1>2, <1>3, <1>5, <2>1 DEF BrokerTypeOK
<1>7. OnlyUploadsReceive'
  BY <1>2 DEF OnlyUploadsReceive
<1>8. UploadsAreNew'
  BY <1>3 DEF UploadsAreNew
<1>9. PublishedIsWhole'
  BY <1>1, <1>2, <1>4 DEF PublishedIsWhole
<1>10. ScopesAccounted'
  <2> SUFFICES ASSUME NEW d \in Digests PROVE Holds(d, 0)'
    BY <1>3 DEF ScopesAccounted
  <2>1. /\ files[d] \in Nat /\ ObjectSize[d] \in Nat /\ crashes[d] \in Nat
        /\ files'[d] = files[d] /\ crashes'[d] \in Nat
    BY <1>1, <1>2, ObjectScope DEF BrokerTypeOK
  <2>2. CASE ~Uploaded(d)
    <3>1. crashes'[d] = crashes[d] /\ Holds(d, 0) /\ object'[d] = object[d]
      BY <1>1, <1>2, <1>4, <2>2 DEF ScopesAccounted, Uploaded
    <3> QED BY <2>1, <3>1 DEF Holds, Stored
  <2>3. CASE Uploaded(d)
    <3>1. PICK w \in Writers : Uploads(w) /\ writer[w].scope = d
      BY <2>3 DEF Uploaded
    <3>2. /\ received[w] \in Nat /\ received[w] <= ObjectSize[d]
          /\ Holds(d, received[w]) /\ object[d] = "absent"
      BY <1>1, <3>1 DEF BrokerTypeOK, ScopesAccounted, UploadsAreNew
    <3>3. /\ received[w] <= files[d]
          /\ files[d] <= received[w] + crashes[d] * ObjectSize[d]
      BY <2>1, <3>2 DEF Holds, Stored
    <3>4. /\ crashes'[d] = crashes[d] + 1
          /\ crashes'[d] * ObjectSize[d] = crashes[d] * ObjectSize[d] + ObjectSize[d]
          /\ crashes[d] * ObjectSize[d] \in Nat
      <4>1. crashes'[d] = crashes[d] + 1
        BY <1>2, <2>3
      <4> QED BY <2>1, <4>1, OnceMore
    <3>5. \/ object'[d] = "absent"
          \/ object'[d] = "whole" /\ received[w] = ObjectSize[d]
      <4>1. \A v \in Writers : Uploads(v) /\ writer[v].scope = d => v = w
        BY <1>1, <3>1, UploadsAlone
      <4> QED BY <1>4, <3>2, <4>1
    <3>6. /\ Stored(d)' <= files'[d] /\ Stored(d)' \in Nat
          /\ files'[d] <= Stored(d)' + crashes'[d] * ObjectSize[d]
      BY <2>1, <3>2, <3>3, <3>4, <3>5 DEF Stored
    <3> QED BY <2>1, <3>4, <3>6 DEF Holds
  <2> QED BY <2>2, <2>3
<1>11. OneCrashIsCovered'
  BY <1>3 DEF OneCrashIsCovered
<1> QED BY <1>6, <1>7, <1>8, <1>9, <1>10, <1>11 DEF ObjectInv

\* The other writers stay out of the objects' scopes.
LEMMA OtherStepKeepsObjects ==
  ASSUME LedgerInv, ObjectInv, LedgerInv', NEW w \in Writers, OtherStep(w)
  PROVE  ObjectInv'
<1>1. /\ BrokerTypeOK /\ TypeOK /\ TypeOK' /\ LocksHeld
  BY DEF ObjectInv, LedgerInv, IInv, BrokerTypeOK
<1>2. /\ ~Uploads(w) /\ Operation(w)
      /\ UNCHANGED <<object, received, crashes, acked>>
      /\ writer'[w].pc \in {"holding", "writing"} => writer'[w].scope \notin Digests
  BY DEF OtherStep
<1>3. /\ \A v \in Writers \ {w} : writer'[v] = writer[v]
      /\ \A d \in Digests : files'[d] = files[d]
  <2>1. CASE \E s \in Scopes, c \in Capacities : Hold(w, s, c)
    BY <1>1, <2>1 DEF Hold, Take, TypeOK
  <2>2. CASE Grant(w)
    BY <1>1, <2>2 DEF Grant, TypeOK
  <2>3. CASE Refuse(w) \/ Abandon(w) \/ Complete(w) \/ Fail(w)
    BY <1>1, <2>3 DEF Refuse, Abandon, Complete, Fail, Release, TypeOK
  <2>4. ASSUME NEW t \in Scopes, NEW n \in 1 .. Limit, Write(w, t, n)
        PROVE  /\ \A v \in Writers \ {w} : writer'[v] = writer[v]
               /\ \A d \in Digests : files'[d] = files[d]
    <3>1. /\ writer[w].pc = "writing" /\ t \in Below(writer[w].scope)
          /\ files' = [files EXCEPT ![t] = @ + n]
          /\ writer' = [writer EXCEPT ![w].left = @ - n]
      BY <2>4 DEF Write
    <3>2. writer[w].scope \notin Digests
      BY <1>2, <3>1 DEF Uploads
    <3>3. t \notin Digests
      BY <3>1, <3>2, BrokerAssumption DEF Below
    <3> QED BY <1>1, <3>1, <3>3, BrokerAssumption DEF TypeOK
  <2>5. CASE \E s \in Scopes : StartReconcile(w, s)
    BY <1>1, <2>5 DEF StartReconcile, Take, TypeOK
  <2>6. CASE Reconcile(w) \/ UnknownReservation(w)
    BY <1>1, <2>6 DEF Reconcile, UnknownReservation, Release, TypeOK
  <2> QED BY <1>2, <2>1, <2>2, <2>3, <2>4, <2>5, <2>6 DEF Operation
<1>4. \A v \in Writers : Uploads(v)' = Uploads(v)
  BY <1>2, <1>3 DEF Uploads
<1>5. \A v \in Writers : Uploads(v) => writer'[v] = writer[v]
  BY <1>2, <1>3
<1>6. /\ object' \in [Digests -> {"absent", "whole", "corrupt", "partial"}]
      /\ acked' \subseteq Digests
  BY <1>1, <1>2 DEF BrokerTypeOK
<1> QED BY <1>2, <1>3, <1>4, <1>5, <1>6, QuietKeepsObjects

-------------------------------------------------------------------------------
(* Steps, and the theorems *)

LEMMA InitBrokerInv == ASSUME BrokerInit PROVE BrokerInv
<1>1. Init /\ IInv /\ StrayPays
  BY InitIInv, InitPays DEF BrokerInit
<1>2. /\ object = [d \in Digests |-> "absent"] /\ received = [w \in Writers |-> 0]
      /\ crashes = [d \in Digests |-> 0] /\ acked = {}
      /\ files = [s \in Scopes |-> 0]
  BY DEF BrokerInit, Init
<1>3. \A w \in Writers : ~Uploads(w)
  BY <1>1 DEF Init, Idle, Uploads
<1>4. BrokerTypeOK /\ OnlyUploadsReceive /\ UploadsAreNew
  BY <1>1, <1>2, <1>3 DEF BrokerTypeOK, OnlyUploadsReceive, UploadsAreNew, IInv
<1>5. PublishedIsWhole /\ OneCrashIsCovered
  BY <1>2, <1>3 DEF PublishedIsWhole, OneCrashIsCovered
<1>6. ScopesAccounted
  <2> SUFFICES ASSUME NEW d \in Digests PROVE Holds(d, 0)
    BY <1>3 DEF ScopesAccounted
  <2>1. files[d] = 0 /\ crashes[d] = 0 /\ object[d] = "absent" /\ ObjectSize[d] \in Nat
    BY <1>2, BrokerAssumption
  <2> QED BY <2>1 DEF Holds, Stored
<1> QED BY <1>1, <1>4, <1>5, <1>6 DEF BrokerInv, LedgerInv, ObjectInv

LEMMA PutKeepsBrokerInv ==
  ASSUME BrokerInv, NEW w \in Writers, Put(w)
  PROVE  BrokerInv'
<1>1. /\ LedgerInv /\ ObjectInv /\ BrokerTypeOK /\ ScopesAccounted /\ UploadsAreNew
      /\ IInv /\ TypeOK
  BY DEF BrokerInv, ObjectInv, LedgerInv, IInv
<1>2. ASSUME NEW d \in Digests, PutExisting(w, d) PROVE BrokerInv'
  <2>1. /\ object[d] = "whole" /\ acked' = acked \cup {d}
        /\ UNCHANGED <<vars, object, received, crashes>>
    BY <1>2 DEF PutExisting
  <2>2. LedgerInv'
    BY <1>1, <2>1, OthersKeepLedger
  <2>3. ObjectInv'
    <3>1. \A v \in Writers : Uploads(v)' = Uploads(v)
      BY <2>1 DEF vars, Uploads
    <3>2. writer' = writer /\ files' = files
      BY <2>1 DEF vars
    <3>3. /\ object' \in [Digests -> {"absent", "whole", "corrupt", "partial"}]
          /\ acked' \subseteq Digests
      BY <1>1, <2>1 DEF BrokerTypeOK
    <3> QED BY <1>1, <2>1, <2>2, <3>1, <3>2, <3>3, QuietKeepsObjects
  <2> QED BY <2>2, <2>3 DEF BrokerInv
<1>3. ASSUME NEW d \in Digests, PutGranted(w, d) PROVE BrokerInv'
  BY <1>1, <1>3, GrantedKeepsLedger, GrantedKeepsObjects DEF BrokerInv
<1>4. ASSUME NEW n \in 1 .. Limit, ReceiveBlock(w, n) PROVE BrokerInv'
  <2>1. n \in Nat
    BY QuotaAssumption
  <2> QED BY <1>1, <1>4, <2>1, ReceiveKeepsLedger, ReceiveKeepsObjects DEF BrokerInv
<1>5. ASSUME Uploads(w)
      PROVE  /\ writer[w].scope \in Scopes /\ files[writer[w].scope] \in Nat
             /\ received[w] \in Nat /\ received[w] <= files[writer[w].scope]
  <2>1. writer[w].scope \in Digests /\ object[writer[w].scope] = "absent"
    BY <1>1, <1>5 DEF Uploads, UploadsAreNew
  <2>2. Holds(writer[w].scope, received[w])
    BY <1>1, <1>5, <2>1 DEF ScopesAccounted
  <2> QED BY <1>1, <2>1, <2>2, ObjectScope DEF Holds, Stored, BrokerTypeOK
<1>6. CASE PutFails(w)
  <2>1. /\ Uploads(w) /\ CloseRow(w, "failed") /\ Release(w) /\ Unlink(w)
        /\ received' = [received EXCEPT ![w] = 0]
        /\ UNCHANGED <<stray, object, crashes, acked>>
    BY <1>6 DEF PutFails
  <2>2. LedgerInv'
    BY <1>1, <1>5, <2>1, EndKeepsLedger DEF Unlink
  <2>3. writer' = [writer EXCEPT ![w] = Idle]
    BY <2>1 DEF Release
  <2>4. ObjectInv'
    BY <1>1, <2>1, <2>2, <2>3, EndKeepsObjects
  <2> QED BY <2>2, <2>4 DEF BrokerInv
<1>7. CASE PutCompletes(w) \/ PutUnscanned(w)
  <2>1. /\ Uploads(w) /\ Verified(w) /\ Release(w) /\ object' = Published(w)
        /\ received' = [received EXCEPT ![w] = 0]
        /\ UNCHANGED <<files, stray, crashes>>
        /\ ledger' = ledger \/ CloseRow(w, "failed") \/ CloseRow(w, "complete")
        /\ acked' = acked \/ acked' = acked \cup {writer[w].scope}
    BY <1>7 DEF PutCompletes, PutUnscanned
  <2>2. files' = [files EXCEPT ![writer[w].scope] = @ - 0]
    BY <1>1, <1>5, <2>1 DEF TypeOK
  <2>3. LedgerInv'
    <3>1. stray' = stray /\ 0 \in Nat /\ 0 <= files[writer[w].scope]
      BY <1>5, <2>1
    <3> QED BY <1>1, <2>1, <2>2, <3>1, EndKeepsLedger
  <2>4. writer' = [writer EXCEPT ![w] = Idle]
    BY <2>1 DEF Release
  <2>5. ObjectInv'
    BY <1>1, <2>1, <2>3, <2>4, EndKeepsObjects
  <2> QED BY <2>3, <2>5 DEF BrokerInv
<1>8. CASE CrashAfterRename(w)
  <2>1. MayCrash /\ Uploads(w) /\ Verified(w) /\ object' = Published(w) /\ Dies
    BY <1>8 DEF CrashAfterRename
  <2>2. LedgerInv'
    BY <1>1, <2>1, DeathKeepsLedger
  <2> QED BY <1>1, <2>1, <2>2, DeathKeepsObjects DEF BrokerInv
<1> QED BY <1>2, <1>3, <1>4, <1>6, <1>7, <1>8 DEF Put

LEMMA NextBrokerInv == ASSUME BrokerInv, [BrokerNext]_brokerVars PROVE BrokerInv'
<1>1. LedgerInv /\ ObjectInv /\ BrokerTypeOK /\ IInv /\ TypeOK
  BY DEF BrokerInv, ObjectInv, LedgerInv, IInv
<1>2. ASSUME NEW w \in Writers, OtherStep(w) PROVE BrokerInv'
  <2>1. LedgerInv'
    BY <1>1, <1>2, OthersKeepLedger DEF OtherStep
  <2> QED BY <1>1, <1>2, <2>1, OtherStepKeepsObjects DEF BrokerInv
<1>3. CASE Crash
  <2>1. LedgerInv'
    BY <1>1, <1>3, DeathKeepsLedger DEF Crash
  <2> QED BY <1>1, <1>3, <2>1, DeathKeepsObjects DEF BrokerInv, Crash
<1>4. ASSUME NEW d \in Digests, Damage(d) PROVE BrokerInv'
  <2>1. /\ object[d] = "whole" /\ object' = [object EXCEPT ![d] = "corrupt"]
        /\ UNCHANGED <<vars, received, crashes, acked>>
    BY <1>4 DEF Damage
  <2>2. LedgerInv'
    BY <1>1, <2>1, OthersKeepLedger
  <2>3. \A v \in Writers : Uploads(v)' = Uploads(v)
    BY <2>1 DEF vars, Uploads
  <2>4. writer' = writer /\ files' = files
    BY <2>1 DEF vars
  <2>5. /\ object' \in [Digests -> {"absent", "whole", "corrupt", "partial"}]
        /\ acked' \subseteq Digests
        /\ \A c \in Digests : \/ object'[c] = object[c]
                              \/ object[c] = "whole" /\ object'[c] = "corrupt"
    BY <1>1, <2>1 DEF BrokerTypeOK
  <2>6. ObjectInv'
    BY <1>1, <2>1, <2>2, <2>3, <2>4, <2>5, QuietKeepsObjects
  <2> QED BY <2>2, <2>6 DEF BrokerInv
<1>5. ASSUME NEW s \in Scopes \ Digests, OtherFiles(s) PROVE BrokerInv'
  <2>1. PICK n \in 1 .. Limit : Remove(s, n) \/ Stray(s, n)
    BY <1>5 DEF OtherFiles
  <2>2. UNCHANGED <<object, received, crashes, acked>>
    BY <1>5 DEF OtherFiles
  <2>3. LedgerInv'
    BY <1>1, <2>1, OthersKeepLedger
  <2>4. writer' = writer /\ \A d \in Digests : files'[d] = files[d]
    BY <1>1, <2>1, BrokerAssumption DEF Remove, Stray, TypeOK
  <2>5. \A v \in Writers : Uploads(v)' = Uploads(v)
    BY <2>4 DEF Uploads
  <2>6. /\ object' \in [Digests -> {"absent", "whole", "corrupt", "partial"}]
        /\ acked' \subseteq Digests
    BY <1>1, <2>2 DEF BrokerTypeOK
  <2>7. ObjectInv'
    BY <1>1, <2>2, <2>3, <2>4, <2>5, <2>6, QuietKeepsObjects
  <2> QED BY <2>3, <2>7 DEF BrokerInv
<1>6. CASE UNCHANGED brokerVars
  <2>1. UNCHANGED <<vars, object, received, crashes, acked>> /\ UNCHANGED vars
    BY <1>6 DEF brokerVars
  <2>2. LedgerInv'
    BY <1>1, <2>1, OthersKeepLedger
  <2>3. \A v \in Writers : Uploads(v)' = Uploads(v)
    BY <2>1 DEF vars, Uploads
  <2>4. writer' = writer /\ files' = files
    BY <2>1 DEF vars
  <2>5. /\ object' \in [Digests -> {"absent", "whole", "corrupt", "partial"}]
        /\ acked' \subseteq Digests
    BY <1>1, <2>1 DEF BrokerTypeOK
  <2>6. ObjectInv'
    BY <1>1, <2>1, <2>2, <2>3, <2>4, <2>5, QuietKeepsObjects
  <2> QED BY <2>2, <2>6 DEF BrokerInv
<1> QED BY <1>2, <1>3, <1>4, <1>5, <1>6, PutKeepsBrokerInv DEF BrokerNext

\* Every reachable state of the broker beside the other writers satisfies the
\* inductive invariant: the ledger's part, the bytes it pays for, and the
\* account of each object's scope.
THEOREM BrokerInductive == BrokerSpec => []BrokerInv
<1>1. BrokerInit => BrokerInv
  BY InitBrokerInv
<1>2. BrokerInv /\ [BrokerNext]_brokerVars => BrokerInv'
  BY NextBrokerInv
<1> QED BY <1>1, <1>2, PTL DEF BrokerSpec

\* storage_broker.put: nothing partial is ever published, and what a client has
\* a receipt for stays.
THEOREM PublishedStaysWhole == BrokerSpec => []PublishedIsWhole
<1>1. BrokerInv => PublishedIsWhole
  BY DEF BrokerInv, ObjectInv
<1> QED BY <1>1, BrokerInductive, PTL

\* The broker keeps what the ledger promises its writers (quota.hold): no two
\* write under one another, a live writer's row stays as it was granted, and
\* what is charged stays within the limit.
THEOREM LedgerHoldsBesideBroker ==
  BrokerSpec => [](BrokerTypeOK /\ WritersDisjoint /\ HeadroomKept /\ WithinLimit)
<1>1. BrokerInv => BrokerTypeOK /\ HeadroomKept
  BY DEF BrokerInv, ObjectInv, LedgerInv, IInv
<1>2. BrokerInv => WithinLimit
  BY PaidIsWithin DEF BrokerInv, LedgerInv
<1>3. BrokerInv => WritersDisjoint
  BY InvWritersDisjoint DEF BrokerInv, LedgerInv
<1> QED BY <1>1, <1>2, <1>3, BrokerInductive, PTL

\* What requests have received for a digest is what its one upload has.
LEMMA UploadBytesAre ==
  ASSUME IInv, ObjectInv, NEW d \in Digests
  PROVE  /\ \A w \in Writers : Uploads(w) /\ writer[w].scope = d
                               => UploadBytes(d) = received[w]
         /\ ~Uploaded(d) => UploadBytes(d) = 0
<1> DEFINE T == {v \in Writers : writer[v].scope = d}
<1>1. /\ IsFiniteSet(T) /\ UploadBytes(d) = SumFunctionOnSet(received, T)
      /\ \A v \in T : received[v] \in Nat
      /\ \A v \in T : received[v] = 0 \/ Uploads(v)
  BY QuotaAssumption, FS_Subset
     DEF ObjectInv, BrokerTypeOK, OnlyUploadsReceive, UploadBytes
<1>2. ASSUME NEW w \in Writers, Uploads(w), writer[w].scope = d
      PROVE  UploadBytes(d) = received[w]
  <2>1. \A v \in T \ {w} : received[v] = 0
    BY <1>1, <1>2, UploadsAlone
  <2>2. IsFiniteSet(T \ {w})
    BY <1>1, FS_Subset
  <2>3. SumFunctionOnSet(received, T \ {w}) = 0
    BY <2>1, <2>2, SumZero
  <2>4. SumFunctionOnSet(received, T) = received[w] + SumFunctionOnSet(received, T \ {w})
    BY <1>1, <1>2, SumRemove
  <2>5. received[w] \in Nat
    BY <1>1, <1>2
  <2> QED BY <1>1, <2>3, <2>4, <2>5
<1>3. ASSUME ~Uploaded(d) PROVE UploadBytes(d) = 0
  <2>1. \A v \in T : received[v] = 0
    BY <1>1, <1>3 DEF Uploaded
  <2> QED BY <1>1, <2>1, SumZero
<1> QED BY <1>2, <1>3

\* What crashes of the broker leave in an object's scope is bounded by their
\* number, and one crash is paid for: the rest of an upload is still reserved
\* (OBJECT_OVERHEAD and twice the size).
THEOREM CrashesArePaid == BrokerSpec => []CrashesAreCovered
<1>1. ASSUME BrokerInv PROVE CrashesAreCovered
  <2>1. IInv /\ ObjectInv /\ OneCrashIsCovered /\ ScopesAccounted /\ BrokerTypeOK
    BY <1>1 DEF BrokerInv, LedgerInv, ObjectInv
  <2>2. ASSUME NEW d \in Digests
        PROVE  LET known == UploadBytes(d)
                            + IF object[d] = "absent" THEN 0 ELSE ObjectSize[d]
               IN  known <= files[d] /\ files[d] - known <= crashes[d] * ObjectSize[d]
    <3>1. /\ files[d] \in Nat /\ ObjectSize[d] \in Nat /\ crashes[d] \in Nat
          /\ crashes[d] * ObjectSize[d] \in Nat
      BY <2>1, ObjectScope, OnceMore DEF BrokerTypeOK
    <3>2. UploadBytes(d) \in Nat /\ Holds(d, UploadBytes(d))
      <4>1. CASE Uploaded(d)
        BY <2>1, <4>1, UploadBytesAre DEF Uploaded, ScopesAccounted, BrokerTypeOK
      <4>2. CASE ~Uploaded(d)
        BY <2>1, <4>2, UploadBytesAre DEF ScopesAccounted
      <4> QED BY <4>1, <4>2
    <3> QED BY <3>1, <3>2 DEF Holds, Stored
  <2> QED BY <2>1, <2>2 DEF CrashesAreCovered, LeftoversAreCrashes
<1> QED BY <1>1, BrokerInductive, PTL
===============================================================================
