----------------------------- MODULE StorageQuota -----------------------------
(***************************************************************************)
(* The reservation ledger of one runtime filesystem and the processes that *)
(* write under it (harness_api/app/core/storage/quota.py).                 *)
(*                                                                         *)
(* A scope is a directory under the root; one scope may lie inside another.*)
(* The kernel lock of a scope and the rows of the ledger are separate: a   *)
(* process takes the lock, then decides in one BEGIN IMMEDIATE transaction,*)
(* writes its files with no transaction open, and closes the row in a last *)
(* transaction.  It may die anywhere in between.                           *)
(*                                                                         *)
(* Bytes are the charge of a file (the larger of its length and its blocks)*)
(* and Limit is what the policy leaves after the control files.            *)
(***************************************************************************)
EXTENDS Naturals, FiniteSets, Functions

CONSTANTS
  Writers,    \* processes that use the ledger, the operator's included
  Scopes,     \* directories under the root
  Inside,     \* pairs <<s, t>> of scopes: s lies below t
  Capacities, \* sizes the writers reserve
  Limit,      \* policy limit less the control files
  MaxStray,   \* bounds the bytes written outside the ledger
  None

ASSUME QuotaAssumption ==
  /\ Inside \subseteq Scopes \X Scopes
  /\ Capacities \subseteq Nat
  /\ Limit \in Nat /\ MaxStray \in Nat
  /\ None \notin Writers /\ None \notin Scopes
  /\ IsFiniteSet(Writers) /\ IsFiniteSet(Scopes)

\* Directories are a tree: of two that a scope lies below, one is the other's.
ASSUME ScopesAreATree ==
  \A r, s, t \in Scopes :
    <<r, s>> \in Inside /\ <<r, t>> \in Inside
      => s = t \/ <<s, t>> \in Inside \/ <<t, s>> \in Inside

VARIABLES
  files,   \* bytes of the files in a scope and in no scope below it
  ledger,  \* the reservations table, by scope
  lock,    \* who has the flock of a scope
  writer,  \* what each process does
  stray    \* bytes written with no regard to the ledger, for the properties

vars == <<files, ledger, lock, writer, stray>>

Statuses == {"active", "failed", "complete", "reconciled"}

Rows == [status : {"absent"} \cup Statuses, capacity : Nat]

\* left is what the process may still write: callers bound their own output.
Processes == [pc : {"idle", "holding", "reconciling", "writing"},
              scope : Scopes \cup {None}, capacity : Nat, left : Nat]

Idle == [pc |-> "idle", scope |-> None, capacity |-> 0, left |-> 0]

Init ==
  /\ files = [s \in Scopes |-> 0]
  /\ ledger = [s \in Scopes |-> [status |-> "absent", capacity |-> 0]]
  /\ lock = [s \in Scopes |-> None]
  /\ writer = [w \in Writers |-> Idle]
  /\ stray = 0

-------------------------------------------------------------------------------
(* What a scan of the tree and the ledger say *)

Below(s) == {t \in Scopes : t = s \/ <<t, s>> \in Inside}

Size(s) == SumFunctionOnSet(files, Below(s))

Unfinished(rows) == {s \in Scopes : rows[s].status \in {"active", "failed"}}

\* What a scope has not used of its capacity.
Unused(rows) ==
  [s \in Scopes |-> IF rows[s].capacity > Size(s) THEN rows[s].capacity - Size(s)
                                                  ELSE 0]

Headroom(rows) == SumFunctionOnSet(Unused(rows), Unfinished(rows))

Charged(rows) == SumFunctionOnSet(files, Scopes) + Headroom(rows)

\* Mutant: only an enclosing reservation is looked for.
EnclosedBy(s) == {t \in Unfinished(ledger) : <<s, t>> \in Inside}

Overlapping(s) ==
  {t \in Unfinished(ledger) : t # s /\ (<<s, t>> \in Inside \/ <<t, s>> \in Inside)}

\* The row replaces the scope's earlier one, whatever its status.
Reserved(s, capacity) ==
  [ledger EXCEPT ![s] = [status |-> "active", capacity |-> capacity]]

\* Mutant: the ledger is charged before the new row is in it.
FitsBefore(s, capacity) == Size(s) <= capacity /\ Charged(ledger) <= Limit

Fits(s, capacity) ==
  /\ Size(s) <= capacity
  /\ Charged(Reserved(s, capacity)) <= Limit

-------------------------------------------------------------------------------
(* The kernel lock, which the death of its process releases *)

\* Mutant: reconciling or retrying does not look for a live writer.
NoLock(s) == TRUE

LockFree(s) == lock[s] = None

Take(w, s, pc, capacity) ==
  /\ writer[w].pc = "idle"
  /\ LockFree(s)
  /\ lock' = [lock EXCEPT ![s] = w]
  /\ writer' = [writer EXCEPT ![w] = [pc |-> pc, scope |-> s,
                                      capacity |-> capacity, left |-> 0]]
  /\ UNCHANGED <<files, ledger, stray>>

Release(w) ==
  /\ lock' = [lock EXCEPT ![writer[w].scope] = None]
  /\ writer' = [writer EXCEPT ![w] = Idle]

\* Closes the row in the transaction that ends the operation.
CloseRow(w, status) ==
  ledger' = [ledger EXCEPT ![writer[w].scope].status = status]

-------------------------------------------------------------------------------
(* hold *)

Hold(w, s, capacity) == capacity > 0 /\ capacity <= Limit
                        /\ Take(w, s, "holding", capacity)

Grant(w) ==
  LET s == writer[w].scope  capacity == writer[w].capacity IN
  /\ writer[w].pc = "holding"
  /\ Overlapping(s) = {}
  /\ Fits(s, capacity)
  /\ ledger' = Reserved(s, capacity)
  /\ \E left \in 0 .. capacity :
       /\ Size(s) + left = capacity
       /\ writer' = [writer EXCEPT ![w] = [pc |-> "writing", scope |-> s,
                                           capacity |-> capacity, left |-> left]]
  /\ UNCHANGED <<files, lock, stray>>

\* Any refusal rolls the row back: an overlap, no room, a disk that is full
\* whatever the ledger says, or an entry that vanishes under the scan.
Refuse(w) ==
  /\ writer[w].pc = "holding"
  /\ Release(w)
  /\ UNCHANGED <<files, ledger, stray>>

OwnBound(w) == writer[w].left

\* The caller's own output, anywhere in its scope.
Write(w, t, n) ==
  /\ writer[w].pc = "writing"
  /\ t \in Below(writer[w].scope)
  /\ n > 0 /\ n <= OwnBound(w)
  /\ files' = [files EXCEPT ![t] = @ + n]
  /\ writer' = [writer EXCEPT ![w].left = @ - n]
  /\ UNCHANGED <<ledger, lock, stray>>

\* The body returned: completed, or failed when the scan finds too much.
Complete(w) ==
  LET oversize == \/ Size(writer[w].scope) > writer[w].capacity
                  \/ Charged(ledger) > Limit
  IN  /\ writer[w].pc = "writing"
      /\ CloseRow(w, IF oversize THEN "failed" ELSE "complete")
      /\ Release(w)
      /\ UNCHANGED <<files, stray>>

\* The body raised: the headroom stays charged.
Fail(w) ==
  /\ writer[w].pc = "writing"
  /\ CloseRow(w, "failed")
  /\ Release(w)
  /\ UNCHANGED <<files, stray>>

\* The process dies, or the scan of its last transaction raises: either way
\* the lock goes and the row stays as it is.
Abandon(w) ==
  /\ writer[w].pc # "idle"
  /\ Release(w)
  /\ UNCHANGED <<files, ledger, stray>>

-------------------------------------------------------------------------------
(* reconcile, called by the operator *)

StartReconcile(w, s) == Take(w, s, "reconciling", 0)

Reconcile(w) ==
  /\ writer[w].pc = "reconciling"
  /\ ledger[writer[w].scope].status # "absent"
  /\ CloseRow(w, "reconciled")
  /\ Release(w)
  /\ UNCHANGED <<files, stray>>

UnknownReservation(w) ==
  /\ writer[w].pc = "reconciling"
  /\ ledger[writer[w].scope].status = "absent"
  /\ Release(w)
  /\ UNCHANGED <<files, ledger, stray>>

-------------------------------------------------------------------------------
(* Files that change outside the ledger *)

Remove(s, n) ==
  /\ n > 0 /\ n <= files[s]
  /\ files' = [files EXCEPT ![s] = @ - n]
  /\ UNCHANGED <<ledger, lock, writer, stray>>

Stray(s, n) ==
  /\ n > 0 /\ stray + n <= MaxStray
  /\ files' = [files EXCEPT ![s] = @ + n]
  /\ stray' = stray + n
  /\ UNCHANGED <<ledger, lock, writer>>

Operation(w) ==
  \/ \E s \in Scopes, c \in Capacities : Hold(w, s, c)
  \/ Grant(w) \/ Refuse(w)
  \/ \E t \in Scopes, n \in 1 .. Limit : Write(w, t, n)
  \/ Complete(w) \/ Fail(w) \/ Abandon(w)
  \/ \E s \in Scopes : StartReconcile(w, s)
  \/ Reconcile(w) \/ UnknownReservation(w)

Next ==
  \/ \E w \in Writers : Operation(w)
  \/ \E s \in Scopes, n \in 1 .. Limit : Remove(s, n) \/ Stray(s, n)

Spec == Init /\ [][Next]_vars

-------------------------------------------------------------------------------
(* Properties *)

\* Every row, lock and process is of its type; what a writer may still write
\* never falls below zero.
TypeOK ==
  /\ files \in [Scopes -> Nat]
  /\ ledger \in [Scopes -> Rows]
  /\ lock \in [Scopes -> Writers \cup {None}]
  /\ writer \in [Writers -> Processes]
  /\ stray \in Nat

Writing(w) == writer[w].pc = "writing"

\* Two processes never write under one scope, or one below the other, however
\* crashes, retries and reconciliations fall: the overlap check reads rows,
\* and rows outlive the locks that protected them.
WritersDisjoint ==
  \A v, w \in Writers :
    v # w /\ Writing(v) /\ Writing(w)
      => LET s == writer[v].scope  t == writer[w].scope
         IN  s # t /\ <<s, t>> \notin Inside /\ <<t, s>> \notin Inside

\* While a process writes, its row is active with the capacity it was
\* granted: nobody reconciles, replaces or closes it (_writer_lock).
HeadroomKept ==
  \A w \in Writers :
    Writing(w) => ledger[writer[w].scope] = [status |-> "active",
                                             capacity |-> writer[w].capacity]

\* "All writers must bound their own output": then data and unfinished
\* headroom stay within the limit, and what exceeds it is stray.
WithinLimit == Charged(ledger) <= Limit + stray
===============================================================================
