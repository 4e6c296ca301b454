----------------------------- MODULE StorageBroker ----------------------------
(***************************************************************************)
(* The artifact broker (harness_api/app/storage_broker.py): one process    *)
(* that stores objects by digest, each under a scope of its own of the     *)
(* reservation ledger, which it shares with the writers of StorageQuota.   *)
(*                                                                         *)
(* put is a coroutine.  It gives way to other requests only while it waits *)
(* for a block of its body, so the look at the destination, the kernel lock*)
(* and the reservation are one action, and so are the rename and the end of*)
(* the reservation, unless the process dies between them.  A put that meets*)
(* a live upload (503) or a full ledger (507) changes nothing.             *)
(***************************************************************************)
EXTENDS StorageQuota

CONSTANTS
  Digests,    \* the scopes of the broker's objects
  ObjectSize, \* length of the content with a digest
  Overhead,   \* OBJECT_OVERHEAD
  MaxCrashes  \* bounds how often the process dies with an upload of a digest

ASSUME BrokerAssumption ==
  /\ Digests \subseteq Scopes
  /\ ObjectSize \in [Digests -> Nat \ {0}]
  /\ Overhead \in Nat /\ MaxCrashes \in Nat
  /\ \A pair \in Inside : pair[1] \notin Digests /\ pair[2] \notin Digests

VARIABLES
  object,   \* the destination file of a digest
  received, \* bytes in the temporary file of a request
  crashes,  \* crashes during an upload of a digest, for the properties
  acked     \* digests a client has a receipt for, for the properties

brokerVars == <<vars, object, received, crashes, acked>>

BrokerInit ==
  /\ Init
  /\ object = [d \in Digests |-> "absent"]
  /\ received = [w \in Writers |-> 0]
  /\ crashes = [d \in Digests |-> 0]
  /\ acked = {}

\* Room for a partial file a crash left, this attempt, and metadata.
Capacity(d) == 2 * ObjectSize[d] + Overhead

\* A handler that is past its reservation.
Uploads(w) == writer[w].pc = "writing" /\ writer[w].scope \in Digests

-------------------------------------------------------------------------------
(* put *)

\* The destination exists: its bytes are verified and the body is only read.
PutExisting(w, d) ==
  /\ writer[w].pc = "idle"
  /\ object[d] = "whole"
  /\ acked' = acked \cup {d}
  /\ UNCHANGED <<vars, object, received, crashes>>

PutGranted(w, d) ==
  /\ writer[w].pc = "idle"
  /\ object[d] = "absent" /\ LockFree(d) /\ Fits(d, Capacity(d))
  /\ lock' = [lock EXCEPT ![d] = w]
  /\ ledger' = Reserved(d, Capacity(d))
  /\ writer' = [writer EXCEPT ![w] = [pc |-> "writing", scope |-> d,
                                      capacity |-> Capacity(d),
                                      left |-> Capacity(d) - files[d]]]
  /\ UNCHANGED <<files, stray, object, received, crashes, acked>>

Expected(w) == ObjectSize[writer[w].scope] - received[w]

\* receive takes one block; nothing compares it with the reservation.
ReceiveBlock(w, n) ==
  LET d == writer[w].scope
      over == IF n > writer[w].left THEN n - writer[w].left ELSE 0
  IN  /\ Uploads(w)
      /\ n > 0 /\ n <= Expected(w) /\ stray + over <= MaxStray
      /\ files' = [files EXCEPT ![d] = @ + n]
      /\ received' = [received EXCEPT ![w] = @ + n]
      /\ writer' = [writer EXCEPT ![w].left = @ - (n - over)]
      /\ stray' = stray + over
      /\ UNCHANGED <<ledger, lock, object, crashes, acked>>

\* Mutant: the temporary file of a failed request stays.
KeepTemporary(w) == UNCHANGED files

Unlink(w) == files' = [files EXCEPT ![writer[w].scope] = @ - received[w]]

\* The body is short, too long, wrong or late, or its client went away.
PutFails(w) ==
  /\ Uploads(w)
  /\ CloseRow(w, "failed")
  /\ Release(w)
  /\ Unlink(w)
  /\ received' = [received EXCEPT ![w] = 0]
  /\ UNCHANGED <<stray, object, crashes, acked>>

\* Mutant: the file is renamed before its body is complete.
AnyBody(w) == received[w] > 0

Verified(w) == received[w] = ObjectSize[writer[w].scope]

Published(w) ==
  LET d == writer[w].scope
  IN  [object EXCEPT ![d] = IF received[w] = ObjectSize[d] THEN "whole"
                                                           ELSE "partial"]

\* The rename, the end of the reservation, and the receipt; none (507) when the
\* scope has outgrown what was reserved.
PutCompletes(w) ==
  LET d == writer[w].scope
      oversize == Size(d) > writer[w].capacity \/ Charged(ledger) > Limit
  IN  /\ Uploads(w) /\ Verified(w)
      /\ object' = Published(w)
      /\ received' = [received EXCEPT ![w] = 0]
      /\ CloseRow(w, IF oversize THEN "failed" ELSE "complete")
      /\ Release(w)
      /\ acked' = IF oversize THEN acked ELSE acked \cup {d}
      /\ UNCHANGED <<files, stray, crashes>>

\* The last scan raises, because an entry of another writer vanished under
\* it: the object is there, the row stays active and the answer is 500.
PutUnscanned(w) ==
  /\ Uploads(w) /\ Verified(w)
  /\ object' = Published(w)
  /\ received' = [received EXCEPT ![w] = 0]
  /\ Release(w)
  /\ UNCHANGED <<files, ledger, stray, crashes, acked>>

-------------------------------------------------------------------------------
(* The process dies with its uploads; one may be past its rename *)

Uploaded(d) == \E w \in Writers : Uploads(w) /\ writer[w].scope = d

Dies ==
  /\ writer' = [w \in Writers |-> IF Uploads(w) THEN Idle ELSE writer[w]]
  /\ lock' = [s \in Scopes |-> IF s \in Digests /\ Uploaded(s) THEN None ELSE lock[s]]
  /\ received' = [w \in Writers |-> 0]
  /\ crashes' = [d \in Digests |-> IF Uploaded(d) THEN crashes[d] + 1 ELSE crashes[d]]
  /\ UNCHANGED <<files, ledger, stray, acked>>

MayCrash == /\ \E d \in Digests : Uploaded(d)
            /\ \A d \in Digests : crashes[d] < MaxCrashes

Crash == MayCrash /\ Dies /\ UNCHANGED object

CrashAfterRename(w) ==
  /\ MayCrash
  /\ Uploads(w) /\ Verified(w)
  /\ object' = Published(w)
  /\ Dies

\* The disk damages a stored object.
Damage(d) ==
  /\ object[d] = "whole"
  /\ object' = [object EXCEPT ![d] = "corrupt"]
  /\ UNCHANGED <<vars, received, crashes, acked>>

-------------------------------------------------------------------------------
(* The broker and the other processes under the same root, which write beside*)
(* the objects; the operator reconciles these too (scripts/storage_quota.py) *)

OtherStep(w) ==
  /\ ~Uploads(w)
  /\ Operation(w)
  /\ writer'[w].pc \in {"holding", "writing"} => writer'[w].scope \notin Digests
  /\ UNCHANGED <<object, received, crashes, acked>>

OtherFiles(s) ==
  /\ \E n \in 1 .. Limit : Remove(s, n) \/ Stray(s, n)
  /\ UNCHANGED <<object, received, crashes, acked>>

Put(w) ==
  \/ \E d \in Digests : PutExisting(w, d) \/ PutGranted(w, d)
  \/ \E n \in 1 .. Limit : ReceiveBlock(w, n)
  \/ PutFails(w) \/ PutCompletes(w) \/ PutUnscanned(w)
  \/ CrashAfterRename(w)

BrokerNext ==
  \/ \E w \in Writers : Put(w) \/ OtherStep(w)
  \/ Crash
  \/ \E d \in Digests : Damage(d)
  \/ \E s \in Scopes \ Digests : OtherFiles(s)

BrokerSpec == BrokerInit /\ [][BrokerNext]_brokerVars

-------------------------------------------------------------------------------
(* Properties *)

\* Objects, uploads and crashes are of their types, and so is the ledger.
BrokerTypeOK ==
  /\ TypeOK
  /\ object \in [Digests -> {"absent", "whole", "corrupt", "partial"}]
  /\ received \in [Writers -> Nat]
  /\ \A w \in Writers :
       Uploads(w) => received[w] <= ObjectSize[writer[w].scope]
  /\ crashes \in [Digests -> Nat]
  /\ acked \subseteq Digests

\* No partial object is ever published, and what a client has a receipt for
\* stays, whatever uploads fail, die or race afterwards.
PublishedIsWhole ==
  \A d \in Digests : /\ object[d] # "partial"
                     /\ d \in acked => object[d] # "absent"

UploadBytes(d) ==
  SumFunctionOnSet(received, {w \in Writers : writer[w].scope = d})

\* "Normal failed requests remove only their own uniquely named temporary
\* file": beyond the object and the uploads in progress, a scope holds
\* nothing but what crashes left.
LeftoversAreCrashes ==
  \A d \in Digests :
    LET known == UploadBytes(d)
                 + IF object[d] = "absent" THEN 0 ELSE ObjectSize[d]
    IN  /\ known <= files[d]
        /\ files[d] - known <= crashes[d] * ObjectSize[d]

\* "The reservation covers a crash-left partial plus a fresh attempt": unless
\* two crashes hit one digest, the rest of an upload is still reserved.
OneCrashIsCovered ==
  \A w \in Writers :
    /\ Uploads(w)
    /\ crashes[writer[w].scope] <= 1
    => Expected(w) <= writer[w].left

\* What deaths of the broker leave is bounded, and the first is paid for.
CrashesAreCovered == LeftoversAreCrashes /\ OneCrashIsCovered
===============================================================================
