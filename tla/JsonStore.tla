----------------------------- MODULE JsonStore -----------------------------
(***************************************************************************)
(* storage/store.py and storage/transaction.py: one JSON document behind a *)
(* re-entrant process lock.  Threads of one process call the store; a call *)
(* that ends in a write reads the document under the lock, works on a copy *)
(* and writes it back through a temporary file that replaces the document. *)
(*                                                                         *)
(* Every such call is a frame on its thread's stack: write_collection,     *)
(* mutate_collection, replace_snapshot, or a `with store.transaction()'    *)
(* block.  The RLock lets the thread that holds it call the store again    *)
(* from the body of a block or from a mutator; MaxDepth says how deep the  *)
(* callers nest such calls (1: they never do).                             *)
(***************************************************************************)
EXTENDS Naturals, Sequences

CONSTANTS Threads,       \* threads of the process that share one store object
          Names,         \* collection names
          Rows,          \* valid contents of a collection (ids unique)
          Absent,        \* a collection the document does not have
          None,          \* no thread, no expected revision, no document
          Torn,          \* a temporary file whose write was cut short
          MaxDepth,      \* nesting of store calls in one thread
          MaxSchema,     \* bound: schema versions
          MaxRevision    \* bound: no call starts at this revision

ASSUME BoundsAssumption ==
    /\ MaxDepth \in Nat \ {0}
    /\ MaxSchema \in Nat \ {0}
    /\ MaxRevision \in Nat
ASSUME ValuesAssumption == Absent \notin Rows /\ None \notin Threads \cup Nat

VARIABLES disk,          \* the document at store.path
          tmp,           \* the file at store.path with suffix .tmp
          backup,        \* the last backup_to destination, or None
          owner, depth,  \* the RLock: holding thread and recursion count
          frames,        \* thread -> stack of the store calls in progress
          snap           \* thread -> a document it holds (snapshot, backup)

vars == <<disk, tmp, backup, owner, depth, frames, snap>>

Content == [schema : 1..MaxSchema, colls : [Names -> Rows \cup {Absent}]]
Document == [revision : Nat, content : Content]

\* Python's None is no working copy.
ASSUME NoneAssumption == None \notin [base : Nat, content : Content]

\* What _read returns when the file does not exist.
EmptyContent == [schema |-> 1, colls |-> [c \in Names |-> Absent]]

Frame == [kind : {"write", "mutate", "replace", "tx"},
          expected : Nat \cup {None},
          phase : {"locked", "open", "torn", "whole", "done", "gone"},
          exiting : BOOLEAN,
          start : Nat,
          data : Content,
          touched : SUBSET Names]

(***************************************************************************)
(* The stack of a thread and the lock.                                     *)
(***************************************************************************)
Top(t) == frames[t][Len(frames[t])]
InCall(t) == frames[t] # <<>>
InPhase(t, p) == InCall(t) /\ Top(t).phase = p
ReplaceTop(t, f) == [frames EXCEPT ![t] = [frames[t] EXCEPT ![Len(frames[t])] = f]]

\* Code of the caller runs: outside the store, in a with-block or a mutator.
CallerRuns(t) == InCall(t) => Top(t).phase \in {"open", "done", "gone"}

\* Mutant: nobody waits for the lock.
LockIgnored(t) == TRUE

LockAvailable(t) == owner \in {None, t}
CanCall(t) == CallerRuns(t) /\ LockAvailable(t) /\ Len(frames[t]) < MaxDepth

\* Release one level of the lock and drop the frame it belongs to.
Return(t) ==
    /\ frames' = [frames EXCEPT ![t] = SubSeq(frames[t], 1, Len(frames[t]) - 1)]
    /\ depth' = depth - 1
    /\ owner' = IF depth = 1 THEN None ELSE owner

(***************************************************************************)
(* Entering a call: the lock first, then the document, then the check of   *)
(* expected_revision.                                                      *)
(***************************************************************************)
Expectations(t) == {None} \cup (IF snap[t] = None THEN {} ELSE {snap[t].revision})

Acquire(t, kind, expected) ==
    /\ CanCall(t)
    /\ disk.revision < MaxRevision
    /\ kind = "write" => expected = None
    /\ kind = "replace" => snap[t] # None
    /\ owner' = t
    /\ depth' = depth + 1
    /\ frames' = [frames EXCEPT ![t] = Append(frames[t],
                    [kind |-> kind, expected |-> expected, phase |-> "locked",
                     exiting |-> FALSE, start |-> 0, data |-> EmptyContent,
                     touched |-> {}])]
    /\ UNCHANGED <<disk, tmp, backup, snap>>

RevisionExpected(t) == Top(t).expected \in {None, disk.revision}

\* _read raises StorageError, or the revision is not the expected one and it
\* is ConflictError: either way the lock is given back.
EntryRaises(t) ==
    /\ InPhase(t, "locked")
    /\ Return(t)
    /\ UNCHANGED <<disk, tmp, backup, snap>>

\* Mutant: the copy is of a document the thread read before it had the lock.
OpenBodyOnSnapshot(t) ==
    /\ InPhase(t, "locked")
    /\ Top(t).kind \in {"tx", "mutate"}
    /\ RevisionExpected(t)
    /\ LET read == IF snap[t] = None THEN disk ELSE snap[t]
       IN  frames' = ReplaceTop(t, [Top(t) EXCEPT !.phase = "open",
                                      !.start = read.revision, !.data = read.content])
    /\ UNCHANGED <<disk, tmp, backup, owner, depth, snap>>

\* StoreTransaction.__enter__ and mutate_collection hand a copy to the caller.
OpenBody(t) ==
    /\ InPhase(t, "locked")
    /\ Top(t).kind \in {"tx", "mutate"}
    /\ RevisionExpected(t)
    /\ frames' = ReplaceTop(t, [Top(t) EXCEPT !.phase = "open",
                                  !.start = disk.revision, !.data = disk.content])
    /\ UNCHANGED <<disk, tmp, backup, owner, depth, snap>>

\* write_collection replaces one collection of the document it just read.
PrepareWrite(t, c, r) ==
    /\ InPhase(t, "locked")
    /\ Top(t).kind = "write"
    /\ frames' = ReplaceTop(t, [Top(t) EXCEPT !.phase = "torn",
                                  !.start = disk.revision,
                                  !.data = [disk.content EXCEPT !.colls[c] = r],
                                  !.touched = {c}])
    /\ tmp' = Torn
    /\ UNCHANGED <<disk, backup, owner, depth, snap>>

\* replace_snapshot takes everything but the revision from the snapshot.
PrepareReplace(t) ==
    /\ InPhase(t, "locked")
    /\ Top(t).kind = "replace"
    /\ snap[t] # None
    /\ RevisionExpected(t)
    /\ frames' = ReplaceTop(t, [Top(t) EXCEPT !.phase = "torn",
                                  !.start = disk.revision,
                                  !.data = snap[t].content,
                                  !.touched = Names])
    /\ tmp' = Torn
    /\ UNCHANGED <<disk, backup, owner, depth, snap>>

(***************************************************************************)
(* The body of a transaction, and the end of a mutator.                    *)
(***************************************************************************)
\* The transaction object still has its working copy.
Active(t) == InCall(t) /\ Top(t).kind = "tx" /\ Top(t).phase \in {"open", "done"}

\* write_collection, append, upsert and delete all end here.
TxWrite(t, c, r) ==
    /\ Active(t)
    /\ frames' = ReplaceTop(t, [Top(t) EXCEPT !.data.colls[c] = r,
                                  !.touched = Top(t).touched \cup {c}])
    /\ UNCHANGED <<disk, tmp, backup, owner, depth, snap>>

TxRename(t, source, destination) ==
    /\ Active(t)
    /\ Top(t).data.colls[source] # Absent
    /\ Top(t).data.colls[destination] = Absent
    /\ frames' = ReplaceTop(t, [Top(t) EXCEPT
                     !.data.colls[destination] = Top(t).data.colls[source],
                     !.data.colls[source] = Absent,
                     !.touched = Top(t).touched \cup {source, destination}])
    /\ UNCHANGED <<disk, tmp, backup, owner, depth, snap>>

TxSetSchema(t, version) ==
    /\ Active(t)
    /\ frames' = ReplaceTop(t, [Top(t) EXCEPT !.data.schema = version])
    /\ UNCHANGED <<disk, tmp, backup, owner, depth, snap>>

\* rollback() drops the copy and marks the transaction completed.
TxRollback(t) ==
    /\ Active(t)
    /\ frames' = ReplaceTop(t, [Top(t) EXCEPT !.phase = "gone"])
    /\ UNCHANGED <<disk, tmp, backup, owner, depth, snap>>

\* commit() in the body; a second one raises and changes nothing.
TxCommit(t) ==
    /\ InPhase(t, "open")
    /\ Top(t).kind = "tx"
    /\ frames' = ReplaceTop(t, [Top(t) EXCEPT !.phase = "torn"])
    /\ tmp' = Torn
    /\ UNCHANGED <<disk, backup, owner, depth, snap>>

\* __exit__ of a body that raised, or whose transaction is completed.
TxLeave(t) ==
    /\ InCall(t)
    /\ Top(t).kind = "tx"
    /\ Top(t).phase \in {"open", "done", "gone"}
    /\ Return(t)
    /\ UNCHANGED <<disk, tmp, backup, snap>>

\* __exit__ of a body that ended normally commits what is not yet committed.
TxExitCommit(t) ==
    /\ InPhase(t, "open")
    /\ Top(t).kind = "tx"
    /\ frames' = ReplaceTop(t, [Top(t) EXCEPT !.phase = "torn", !.exiting = TRUE])
    /\ tmp' = Torn
    /\ UNCHANGED <<disk, backup, owner, depth, snap>>

MutatorReturns(t, c, r) ==
    /\ InPhase(t, "open")
    /\ Top(t).kind = "mutate"
    /\ frames' = ReplaceTop(t, [Top(t) EXCEPT !.phase = "torn", !.data.colls[c] = r,
                                  !.touched = Top(t).touched \cup {c}])
    /\ tmp' = Torn
    /\ UNCHANGED <<disk, backup, owner, depth, snap>>

\* The mutator raises, or leaves rows that _validate_rows refuses.
MutatorRaises(t) ==
    /\ InPhase(t, "open")
    /\ Top(t).kind = "mutate"
    /\ Return(t)
    /\ UNCHANGED <<disk, tmp, backup, snap>>

(***************************************************************************)
(* _write: the temporary file is written (torn until it is whole), then it *)
(* replaces the document in one step.  Either half may fail with OSError.  *)
(***************************************************************************)
\* Mutant: the revision is written back as it was read.
FinishTemporarySameRevision(t) ==
    /\ InPhase(t, "torn")
    /\ tmp' = [revision |-> Top(t).start, content |-> Top(t).data]
    /\ frames' = ReplaceTop(t, [Top(t) EXCEPT !.phase = "whole"])
    /\ UNCHANGED <<disk, backup, owner, depth, snap>>

FinishTemporary(t) ==
    /\ InPhase(t, "torn")
    /\ tmp' = [revision |-> Top(t).start + 1, content |-> Top(t).data]
    /\ frames' = ReplaceTop(t, [Top(t) EXCEPT !.phase = "whole"])
    /\ UNCHANGED <<disk, backup, owner, depth, snap>>

\* Does the call return to its caller when _write returns or raises?
Ends(t) == Top(t).kind # "tx" \/ Top(t).exiting

ReplaceDocument(t) ==
    /\ InPhase(t, "whole")
    /\ disk' = tmp
    /\ tmp' = None
    /\ IF Ends(t)
       THEN Return(t)
       ELSE /\ frames' = ReplaceTop(t, [Top(t) EXCEPT !.phase = "done"])
            /\ UNCHANGED <<owner, depth>>
    /\ UNCHANGED <<backup, snap>>

\* Mutant: a call that fails to write keeps the lock.
WriteFailsLocked(t) ==
    /\ InPhase(t, "torn") \/ InPhase(t, "whole")
    /\ Ends(t)
    /\ frames' = [frames EXCEPT ![t] = SubSeq(frames[t], 1, Len(frames[t]) - 1)]
    /\ UNCHANGED <<disk, tmp, backup, owner, depth, snap>>

\* StorageError: a failed explicit commit leaves the transaction open.
WriteFails(t) ==
    /\ InPhase(t, "torn") \/ InPhase(t, "whole")
    /\ IF Ends(t)
       THEN Return(t)
       ELSE /\ frames' = ReplaceTop(t, [Top(t) EXCEPT !.phase = "open"])
            /\ UNCHANGED <<owner, depth>>
    /\ UNCHANGED <<disk, tmp, backup, snap>>

(***************************************************************************)
(* Calls that do not write the document.                                   *)
(***************************************************************************)
\* snapshot(), or the revision property: under the lock for one step.
Snapshot(t) ==
    /\ CanCall(t)
    /\ snap' = [snap EXCEPT ![t] = disk]
    /\ UNCHANGED <<disk, tmp, backup, owner, depth, frames>>

BackupTo(t) ==
    /\ CanCall(t)
    /\ backup' = disk
    /\ UNCHANGED <<disk, tmp, owner, depth, frames, snap>>

\* restore_from reads the backup before it asks for the lock.
ReadBackup(t) ==
    /\ CallerRuns(t)
    /\ backup # None
    /\ snap' = [snap EXCEPT ![t] = backup]
    /\ UNCHANGED <<disk, tmp, backup, owner, depth, frames>>

\* The process dies and starts again: the files stay, all else is gone.
Crash ==
    /\ owner' = None
    /\ depth' = 0
    /\ frames' = [t \in Threads |-> <<>>]
    /\ snap' = [t \in Threads |-> None]
    /\ UNCHANGED <<disk, tmp, backup>>

Init ==
    /\ disk = [revision |-> 0, content |-> EmptyContent]
    /\ tmp = None
    /\ backup = None
    /\ owner = None
    /\ depth = 0
    /\ frames = [t \in Threads |-> <<>>]
    /\ snap = [t \in Threads |-> None]

Enter(t) == \E kind \in {"write", "mutate", "replace", "tx"}, e \in Expectations(t) :
                Acquire(t, kind, e)

\* Steps of the store's own code inside a call.
StoreStep(t) ==
    \/ EntryRaises(t)
    \/ OpenBody(t)
    \/ \E c \in Names, r \in Rows : PrepareWrite(t, c, r)
    \/ PrepareReplace(t)
    \/ FinishTemporary(t)
    \/ ReplaceDocument(t)
    \/ WriteFails(t)

\* Steps by which a with-block or a mutator comes to its end.
BodyEnds(t) ==
    \/ TxLeave(t)
    \/ TxExitCommit(t)
    \/ \E c \in Names, r \in Rows : MutatorReturns(t, c, r)
    \/ MutatorRaises(t)

BodyStep(t) ==
    \/ \E c \in Names, r \in Rows : TxWrite(t, c, r)
    \/ \E c, d \in Names : TxRename(t, c, d)
    \/ \E v \in 1..MaxSchema : TxSetSchema(t, v)
    \/ TxRollback(t)
    \/ TxCommit(t)

Observe(t) == Snapshot(t) \/ BackupTo(t) \/ ReadBackup(t)

Next ==
    \/ \E t \in Threads : Enter(t) \/ StoreStep(t) \/ BodyStep(t) \/ BodyEnds(t)
                            \/ Observe(t)
    \/ Crash

Spec == Init /\ [][Next]_vars

(***************************************************************************)
(* The interpreter keeps running the store's code, and the callers' blocks *)
(* and mutators are finite: they come to their end however often an        *)
(* explicit commit fails and is tried again (hence the strong fairness).   *)
(* Nothing is assumed of the lock, which is not fair between threads.      *)
(***************************************************************************)
Fairness == \A t \in Threads : WF_vars(StoreStep(t)) /\ SF_vars(BodyEnds(t))

FairSpec == Spec /\ Fairness

-----------------------------------------------------------------------------
TypeOK ==
    /\ disk \in Document
    /\ tmp \in Document \cup {Torn, None}
    /\ backup \in Document \cup {None}
    /\ owner \in Threads \cup {None}
    /\ depth \in Nat
    /\ frames \in [Threads -> Seq(Frame)]
    /\ snap \in [Threads -> Document \cup {None}]

\* The RLock is held exactly by the thread that has calls in progress, once
\* per call: no error path of __enter__, __exit__ or _write leaks a level.
LockMatchesCalls ==
    /\ depth = IF owner = None THEN 0 ELSE Len(frames[owner])
    /\ \A t \in Threads : InCall(t) <=> owner = t

\* A call that is past its revision check works on the document it read: as
\* long as it has not written, nobody else has.
Current(t) == InCall(t) /\ Top(t).phase \in {"open", "torn", "whole"}
                 => Top(t).start = disk.revision
OpenCallsAreCurrent == \A t \in Threads : Current(t)

\* The temporary file that is about to replace the document is the one this
\* call wrote, whole: a file torn by a crash or by another call never does.
TemporaryIsMine ==
    \A t \in Threads : InPhase(t, "whole")
        => tmp = [revision |-> Top(t).start + 1, content |-> Top(t).data]

\* The store-wide revision advances by one with every change of the document
\* and never otherwise, so a revision names one content of the store.
RevisionAdvances == [][disk' # disk => disk'.revision = disk.revision + 1]_vars

\* A write changes only the collections its call wrote: what other calls put
\* into the other collections before is still there afterwards.
NoLostUpdate ==
    [][\A t \in Threads : ReplaceDocument(t) =>
          \A c \in Names \ Top(t).touched :
             disk'.content.colls[c] = disk.content.colls[c]]_vars

\* A call that names an expected revision replaces the document of that
\* revision and no other: whoever else wrote since has made it fail.
ExpectedIsReplaced ==
    [][\A t \in Threads : ReplaceDocument(t) =>
          Top(t).expected \in {None, disk.revision}]_vars

\* Every call gives the lock back in the end.
LockIsReleased == \A t \in Threads : owner = t ~> owner # t

\* The store implements the optimistic specification of its promises.
Working(t) == InCall(t) /\ Top(t).phase \in {"open", "torn", "whole"}
abstractWork ==
    [t \in Threads |-> IF Working(t)
                       THEN [base |-> Top(t).start, content |-> Top(t).data]
                       ELSE None]
Abstract == INSTANCE StoreSpec WITH Contents <- Content, NoWork <- None,
                                    doc <- disk, work <- abstractWork
ImplementsStoreSpec ==
    Abstract!SpecInit(EmptyContent) /\ [][Abstract!SpecNext]_(Abstract!specVars)
=============================================================================
