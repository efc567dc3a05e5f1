----------------------------- MODULE StoreSpec -----------------------------
(***************************************************************************)
(* What JsonDocumentStore and StoreTransaction promise to their callers,   *)
(* with no lock and no file: every client edits a private working copy,    *)
(* and a copy becomes the store's document only if the store still is at   *)
(* the revision the copy was taken from.  Each commit advances the store-  *)
(* wide revision by exactly one, so a revision names one document.         *)
(***************************************************************************)
EXTENDS Naturals

CONSTANTS Threads,      \* clients of the store
          Contents,     \* documents without their revision
          NoWork        \* a client that has no working copy

VARIABLES doc,          \* [revision, content]: the durable document
          work          \* client -> NoWork or [base, content]

specVars == <<doc, work>>

SpecInit(initial) ==
    /\ doc = [revision |-> 0, content |-> initial]
    /\ work = [t \in Threads |-> NoWork]

\* A client takes a copy of the current document and may edit it at once.
Begin(t) ==
    /\ work[t] = NoWork
    /\ \E content \in Contents :
         work' = [work EXCEPT ![t] = [base |-> doc.revision, content |-> content]]
    /\ UNCHANGED doc

Edit(t) ==
    /\ work[t] # NoWork
    /\ \E content \in Contents :
         work' = [work EXCEPT ![t] = [base |-> work[t].base, content |-> content]]
    /\ UNCHANGED doc

Abandon(t) ==
    /\ work[t] # NoWork
    /\ work' = [work EXCEPT ![t] = NoWork]
    /\ UNCHANGED doc

\* First committer wins: a copy taken from an older revision never commits.
Commit(t) ==
    /\ work[t] # NoWork
    /\ work[t].base = doc.revision
    /\ doc' = [revision |-> doc.revision + 1, content |-> work[t].content]
    /\ work' = [work EXCEPT ![t] = NoWork]

\* The process restarts: working copies are lost, the document is not.
Restart ==
    /\ work' = [t \in Threads |-> NoWork]
    /\ UNCHANGED doc

SpecNext ==
    \/ \E t \in Threads : Begin(t) \/ Edit(t) \/ Abandon(t) \/ Commit(t)
    \/ Restart
=============================================================================
