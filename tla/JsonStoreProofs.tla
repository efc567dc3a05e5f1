-------------------------- MODULE JsonStoreProofs --------------------------
(***************************************************************************)
(* Proofs about JsonStore, for any threads, collections, contents and      *)
(* bounds.  The inductive invariant is TypeOK with three facts of the      *)
(* lock: it belongs to the thread that has calls in progress, once per     *)
(* call; below the top of a stack only callers' code is suspended; and a   *)
(* call that is about to rename the temporary file has just written it.    *)
(***************************************************************************)
EXTENDS JsonStore, SequenceTheorems, TLAPS

\* Below the top frame there are only blocks and mutators that called on.
SuspendedBodies ==
    \A t \in Threads : \A i \in 1..Len(frames[t]) :
        i < Len(frames[t]) => frames[t][i].phase \in {"open", "done", "gone"}

LockInv == TypeOK /\ LockMatchesCalls /\ SuspendedBodies /\ TemporaryIsMine

\* The part of the type invariant that is not about the lock and the stacks.
FilesTyped ==
    /\ disk \in Document
    /\ tmp \in Document \cup {Torn, None}
    /\ backup \in Document \cup {None}
    /\ snap \in [Threads -> Document \cup {None}]

-----------------------------------------------------------------------------
\* A frame in progress is a Frame, and the last element of its stack.
LEMMA TopIsFrame ==
    ASSUME TypeOK, NEW t \in Threads, InCall(t)
    PROVE  /\ Len(frames[t]) \in Nat \ {0}
           /\ Top(t) \in Frame
           /\ frames[t] \in Seq(Frame)
  BY DEF TypeOK, InCall, Top

\* Replacing the top frame keeps every other stack and the depth of this one.
LEMMA ReplaceTopFacts ==
    ASSUME TypeOK, NEW t \in Threads, InCall(t), NEW f \in Frame,
           frames' = ReplaceTop(t, f)
    PROVE  /\ frames' \in [Threads -> Seq(Frame)]
           /\ \A u \in Threads \ {t} : frames'[u] = frames[u]
           /\ frames'[t] # <<>>
           /\ Len(frames'[t]) = Len(frames[t])
           /\ frames'[t][Len(frames'[t])] = f
           /\ \A i \in 1..Len(frames[t]) :
                i < Len(frames[t]) => frames'[t][i] = frames[t][i]
  <1>1. /\ Len(frames[t]) \in Nat \ {0}
        /\ frames[t] \in Seq(Frame)
    BY TopIsFrame
  <1>2. frames' = [frames EXCEPT ![t] = [frames[t] EXCEPT ![Len(frames[t])] = f]]
    BY DEF ReplaceTop
  <1>3. frames'[t] = [frames[t] EXCEPT ![Len(frames[t])] = f]
    BY <1>2 DEF TypeOK
  <1>4. frames'[t] \in Seq(Frame) /\ Len(frames'[t]) = Len(frames[t])
    BY <1>1, <1>3
  <1>5. \A u \in Threads \ {t} : frames'[u] = frames[u]
    BY <1>2 DEF TypeOK
  <1>6. frames' \in [Threads -> Seq(Frame)]
    BY <1>2, <1>3, <1>4 DEF TypeOK
  <1> QED BY <1>1, <1>3, <1>4, <1>5, <1>6

\* A new call is pushed on the stack of its thread.
LEMMA PushFacts ==
    ASSUME TypeOK, NEW t \in Threads, NEW f \in Frame,
           frames' = [frames EXCEPT ![t] = Append(frames[t], f)]
    PROVE  /\ frames' \in [Threads -> Seq(Frame)]
           /\ \A u \in Threads \ {t} : frames'[u] = frames[u]
           /\ frames'[t] # <<>>
           /\ Len(frames'[t]) = Len(frames[t]) + 1
           /\ frames'[t][Len(frames'[t])] = f
           /\ \A i \in 1..Len(frames[t]) : frames'[t][i] = frames[t][i]
  <1>1. frames[t] \in Seq(Frame) /\ frames'[t] = Append(frames[t], f)
    BY DEF TypeOK
  <1>2. \A u \in Threads \ {t} : frames'[u] = frames[u]
    BY DEF TypeOK
  <1>3. frames'[t] \in Seq(Frame) /\ Len(frames'[t]) = Len(frames[t]) + 1
    BY <1>1
  <1>4. frames' \in [Threads -> Seq(Frame)]
    BY <1>1, <1>3 DEF TypeOK
  <1>5. /\ frames'[t] # <<>>
        /\ frames'[t][Len(frames'[t])] = f
        /\ \A i \in 1..Len(frames[t]) : frames'[t][i] = frames[t][i]
    BY <1>1, <1>3
  <1> QED BY <1>2, <1>3, <1>4, <1>5

\* A call that returns is popped from the stack of its thread.
LEMMA PopFacts ==
    ASSUME TypeOK, NEW t \in Threads, InCall(t),
           frames' = [frames EXCEPT ![t] = SubSeq(frames[t], 1, Len(frames[t]) - 1)]
    PROVE  /\ frames' \in [Threads -> Seq(Frame)]
           /\ \A u \in Threads \ {t} : frames'[u] = frames[u]
           /\ Len(frames'[t]) = Len(frames[t]) - 1
           /\ frames'[t] = <<>> <=> Len(frames[t]) = 1
           /\ \A i \in 1..(Len(frames[t]) - 1) : frames'[t][i] = frames[t][i]
  <1>1. /\ Len(frames[t]) \in Nat \ {0}
        /\ frames[t] \in Seq(Frame)
    BY TopIsFrame
  <1>2. frames'[t] = SubSeq(frames[t], 1, Len(frames[t]) - 1)
    BY DEF TypeOK
  <1>3. \A u \in Threads \ {t} : frames'[u] = frames[u]
    BY DEF TypeOK
  <1>4. /\ frames'[t] \in Seq(Frame)
        /\ Len(frames'[t]) = Len(frames[t]) - 1
        /\ \A i \in 1..(Len(frames[t]) - 1) : frames'[t][i] = frames[t][i]
    BY <1>1, <1>2
  <1>5. frames' \in [Threads -> Seq(Frame)]
    BY <1>2, <1>4 DEF TypeOK
  <1> DEFINE n == Len(frames[t])
             m == Len(frames'[t])
  <1>6. n \in Nat /\ m = n - 1
    BY <1>1, <1>4
  <1>7. (frames'[t] = <<>>) => m = 0
    BY EmptySeq, Zenon
  <1>8. m = 0 => frames'[t] = <<>>
    BY <1>4, EmptySeq
  <1> HIDE DEF n, m
  <1>9. m = 0 <=> n = 1
    BY <1>6
  <1>10. frames'[t] = <<>> <=> n = 1
    BY <1>7, <1>8, <1>9, Zenon
  <1> QED BY <1>3, <1>4, <1>5, <1>10 DEF n, m

-----------------------------------------------------------------------------
\* Only the thread that holds the lock has calls in progress.
LEMMA OneCaller ==
    ASSUME LockMatchesCalls, NEW t \in Threads, InCall(t)
    PROVE  /\ owner = t
           /\ \A u \in Threads \ {t} : ~InCall(u)
  BY DEF LockMatchesCalls

\* A step of a call that keeps the lock keeps the invariant of the lock.
LEMMA ReplacePreserves ==
    ASSUME LockInv, NEW t \in Threads, InCall(t), NEW f \in Frame,
           frames' = ReplaceTop(t, f),
           UNCHANGED <<owner, depth>>,
           f.phase = "whole" => tmp' = [revision |-> f.start + 1, content |-> f.data],
           FilesTyped'
    PROVE  LockInv'
  <1>1. /\ frames' \in [Threads -> Seq(Frame)]
        /\ \A u \in Threads \ {t} : frames'[u] = frames[u]
        /\ frames'[t] # <<>>
        /\ Len(frames'[t]) = Len(frames[t])
        /\ frames'[t][Len(frames'[t])] = f
        /\ \A i \in 1..Len(frames[t]) :
             i < Len(frames[t]) => frames'[t][i] = frames[t][i]
    BY ReplaceTopFacts DEF LockInv
  <1>2. owner = t /\ \A u \in Threads \ {t} : frames[u] = <<>>
    BY OneCaller DEF LockInv, InCall
  <1>3. LockMatchesCalls'
    BY <1>1, <1>2, ValuesAssumption DEF LockInv, LockMatchesCalls, InCall
  <1>4. SuspendedBodies'
    BY <1>1 DEF LockInv, SuspendedBodies
  <1>5. TemporaryIsMine'
    BY <1>1, <1>2 DEF TemporaryIsMine, InPhase, InCall, Top
  <1>6. TypeOK'
    BY <1>1 DEF LockInv, TypeOK, FilesTyped
  <1> QED BY <1>3, <1>4, <1>5, <1>6 DEF LockInv

\* A step that enters a call keeps the invariant of the lock.
LEMMA PushPreserves ==
    ASSUME LockInv, NEW t \in Threads, CanCall(t), NEW f \in Frame,
           f.phase = "locked",
           frames' = [frames EXCEPT ![t] = Append(frames[t], f)],
           owner' = t, depth' = depth + 1,
           FilesTyped'
    PROVE  LockInv'
  <1>1. /\ frames' \in [Threads -> Seq(Frame)]
        /\ \A u \in Threads \ {t} : frames'[u] = frames[u]
        /\ frames'[t] # <<>>
        /\ Len(frames'[t]) = Len(frames[t]) + 1
        /\ frames'[t][Len(frames'[t])] = f
        /\ \A i \in 1..Len(frames[t]) : frames'[t][i] = frames[t][i]
    BY PushFacts DEF LockInv
  <1>2. \A u \in Threads \ {t} : frames[u] = <<>>
    BY ValuesAssumption
       DEF LockInv, LockMatchesCalls, InCall, CanCall, LockAvailable
  <1>3. depth = Len(frames[t])
    <2>1. CASE owner = None
      <3>1. frames[t] = <<>>
        BY <2>1, ValuesAssumption DEF LockInv, LockMatchesCalls, InCall
      <3> QED BY <2>1, <3>1, EmptySeq DEF LockInv, LockMatchesCalls
    <2>2. CASE owner = t
      BY <2>2, ValuesAssumption DEF LockInv, LockMatchesCalls
    <2> QED BY <2>1, <2>2 DEF CanCall, LockAvailable
  <1>4. LockMatchesCalls'
    BY <1>1, <1>2, <1>3, ValuesAssumption DEF LockInv, LockMatchesCalls, InCall
  <1>5. SuspendedBodies'
    <2> SUFFICES ASSUME NEW u \in Threads, NEW i \in 1..Len(frames'[u]),
                        i < Len(frames'[u])
                 PROVE  frames'[u][i].phase \in {"open", "done", "gone"}
      BY DEF SuspendedBodies
    <2>1. frames[u] \in Seq(Frame) /\ Len(frames[u]) \in Nat
      BY DEF LockInv, TypeOK
    <2>2. CASE u # t
      BY <1>1, <2>1, <2>2 DEF LockInv, SuspendedBodies
    <2>3. CASE u = t
      <3>1. i \in 1..Len(frames[t]) /\ frames'[t][i] = frames[t][i]
        BY <1>1, <2>1, <2>3
      <3>2. CASE i < Len(frames[t])
        BY <2>3, <3>1, <3>2 DEF LockInv, SuspendedBodies
      <3>3. CASE i = Len(frames[t])
        <4>1. InCall(t)
          BY <3>1, <2>1, <2>3, EmptySeq DEF InCall
        <4> QED BY <2>3, <3>1, <3>3, <4>1 DEF CanCall, CallerRuns, Top
      <3> QED BY <2>1, <2>3, <3>1, <3>2, <3>3
    <2> QED BY <2>2, <2>3
  <1>6. TemporaryIsMine'
    BY <1>1, <1>2 DEF TemporaryIsMine, InPhase, InCall, Top
  <1>7. TypeOK'
    BY <1>1 DEF LockInv, TypeOK, FilesTyped
  <1> QED BY <1>4, <1>5, <1>6, <1>7 DEF LockInv

\* A call that gives its level of the lock back keeps the invariant.
LEMMA ReturnPreserves ==
    ASSUME LockInv, NEW t \in Threads, InCall(t), Return(t), FilesTyped'
    PROVE  LockInv'
  <1>1. /\ frames' \in [Threads -> Seq(Frame)]
        /\ \A u \in Threads \ {t} : frames'[u] = frames[u]
        /\ Len(frames'[t]) = Len(frames[t]) - 1
        /\ frames'[t] = <<>> <=> Len(frames[t]) = 1
        /\ \A i \in 1..(Len(frames[t]) - 1) : frames'[t][i] = frames[t][i]
    BY PopFacts DEF LockInv, Return
  <1>2. owner = t /\ \A u \in Threads \ {t} : frames[u] = <<>>
    BY OneCaller DEF LockInv, InCall
  <1>3. Len(frames[t]) \in Nat \ {0} /\ depth = Len(frames[t])
    BY <1>2, TopIsFrame, ValuesAssumption DEF LockInv, LockMatchesCalls
  <1>4. /\ depth' = depth - 1
        /\ owner' = IF depth = 1 THEN None ELSE t
    BY <1>2 DEF Return
  <1>5. depth' \in Nat /\ owner' \in Threads \cup {None}
    BY <1>3, <1>4
  <1>6. LockMatchesCalls'
    <2>1. CASE depth = 1
      <3>1. frames'[t] = <<>> /\ owner' = None /\ depth' = 0
        BY <1>1, <1>3, <1>4, <2>1
      <3> QED BY <1>1, <1>2, <3>1, ValuesAssumption DEF LockMatchesCalls, InCall
    <2>2. CASE depth # 1
      <3>1. /\ frames'[t] # <<>> /\ owner' = t
            /\ depth' = Len(frames'[t])
        BY <1>1, <1>3, <1>4, <2>2
      <3> QED BY <1>1, <1>2, <3>1, ValuesAssumption DEF LockMatchesCalls, InCall
    <2> QED BY <2>1, <2>2
  <1>7. SuspendedBodies'
    <2> SUFFICES ASSUME NEW u \in Threads, NEW i \in 1..Len(frames'[u]),
                        i < Len(frames'[u])
                 PROVE  frames'[u][i].phase \in {"open", "done", "gone"}
      BY DEF SuspendedBodies
    <2>1. CASE u # t
      BY <1>1, <2>1 DEF LockInv, SuspendedBodies
    <2>2. CASE u = t
      <3>1. i \in 1..Len(frames[t]) /\ i < Len(frames[t])
        BY <1>1, <1>3, <2>2
      <3>2. i \in 1..(Len(frames[t]) - 1)
        BY <1>3, <3>1
      <3> QED BY <1>1, <2>2, <3>1, <3>2 DEF LockInv, SuspendedBodies
    <2> QED BY <2>1, <2>2
  <1>8. TemporaryIsMine'
    <2> SUFFICES ASSUME NEW u \in Threads, InPhase(u, "whole")'
                 PROVE  FALSE
      BY DEF TemporaryIsMine
    <2>1. u = t
      BY <1>1, <1>2 DEF InPhase, InCall
    <2> DEFINE n == Len(frames[t]) - 1
    <2>2. n \in 1..Len(frames[t]) /\ n < Len(frames[t])
      BY <1>1, <1>3, <2>1 DEF InPhase, InCall
    <2>3. frames'[t][n] = frames[t][n] /\ Len(frames'[t]) = n
      BY <1>1, <1>3, <2>2, SMTT(30)
    <2>4. frames[t][n].phase \in {"open", "done", "gone"}
      BY <2>2 DEF LockInv, SuspendedBodies
    <2> QED BY <2>1, <2>3, <2>4 DEF InPhase, Top
  <1>9. TypeOK'
    BY <1>1, <1>5 DEF TypeOK, FilesTyped
  <1> QED BY <1>6, <1>7, <1>8, <1>9 DEF LockInv

\* Steps that leave the stacks and the temporary file alone.
LEMMA IdlePreserves ==
    ASSUME LockInv, UNCHANGED <<owner, depth, frames, tmp>>, FilesTyped'
    PROVE  LockInv'
  BY DEF LockInv, TypeOK, FilesTyped, LockMatchesCalls, SuspendedBodies,
         TemporaryIsMine, InPhase, InCall, Top

-----------------------------------------------------------------------------
\* A store without calls satisfies the invariant.
LEMMA InitLockInv == Init => LockInv
  <1> SUFFICES ASSUME Init PROVE LockInv
    OBVIOUS
  <1>1. EmptyContent \in Content
    BY BoundsAssumption DEF EmptyContent, Content
  <1>2. \A t \in Threads : frames[t] = <<>>
    BY DEF Init
  <1>3. TypeOK
    <2>1. frames \in [Threads -> Seq(Frame)]
      BY EmptySeq DEF Init
    <2> QED BY <1>1, <2>1 DEF Init, TypeOK, Document
  <1>4. LockMatchesCalls
    BY <1>2, ValuesAssumption DEF Init, LockMatchesCalls, InCall
  <1>5. SuspendedBodies
    BY <1>2, EmptySeq DEF SuspendedBodies
  <1>6. TemporaryIsMine
    BY <1>2 DEF TemporaryIsMine, InPhase, InCall
  <1> QED BY <1>3, <1>4, <1>5, <1>6 DEF LockInv

\* What a step inside a call does: it returns, or it replaces the top frame.
Busy(f) == f.phase \in {"open", "torn", "whole"}

ReturnShape(t) ==
    Return(t) /\ FilesTyped' /\ (UNCHANGED disk \/ ReplaceDocument(t))

FreshFrame(f, document) ==
    /\ f.kind = "write" => f.expected = None
    /\ Busy(f) =>
        /\ f.start = document.revision
        /\ f.expected \in {None, document.revision}
        /\ \A c \in Names \ f.touched :
             f.data.colls[c] = document.content.colls[c]

ReplaceShape(t, f) ==
    /\ frames' = ReplaceTop(t, f) /\ UNCHANGED <<owner, depth>> /\ FilesTyped'
    /\ f.phase = "whole" => tmp' = [revision |-> f.start + 1, content |-> f.data]
    /\ FreshFrame(Top(t), disk) => FreshFrame(f, disk')
    /\ \/ UNCHANGED disk /\ (Busy(Top(t)) => f.start = Top(t).start)
                          /\ (Busy(f) /\ ~Busy(Top(t)) => f.start = disk.revision)
       \/ ReplaceDocument(t)

\* Every step inside a call is of one of the two shapes.
LEMMA CallShape ==
    ASSUME LockInv, NEW t \in Threads,
           StoreStep(t) \/ BodyStep(t) \/ BodyEnds(t)
    PROVE  /\ InCall(t)
           /\ ReturnShape(t) \/ \E f \in Frame : ReplaceShape(t, f)
  <1> DEFINE Goal == /\ InCall(t)
                     /\ ReturnShape(t) \/ \E f \in Frame : ReplaceShape(t, f)
  <1>1. ASSUME EntryRaises(t) PROVE Goal
    <2>1. InCall(t) /\ Return(t) /\ UNCHANGED disk
      BY <1>1 DEF EntryRaises, InPhase
    <2>2. FilesTyped'
      BY <1>1, <2>1 DEF LockInv, TypeOK, FilesTyped, EntryRaises, InPhase
    <2> QED BY <2>1, <2>2 DEF ReturnShape
  <1>2. ASSUME OpenBody(t) PROVE Goal
    <2> DEFINE f == [Top(t) EXCEPT !.phase = "open",
                        !.start = disk.revision, !.data = disk.content]
    <2>1. InCall(t) /\ Top(t) \in Frame
      BY <1>2, TopIsFrame DEF LockInv, OpenBody, InPhase
    <2>2. f \in Frame
      BY <1>2, <2>1 DEF Frame, Content, Document, LockInv, TypeOK, OpenBody, InPhase
    <2>3. /\ frames' = ReplaceTop(t, f) /\ UNCHANGED <<owner, depth>>
          /\ f.phase = "whole" => tmp' = [revision |-> f.start + 1, content |-> f.data]
      BY <1>2, <2>1 DEF Frame, OpenBody, InPhase
    <2>4. /\ UNCHANGED disk /\ (Busy(Top(t)) => f.start = Top(t).start)
          /\ Busy(f) /\ ~Busy(Top(t)) => f.start = disk.revision
      BY <1>2, <2>1 DEF Busy, Frame, OpenBody, InPhase
    <2>5. FilesTyped'
      BY <1>2, <2>1 DEF LockInv, TypeOK, FilesTyped, Document, Frame, OpenBody, InPhase
    <2>6. FreshFrame(Top(t), disk) => FreshFrame(f, disk')
      BY <1>2, <2>1
         DEF RevisionExpected, FreshFrame, Busy, Frame, Content, Document, LockInv, TypeOK,
                            OpenBody, InPhase
    <2> HIDE DEF f
    <2> QED BY <2>1, <2>2, <2>3, <2>4, <2>5, <2>6 DEF ReplaceShape
  <1>3. ASSUME NEW c \in Names, NEW r \in Rows, PrepareWrite(t, c, r) PROVE Goal
    <2> DEFINE f == [Top(t) EXCEPT !.phase = "torn", !.start = disk.revision,
                        !.data = [disk.content EXCEPT !.colls[c] = r],
                        !.touched = {c}]
    <2>1. InCall(t) /\ Top(t) \in Frame
      BY <1>3, TopIsFrame DEF LockInv, PrepareWrite, InPhase
    <2>2. f \in Frame
      BY <1>3, <2>1 DEF Frame, Content, Document, LockInv, TypeOK, PrepareWrite, InPhase
    <2>3. /\ frames' = ReplaceTop(t, f) /\ UNCHANGED <<owner, depth>>
          /\ f.phase = "whole" => tmp' = [revision |-> f.start + 1, content |-> f.data]
      BY <1>3, <2>1 DEF Frame, PrepareWrite, InPhase
    <2>4. /\ UNCHANGED disk /\ (Busy(Top(t)) => f.start = Top(t).start)
          /\ Busy(f) /\ ~Busy(Top(t)) => f.start = disk.revision
      BY <1>3, <2>1 DEF Busy, Frame, PrepareWrite, InPhase
    <2>5. FilesTyped'
      BY <1>3, <2>1
         DEF LockInv, TypeOK, FilesTyped, Document, Frame, PrepareWrite, InPhase
    <2>6. FreshFrame(Top(t), disk) => FreshFrame(f, disk')
      BY <1>3, <2>1 DEF FreshFrame, Busy, Frame, Content, Document, LockInv, TypeOK,
                            PrepareWrite, InPhase
    <2> HIDE DEF f
    <2> QED BY <2>1, <2>2, <2>3, <2>4, <2>5, <2>6 DEF ReplaceShape
  <1>4. ASSUME PrepareReplace(t) PROVE Goal
    <2> DEFINE f == [Top(t) EXCEPT !.phase = "torn", !.start = disk.revision,
                        !.data = snap[t].content, !.touched = Names]
    <2>1. InCall(t) /\ Top(t) \in Frame
      BY <1>4, TopIsFrame DEF LockInv, PrepareReplace, InPhase
    <2>2. f \in Frame
      BY <1>4, <2>1
         DEF Frame, Content, Document, LockInv, TypeOK, PrepareReplace, InPhase
    <2>3. /\ frames' = ReplaceTop(t, f) /\ UNCHANGED <<owner, depth>>
          /\ f.phase = "whole" => tmp' = [revision |-> f.start + 1, content |-> f.data]
      BY <1>4, <2>1 DEF Frame, PrepareReplace, InPhase
    <2>4. /\ UNCHANGED disk /\ (Busy(Top(t)) => f.start = Top(t).start)
          /\ Busy(f) /\ ~Busy(Top(t)) => f.start = disk.revision
      BY <1>4, <2>1 DEF Busy, Frame, PrepareReplace, InPhase
    <2>5. FilesTyped'
      BY <1>4, <2>1
         DEF LockInv, TypeOK, FilesTyped, Document, Frame, PrepareReplace, InPhase
    <2>6. FreshFrame(Top(t), disk) => FreshFrame(f, disk')
      BY <1>4, <2>1
         DEF RevisionExpected, FreshFrame, Busy, Frame, Content, Document, LockInv, TypeOK,
                            PrepareReplace, InPhase
    <2> HIDE DEF f
    <2> QED BY <2>1, <2>2, <2>3, <2>4, <2>5, <2>6 DEF ReplaceShape
  <1>5. ASSUME FinishTemporary(t) PROVE Goal
    <2> DEFINE f == [Top(t) EXCEPT !.phase = "whole"]
    <2>1. InCall(t) /\ Top(t) \in Frame
      BY <1>5, TopIsFrame DEF LockInv, FinishTemporary, InPhase
    <2>2. f \in Frame
      BY <1>5, <2>1
         DEF Frame, Content, Document, LockInv, TypeOK, FinishTemporary, InPhase
    <2>3. /\ frames' = ReplaceTop(t, f) /\ UNCHANGED <<owner, depth>>
          /\ f.phase = "whole" => tmp' = [revision |-> f.start + 1, content |-> f.data]
      BY <1>5, <2>1 DEF Frame, FinishTemporary, InPhase
    <2>4. /\ UNCHANGED disk /\ (Busy(Top(t)) => f.start = Top(t).start)
          /\ Busy(f) /\ ~Busy(Top(t)) => f.start = disk.revision
      BY <1>5, <2>1 DEF Busy, Frame, FinishTemporary, InPhase
    <2>5. FilesTyped'
      BY <1>5, <2>1
         DEF LockInv, TypeOK, FilesTyped, Document, Frame, FinishTemporary, InPhase
    <2>6. FreshFrame(Top(t), disk) => FreshFrame(f, disk')
      BY <1>5, <2>1 DEF FreshFrame, Busy, Frame, Content, Document, LockInv, TypeOK,
                            FinishTemporary, InPhase
    <2> HIDE DEF f
    <2> QED BY <2>1, <2>2, <2>3, <2>4, <2>5, <2>6 DEF ReplaceShape
  <1>6. ASSUME ReplaceDocument(t), Ends(t) PROVE Goal
    <2>1. InCall(t) /\ Return(t)
      BY <1>6 DEF ReplaceDocument, InPhase
    <2>2. Top(t) \in Frame
      BY <2>1, TopIsFrame DEF LockInv
    <2>3. tmp \in Document
      BY <1>6, <2>2 DEF LockInv, TemporaryIsMine, ReplaceDocument, Document, Frame
    <2>4. FilesTyped'
      BY <1>6, <2>3 DEF LockInv, TypeOK, FilesTyped, ReplaceDocument
    <2> QED BY <1>6, <2>1, <2>4 DEF ReturnShape
  <1>7. ASSUME ReplaceDocument(t), ~Ends(t) PROVE Goal
    <2> DEFINE f == [Top(t) EXCEPT !.phase = "done"]
    <2>1. InCall(t) /\ Top(t) \in Frame
      BY <1>7, TopIsFrame DEF LockInv, ReplaceDocument, InPhase
    <2>2. f \in Frame
      BY <1>7, <2>1
         DEF Frame, Content, Document, LockInv, TypeOK, ReplaceDocument, InPhase
    <2>3. /\ frames' = ReplaceTop(t, f) /\ UNCHANGED <<owner, depth>>
          /\ f.phase = "whole" => tmp' = [revision |-> f.start + 1, content |-> f.data]
      BY <1>7, <2>1 DEF Frame, ReplaceDocument, InPhase
    <2>4. ReplaceDocument(t)
      BY <1>7
    <2>5. FilesTyped'
      BY <1>7, <2>1
         DEF LockInv, TypeOK, FilesTyped, Document, Frame, ReplaceDocument, InPhase, TemporaryIsMine
    <2>6. FreshFrame(Top(t), disk) => FreshFrame(f, disk')
      BY <1>7, <2>1 DEF FreshFrame, Busy, Frame, Content, Document, LockInv, TypeOK,
                            ReplaceDocument, InPhase
    <2> HIDE DEF f
    <2> QED BY <2>1, <2>2, <2>3, <2>4, <2>5, <2>6 DEF ReplaceShape
  <1>8. ASSUME WriteFails(t), Ends(t) PROVE Goal
    <2>1. InCall(t) /\ Return(t) /\ UNCHANGED disk
      BY <1>8 DEF WriteFails, InPhase
    <2>2. FilesTyped'
      BY <1>8, <2>1 DEF LockInv, TypeOK, FilesTyped, WriteFails, InPhase
    <2> QED BY <2>1, <2>2 DEF ReturnShape
  <1>9. ASSUME WriteFails(t), ~Ends(t) PROVE Goal
    <2> DEFINE f == [Top(t) EXCEPT !.phase = "open"]
    <2>1. InCall(t) /\ Top(t) \in Frame
      BY <1>9, TopIsFrame DEF LockInv, WriteFails, InPhase
    <2>2. f \in Frame
      BY <1>9, <2>1 DEF Frame, Content, Document, LockInv, TypeOK, WriteFails, InPhase
    <2>3. /\ frames' = ReplaceTop(t, f) /\ UNCHANGED <<owner, depth>>
          /\ f.phase = "whole" => tmp' = [revision |-> f.start + 1, content |-> f.data]
      BY <1>9, <2>1 DEF Frame, WriteFails, InPhase
    <2>4. /\ UNCHANGED disk /\ (Busy(Top(t)) => f.start = Top(t).start)
          /\ Busy(f) /\ ~Busy(Top(t)) => f.start = disk.revision
      BY <1>9, <2>1 DEF Busy, Frame, WriteFails, InPhase
    <2>5. FilesTyped'
      BY <1>9, <2>1
         DEF LockInv, TypeOK, FilesTyped, Document, Frame, WriteFails, InPhase
    <2>6. FreshFrame(Top(t), disk) => FreshFrame(f, disk')
      BY <1>9, <2>1 DEF FreshFrame, Busy, Frame, Content, Document, LockInv, TypeOK,
                            WriteFails, InPhase
    <2> HIDE DEF f
    <2> QED BY <2>1, <2>2, <2>3, <2>4, <2>5, <2>6 DEF ReplaceShape
  <1>10. ASSUME NEW c \in Names, NEW r \in Rows, TxWrite(t, c, r) PROVE Goal
    <2> DEFINE f == [Top(t) EXCEPT !.data.colls[c] = r,
                        !.touched = Top(t).touched \cup {c}]
    <2>1. InCall(t) /\ Top(t) \in Frame
      BY <1>10, TopIsFrame DEF LockInv, TxWrite, Active
    <2>2. f \in Frame
      BY <1>10, <2>1 DEF Frame, Content, Document, LockInv, TypeOK, TxWrite, Active
    <2>3. /\ frames' = ReplaceTop(t, f) /\ UNCHANGED <<owner, depth>>
          /\ f.phase = "whole" => tmp' = [revision |-> f.start + 1, content |-> f.data]
      BY <1>10, <2>1 DEF Frame, TxWrite, Active
    <2>4. /\ UNCHANGED disk /\ (Busy(Top(t)) => f.start = Top(t).start)
          /\ Busy(f) /\ ~Busy(Top(t)) => f.start = disk.revision
      BY <1>10, <2>1 DEF Busy, Frame, TxWrite, Active
    <2>5. FilesTyped'
      BY <1>10, <2>1 DEF LockInv, TypeOK, FilesTyped, Document, Frame, TxWrite, Active
    <2>6. FreshFrame(Top(t), disk) => FreshFrame(f, disk')
      BY <1>10, <2>1 DEF FreshFrame, Busy, Frame, Content, Document, LockInv, TypeOK,
                            TxWrite, Active
    <2> HIDE DEF f
    <2> QED BY <2>1, <2>2, <2>3, <2>4, <2>5, <2>6 DEF ReplaceShape
  <1>11. ASSUME NEW c \in Names, NEW d \in Names, TxRename(t, c, d) PROVE Goal
    <2> DEFINE f == [Top(t) EXCEPT !.data.colls[d] = Top(t).data.colls[c],
                        !.data.colls[c] = Absent,
                        !.touched = Top(t).touched \cup {c, d}]
    <2>1. InCall(t) /\ Top(t) \in Frame
      BY <1>11, TopIsFrame DEF LockInv, TxRename, Active
    <2>2. f \in Frame
      BY <1>11, <2>1 DEF Frame, Content, Document, LockInv, TypeOK, TxRename, Active
    <2>3. /\ frames' = ReplaceTop(t, f) /\ UNCHANGED <<owner, depth>>
          /\ f.phase = "whole" => tmp' = [revision |-> f.start + 1, content |-> f.data]
      BY <1>11, <2>1 DEF Frame, TxRename, Active
    <2>4. /\ UNCHANGED disk /\ (Busy(Top(t)) => f.start = Top(t).start)
          /\ Busy(f) /\ ~Busy(Top(t)) => f.start = disk.revision
      BY <1>11, <2>1 DEF Busy, Frame, TxRename, Active
    <2>5. FilesTyped'
      BY <1>11, <2>1 DEF LockInv, TypeOK, FilesTyped, Document, Frame, TxRename, Active
    <2>6. FreshFrame(Top(t), disk) => FreshFrame(f, disk')
      BY <1>11, <2>1 DEF FreshFrame, Busy, Frame, Content, Document, LockInv, TypeOK,
                            TxRename, Active
    <2> HIDE DEF f
    <2> QED BY <2>1, <2>2, <2>3, <2>4, <2>5, <2>6 DEF ReplaceShape
  <1>12. ASSUME NEW v \in 1..MaxSchema, TxSetSchema(t, v) PROVE Goal
    <2> DEFINE f == [Top(t) EXCEPT !.data.schema = v]
    <2>1. InCall(t) /\ Top(t) \in Frame
      BY <1>12, TopIsFrame DEF LockInv, TxSetSchema, Active
    <2>2. f \in Frame
      BY <1>12, <2>1 DEF Frame, Content, Document, LockInv, TypeOK, TxSetSchema, Active
    <2>3. /\ frames' = ReplaceTop(t, f) /\ UNCHANGED <<owner, depth>>
          /\ f.phase = "whole" => tmp' = [revision |-> f.start + 1, content |-> f.data]
      BY <1>12, <2>1 DEF Frame, TxSetSchema, Active
    <2>4. /\ UNCHANGED disk /\ (Busy(Top(t)) => f.start = Top(t).start)
          /\ Busy(f) /\ ~Busy(Top(t)) => f.start = disk.revision
      BY <1>12, <2>1 DEF Busy, Frame, TxSetSchema, Active
    <2>5. FilesTyped'
      BY <1>12, <2>1
         DEF LockInv, TypeOK, FilesTyped, Document, Frame, TxSetSchema, Active
    <2>6. FreshFrame(Top(t), disk) => FreshFrame(f, disk')
      BY <1>12, <2>1 DEF FreshFrame, Busy, Frame, Content, Document, LockInv, TypeOK,
                            TxSetSchema, Active
    <2> HIDE DEF f
    <2> QED BY <2>1, <2>2, <2>3, <2>4, <2>5, <2>6 DEF ReplaceShape
  <1>13. ASSUME TxRollback(t) PROVE Goal
    <2> DEFINE f == [Top(t) EXCEPT !.phase = "gone"]
    <2>1. InCall(t) /\ Top(t) \in Frame
      BY <1>13, TopIsFrame DEF LockInv, TxRollback, Active
    <2>2. f \in Frame
      BY <1>13, <2>1 DEF Frame, Content, Document, LockInv, TypeOK, TxRollback, Active
    <2>3. /\ frames' = ReplaceTop(t, f) /\ UNCHANGED <<owner, depth>>
          /\ f.phase = "whole" => tmp' = [revision |-> f.start + 1, content |-> f.data]
      BY <1>13, <2>1 DEF Frame, TxRollback, Active
    <2>4. /\ UNCHANGED disk /\ (Busy(Top(t)) => f.start = Top(t).start)
          /\ Busy(f) /\ ~Busy(Top(t)) => f.start = disk.revision
      BY <1>13, <2>1 DEF Busy, Frame, TxRollback, Active
    <2>5. FilesTyped'
      BY <1>13, <2>1
         DEF LockInv, TypeOK, FilesTyped, Document, Frame, TxRollback, Active
    <2>6. FreshFrame(Top(t), disk) => FreshFrame(f, disk')
      BY <1>13, <2>1 DEF FreshFrame, Busy, Frame, Content, Document, LockInv, TypeOK,
                            TxRollback, Active
    <2> HIDE DEF f
    <2> QED BY <2>1, <2>2, <2>3, <2>4, <2>5, <2>6 DEF ReplaceShape
  <1>14. ASSUME TxCommit(t) PROVE Goal
    <2> DEFINE f == [Top(t) EXCEPT !.phase = "torn"]
    <2>1. InCall(t) /\ Top(t) \in Frame
      BY <1>14, TopIsFrame DEF LockInv, TxCommit, InPhase
    <2>2. f \in Frame
      BY <1>14, <2>1 DEF Frame, Content, Document, LockInv, TypeOK, TxCommit, InPhase
    <2>3. /\ frames' = ReplaceTop(t, f) /\ UNCHANGED <<owner, depth>>
          /\ f.phase = "whole" => tmp' = [revision |-> f.start + 1, content |-> f.data]
      BY <1>14, <2>1 DEF Frame, TxCommit, InPhase
    <2>4. /\ UNCHANGED disk /\ (Busy(Top(t)) => f.start = Top(t).start)
          /\ Busy(f) /\ ~Busy(Top(t)) => f.start = disk.revision
      BY <1>14, <2>1 DEF Busy, Frame, TxCommit, InPhase
    <2>5. FilesTyped'
      BY <1>14, <2>1 DEF LockInv, TypeOK, FilesTyped, Document, Frame, TxCommit, InPhase
    <2>6. FreshFrame(Top(t), disk) => FreshFrame(f, disk')
      BY <1>14, <2>1 DEF FreshFrame, Busy, Frame, Content, Document, LockInv, TypeOK,
                            TxCommit, InPhase
    <2> HIDE DEF f
    <2> QED BY <2>1, <2>2, <2>3, <2>4, <2>5, <2>6 DEF ReplaceShape
  <1>15. ASSUME TxLeave(t) PROVE Goal
    <2>1. InCall(t) /\ Return(t) /\ UNCHANGED disk
      BY <1>15 DEF TxLeave
    <2>2. FilesTyped'
      BY <1>15, <2>1 DEF LockInv, TypeOK, FilesTyped, TxLeave
    <2> QED BY <2>1, <2>2 DEF ReturnShape
  <1>16. ASSUME TxExitCommit(t) PROVE Goal
    <2> DEFINE f == [Top(t) EXCEPT !.phase = "torn", !.exiting = TRUE]
    <2>1. InCall(t) /\ Top(t) \in Frame
      BY <1>16, TopIsFrame DEF LockInv, TxExitCommit, InPhase
    <2>2. f \in Frame
      BY <1>16, <2>1
         DEF Frame, Content, Document, LockInv, TypeOK, TxExitCommit, InPhase
    <2>3. /\ frames' = ReplaceTop(t, f) /\ UNCHANGED <<owner, depth>>
          /\ f.phase = "whole" => tmp' = [revision |-> f.start + 1, content |-> f.data]
      BY <1>16, <2>1 DEF Frame, TxExitCommit, InPhase
    <2>4. /\ UNCHANGED disk /\ (Busy(Top(t)) => f.start = Top(t).start)
          /\ Busy(f) /\ ~Busy(Top(t)) => f.start = disk.revision
      BY <1>16, <2>1 DEF Busy, Frame, TxExitCommit, InPhase
    <2>5. FilesTyped'
      BY <1>16, <2>1
         DEF LockInv, TypeOK, FilesTyped, Document, Frame, TxExitCommit, InPhase
    <2>6. FreshFrame(Top(t), disk) => FreshFrame(f, disk')
      BY <1>16, <2>1 DEF FreshFrame, Busy, Frame, Content, Document, LockInv, TypeOK,
                            TxExitCommit, InPhase
    <2> HIDE DEF f
    <2> QED BY <2>1, <2>2, <2>3, <2>4, <2>5, <2>6 DEF ReplaceShape
  <1>17. ASSUME NEW c \in Names, NEW r \in Rows, MutatorReturns(t, c, r) PROVE Goal
    <2> DEFINE f == [Top(t) EXCEPT !.phase = "torn", !.data.colls[c] = r,
                        !.touched = Top(t).touched \cup {c}]
    <2>1. InCall(t) /\ Top(t) \in Frame
      BY <1>17, TopIsFrame DEF LockInv, MutatorReturns, InPhase
    <2>2. f \in Frame
      BY <1>17, <2>1
         DEF Frame, Content, Document, LockInv, TypeOK, MutatorReturns, InPhase
    <2>3. /\ frames' = ReplaceTop(t, f) /\ UNCHANGED <<owner, depth>>
          /\ f.phase = "whole" => tmp' = [revision |-> f.start + 1, content |-> f.data]
      BY <1>17, <2>1 DEF Frame, MutatorReturns, InPhase
    <2>4. /\ UNCHANGED disk /\ (Busy(Top(t)) => f.start = Top(t).start)
          /\ Busy(f) /\ ~Busy(Top(t)) => f.start = disk.revision
      BY <1>17, <2>1 DEF Busy, Frame, MutatorReturns, InPhase
    <2>5. FilesTyped'
      BY <1>17, <2>1
         DEF LockInv, TypeOK, FilesTyped, Document, Frame, MutatorReturns, InPhase
    <2>6. FreshFrame(Top(t), disk) => FreshFrame(f, disk')
      BY <1>17, <2>1 DEF FreshFrame, Busy, Frame, Content, Document, LockInv, TypeOK,
                            MutatorReturns, InPhase
    <2> HIDE DEF f
    <2> QED BY <2>1, <2>2, <2>3, <2>4, <2>5, <2>6 DEF ReplaceShape
  <1>18. ASSUME MutatorRaises(t) PROVE Goal
    <2>1. InCall(t) /\ Return(t) /\ UNCHANGED disk
      BY <1>18 DEF MutatorRaises, InPhase
    <2>2. FilesTyped'
      BY <1>18, <2>1 DEF LockInv, TypeOK, FilesTyped, MutatorRaises, InPhase
    <2> QED BY <2>1, <2>2 DEF ReturnShape
  <1> QED BY <1>1, <1>2, <1>3, <1>4, <1>5, <1>6, <1>7, <1>8, <1>9,
            <1>10, <1>11, <1>12, <1>13, <1>14, <1>15, <1>16, <1>17, <1>18
        DEF StoreStep, BodyStep, BodyEnds

\* Every step inside a call keeps the invariant of the lock.
LEMMA CallPreserves ==
    ASSUME LockInv, NEW t \in Threads,
           StoreStep(t) \/ BodyStep(t) \/ BodyEnds(t)
    PROVE  LockInv'
  <1>1. CASE ReturnShape(t)
    BY <1>1, CallShape, ReturnPreserves DEF ReturnShape
  <1>2. ASSUME NEW f \in Frame, ReplaceShape(t, f) PROVE LockInv'
    BY <1>2, CallShape, ReplacePreserves DEF ReplaceShape
  <1> QED BY <1>1, <1>2, CallShape

\* One step of the store, whatever thread takes it.
LEMMA NextLockInv == LockInv /\ [Next]_vars => LockInv'
  <1> SUFFICES ASSUME LockInv, [Next]_vars PROVE LockInv'
    OBVIOUS
  <1>1. ASSUME NEW t \in Threads, Enter(t) PROVE LockInv'
    <2>1. PICK kind \in {"write", "mutate", "replace", "tx"}, e \in Expectations(t) :
             Acquire(t, kind, e)
      BY <1>1 DEF Enter
    <2> DEFINE f == [kind |-> kind, expected |-> e, phase |-> "locked",
                     exiting |-> FALSE, start |-> 0, data |-> EmptyContent,
                     touched |-> {}]
    <2>2. e \in Nat \cup {None}
      BY DEF Expectations, LockInv, TypeOK, Document
    <2>3. f \in Frame /\ f.phase = "locked"
      BY <2>2, BoundsAssumption DEF Frame, EmptyContent, Content
    <2>4. FilesTyped'
      BY <2>1 DEF Acquire, LockInv, TypeOK, FilesTyped
    <2>5. /\ CanCall(t) /\ owner' = t /\ depth' = depth + 1
          /\ frames' = [frames EXCEPT ![t] = Append(frames[t], f)]
      BY <2>1 DEF Acquire
    <2> HIDE DEF f
    <2> QED BY <2>3, <2>4, <2>5, PushPreserves
  <1>2. ASSUME NEW t \in Threads, Observe(t) PROVE LockInv'
    <2>1. UNCHANGED <<owner, depth, frames, tmp>>
      BY <1>2 DEF Observe, Snapshot, BackupTo, ReadBackup
    <2>2. FilesTyped'
      BY <1>2 DEF Observe, Snapshot, BackupTo, ReadBackup, LockInv, TypeOK, FilesTyped
    <2> QED BY <2>1, <2>2, IdlePreserves
  <1>3. CASE Crash
    <2>1. TypeOK'
      BY <1>3, EmptySeq DEF Crash, LockInv, TypeOK
    <2>2. \A t \in Threads : frames'[t] = <<>>
      BY <1>3 DEF Crash
    <2>3. LockMatchesCalls'
      BY <1>3, <2>2, ValuesAssumption DEF Crash, LockMatchesCalls, InCall
    <2>4. SuspendedBodies'
      BY <2>2, EmptySeq DEF SuspendedBodies
    <2>5. TemporaryIsMine'
      BY <2>2 DEF TemporaryIsMine, InPhase, InCall
    <2> QED BY <2>1, <2>3, <2>4, <2>5 DEF LockInv
  <1>4. CASE UNCHANGED vars
    BY <1>4 DEF vars, LockInv, TypeOK, LockMatchesCalls, SuspendedBodies,
                TemporaryIsMine, InPhase, InCall, Top
  <1> QED BY <1>1, <1>2, <1>3, <1>4, CallPreserves DEF Next

-----------------------------------------------------------------------------
\* For any nesting of calls: the variables keep their types, every call
\* holds one level of the lock and gives it back on every path, and the file
\* that replaces the document is the whole file the call wrote (_write,
\* __enter__, __exit__).
THEOREM StoreInvariant == Spec => []LockInv
  <1>1. Init => LockInv
    BY InitLockInv
  <1>2. LockInv /\ [Next]_vars => LockInv'
    BY NextLockInv
  <1> QED BY <1>1, <1>2, PTL DEF Spec

\* The type invariant of JsonStore.
THEOREM TypeCorrect == Spec => []TypeOK
  <1>1. LockInv => TypeOK
    BY DEF LockInv
  <1> QED BY <1>1, StoreInvariant, PTL

\* The lock is held exactly by the calls in progress.
THEOREM LockCorrect == Spec => []LockMatchesCalls
  <1>1. LockInv => LockMatchesCalls
    BY DEF LockInv
  <1> QED BY <1>1, StoreInvariant, PTL

\* No call replaces the document with a file it did not write to its end.
THEOREM TemporaryCorrect == Spec => []TemporaryIsMine
  <1>1. LockInv => TemporaryIsMine
    BY DEF LockInv
  <1> QED BY <1>1, StoreInvariant, PTL

(***************************************************************************)
(* From here on callers do not nest calls (MaxDepth = 1).  Then the copy a *)
(* call works on stays the current document, but for what the call wrote.  *)
(***************************************************************************)
FlatInv ==
    /\ LockInv
    /\ \A t \in Threads : Len(frames[t]) \in {0, 1}
    /\ \A t \in Threads : InCall(t) => FreshFrame(Top(t), disk)

\* A step inside the only frame.
LEMMA ReplaceFlat ==
    ASSUME FlatInv, LockInv', NEW t \in Threads, InCall(t), NEW f \in Frame,
           frames' = ReplaceTop(t, f), FreshFrame(f, disk')
    PROVE  FlatInv'
  <1>1. /\ \A u \in Threads \ {t} : frames'[u] = frames[u]
        /\ frames'[t] # <<>>
        /\ Len(frames'[t]) = Len(frames[t])
        /\ frames'[t][Len(frames'[t])] = f
    BY ReplaceTopFacts DEF FlatInv, LockInv
  <1>2. \A u \in Threads \ {t} : frames[u] = <<>>
    BY OneCaller DEF FlatInv, LockInv, InCall
  <1>3. \A u \in Threads : Len(frames'[u]) \in {0, 1}
    BY <1>1 DEF FlatInv
  <1>4. \A u \in Threads : (InCall(u) => FreshFrame(Top(u), disk))'
    BY <1>1, <1>2 DEF InCall, Top
  <1> QED BY <1>3, <1>4 DEF FlatInv

\* A step that leaves the only frame.
LEMMA ReturnFlat ==
    ASSUME FlatInv, LockInv', NEW t \in Threads, InCall(t), Return(t)
    PROVE  FlatInv' /\ \A u \in Threads : frames'[u] = <<>>
  <1>1. /\ \A u \in Threads \ {t} : frames'[u] = frames[u]
        /\ frames'[t] = <<>> <=> Len(frames[t]) = 1
    BY PopFacts DEF FlatInv, LockInv, Return
  <1>2. \A u \in Threads \ {t} : frames[u] = <<>>
    BY OneCaller DEF FlatInv, LockInv, InCall
  <1> DEFINE n == Len(frames[t])
  <1>3. n \in Nat /\ n # 0 /\ n \in {0, 1}
    BY TopIsFrame DEF FlatInv, LockInv
  <1> HIDE DEF n
  <1>4. n = 1
    BY <1>3
  <1>5. Len(frames[t]) = 1
    BY <1>4 DEF n
  <1>6. \A u \in Threads : frames'[u] = <<>>
    BY <1>1, <1>2, <1>5
  <1>7. \A u \in Threads : Len(frames'[u]) \in {0, 1}
    BY <1>6, EmptySeq
  <1> QED BY <1>6, <1>7 DEF FlatInv, InCall

\* Every step inside a call keeps the copies fresh.
LEMMA CallFlat ==
    ASSUME FlatInv, LockInv', NEW t \in Threads,
           StoreStep(t) \/ BodyStep(t) \/ BodyEnds(t)
    PROVE  FlatInv'
  <1>1. /\ InCall(t) /\ FreshFrame(Top(t), disk)
        /\ ReturnShape(t) \/ \E f \in Frame : ReplaceShape(t, f)
    BY CallShape DEF FlatInv
  <1>2. CASE ReturnShape(t)
    BY <1>1, <1>2, ReturnFlat DEF ReturnShape
  <1>3. ASSUME NEW f \in Frame, ReplaceShape(t, f) PROVE FlatInv'
    BY <1>1, <1>3, ReplaceFlat DEF ReplaceShape
  <1> QED BY <1>1, <1>2, <1>3

\* A call that may start finds no call in progress.
LEMMA FirstCall ==
    ASSUME MaxDepth = 1, FlatInv, NEW t \in Threads, CanCall(t)
    PROVE  Len(frames[t]) = 0 /\ \A u \in Threads : frames[u] = <<>>
  <1> DEFINE n == Len(frames[t])
  <1>1. n \in Nat /\ n < 1
    BY DEF FlatInv, LockInv, TypeOK, CanCall
  <1> HIDE DEF n
  <1>2. n = 0
    BY <1>1
  <1>3. frames[t] = <<>>
    BY <1>2, EmptySeq DEF FlatInv, LockInv, TypeOK, n
  <1>4. \A u \in Threads \ {t} : frames[u] = <<>>
    BY ValuesAssumption
       DEF FlatInv, LockInv, LockMatchesCalls, CanCall, LockAvailable, InCall
  <1> QED BY <1>2, <1>3, <1>4 DEF n

\* Every step keeps the copies fresh when calls are not nested.
LEMMA NextFlatInv == MaxDepth = 1 /\ FlatInv /\ [Next]_vars => FlatInv'
  <1> SUFFICES ASSUME MaxDepth = 1, FlatInv, [Next]_vars PROVE FlatInv'
    OBVIOUS
  <1>0. LockInv'
    BY NextLockInv DEF FlatInv
  <1>1. ASSUME NEW t \in Threads, Enter(t) PROVE FlatInv'
    <2>1. PICK kind \in {"write", "mutate", "replace", "tx"}, e \in Expectations(t) :
             Acquire(t, kind, e)
      BY <1>1 DEF Enter
    <2> DEFINE f == [kind |-> kind, expected |-> e, phase |-> "locked",
                     exiting |-> FALSE, start |-> 0, data |-> EmptyContent,
                     touched |-> {}]
    <2>2. e \in Nat \cup {None}
      BY DEF Expectations, FlatInv, LockInv, TypeOK, Document
    <2>3. f \in Frame /\ f.phase = "locked" /\ (f.kind = "write" => f.expected = None)
      BY <2>1, <2>2, BoundsAssumption DEF Acquire, Frame, EmptyContent, Content
    <2>4. frames' = [frames EXCEPT ![t] = Append(frames[t], f)] /\ CanCall(t)
      BY <2>1 DEF Acquire
    <2> HIDE DEF f
    <2>5. /\ \A u \in Threads \ {t} : frames'[u] = frames[u]
          /\ Len(frames'[t]) = Len(frames[t]) + 1
          /\ frames'[t][Len(frames'[t])] = f
      BY <2>3, <2>4, PushFacts DEF FlatInv, LockInv
    <2>6. Len(frames[t]) = 0 /\ \A u \in Threads : frames[u] = <<>>
      BY <2>4, FirstCall
    <2>7. \A u \in Threads : Len(frames'[u]) \in {0, 1}
      <3>1. Len(frames'[t]) = 1
        BY <2>5, <2>6
      <3>2. \A u \in Threads \ {t} : Len(frames'[u]) = 0
        BY <2>5, <2>6, EmptySeq
      <3> SUFFICES ASSUME NEW u \in Threads PROVE Len(frames'[u]) \in {0, 1}
        OBVIOUS
      <3>3. CASE u = t
        BY <3>1, <3>3
      <3>4. CASE u # t
        BY <3>2, <3>4
      <3> QED BY <3>3, <3>4
    <2>8. \A u \in Threads : (InCall(u) => FreshFrame(Top(u), disk))'
      BY <2>3, <2>5, <2>6 DEF InCall, Top, FreshFrame, Busy
    <2> QED BY <1>0, <2>7, <2>8 DEF FlatInv
  <1>2. ASSUME NEW t \in Threads, Observe(t) PROVE FlatInv'
    BY <1>0, <1>2 DEF Observe, Snapshot, BackupTo, ReadBackup, FlatInv, InCall, Top
  <1>3. CASE Crash
    BY <1>0, <1>3, EmptySeq DEF Crash, FlatInv, InCall
  <1>4. CASE UNCHANGED vars
    BY <1>0, <1>4 DEF vars, FlatInv, InCall, Top
  <1> QED BY <1>0, <1>1, <1>2, <1>3, <1>4, CallFlat DEF Next

-----------------------------------------------------------------------------
\* When calls are not nested, every call past its revision check works on
\* a copy of the current document, but for the collections it wrote.
THEOREM FlatInvariant == ASSUME MaxDepth = 1 PROVE Spec => []FlatInv
  <1>1. Init => FlatInv
    BY InitLockInv, EmptySeq DEF FlatInv, Init, InCall
  <1>2. FlatInv /\ [Next]_vars => FlatInv'
    BY NextFlatInv
  <1> QED BY <1>1, <1>2, PTL DEF Spec

\* FlatInv contains the invariant that calls in progress are current.
THEOREM CurrentCorrect == ASSUME MaxDepth = 1 PROVE Spec => []OpenCallsAreCurrent
  <1>1. FlatInv => OpenCallsAreCurrent
    BY DEF FlatInv, FreshFrame, OpenCallsAreCurrent, Current, Busy
  <1> QED BY <1>1, FlatInvariant, PTL

\* The only step that changes the document.
LEMMA OnlyReplaceWrites ==
    ASSUME Next, disk' # disk
    PROVE  \E t \in Threads : ReplaceDocument(t)
  BY ZenonT(40) DEF Next, Enter, Acquire, StoreStep, EntryRaises, OpenBody, PrepareWrite,
         PrepareReplace, FinishTemporary, WriteFails, BodyStep, TxWrite, TxRename,
         TxSetSchema, TxRollback, TxCommit, BodyEnds, TxLeave, TxExitCommit,
         MutatorReturns, MutatorRaises, Observe, Snapshot, BackupTo, ReadBackup, Crash

\* What ReplaceDocument writes: the copy of its call, at the next revision.
LEMMA ReplaceFacts ==
    ASSUME FlatInv, NEW t \in Threads, ReplaceDocument(t)
    PROVE  /\ Top(t).start = disk.revision
           /\ disk' = [revision |-> disk.revision + 1, content |-> Top(t).data]
           /\ Top(t).expected \in {None, disk.revision}
           /\ \A c \in Names \ Top(t).touched :
                disk'.content.colls[c] = disk.content.colls[c]
  <1>1. InCall(t) /\ Top(t).phase = "whole" /\ disk' = tmp
    BY DEF ReplaceDocument, InPhase
  <1>2. FreshFrame(Top(t), disk)
    BY <1>1 DEF FlatInv
  <1>3. tmp = [revision |-> Top(t).start + 1, content |-> Top(t).data]
    BY <1>1 DEF FlatInv, LockInv, TemporaryIsMine, InPhase
  <1> QED BY <1>1, <1>2, <1>3 DEF FreshFrame, Busy

\* Every change of the document advances the revision by exactly one
\* (README: writes "increment a store-wide revision").
THEOREM RevisionCorrect == ASSUME MaxDepth = 1 PROVE Spec => RevisionAdvances
  <1>1. FlatInv /\ [Next]_vars => [disk' # disk => disk'.revision = disk.revision + 1]_vars
    BY OnlyReplaceWrites, ReplaceFacts
  <1> QED BY <1>1, FlatInvariant, PTL DEF Spec, RevisionAdvances

\* A write changes no collection that its call did not write.
THEOREM UpdatesCorrect == ASSUME MaxDepth = 1 PROVE Spec => NoLostUpdate
  <1>1. FlatInv =>
          [\A t \in Threads : ReplaceDocument(t) =>
              \A c \in Names \ Top(t).touched :
                 disk'.content.colls[c] = disk.content.colls[c]]_vars
    BY ReplaceFacts
  <1> QED BY <1>1, FlatInvariant, PTL DEF Spec, NoLostUpdate

\* A call that names an expected revision replaces the document of that
\* revision (the checks in __enter__, mutate_collection, replace_snapshot).
THEOREM ExpectedCorrect == ASSUME MaxDepth = 1 PROVE Spec => ExpectedIsReplaced
  <1>1. FlatInv =>
          [\A t \in Threads : ReplaceDocument(t) =>
              Top(t).expected \in {None, disk.revision}]_vars
    BY ReplaceFacts
  <1> QED BY <1>1, FlatInvariant, PTL DEF Spec, ExpectedIsReplaced

(***************************************************************************)
(* Refinement: the store implements StoreSpec.  A frame that is working on *)
(* a copy is a client's working copy; all other frames are none.           *)
(***************************************************************************)
WorkOf(f) == IF Busy(f) THEN [base |-> f.start, content |-> f.data] ELSE None

\* The working copy of a client is that of its top frame.
LEMMA WorkIsTop ==
    ASSUME NEW t \in Threads
    PROVE  abstractWork[t] = IF InCall(t) THEN WorkOf(Top(t)) ELSE None
  BY DEF abstractWork, Working, WorkOf, Busy

\* A step inside a call changes the working copy of its client only.
LEMMA WorkAfterReplace ==
    ASSUME FlatInv, NEW t \in Threads, InCall(t), NEW f \in Frame,
           frames' = ReplaceTop(t, f)
    PROVE  abstractWork' = [abstractWork EXCEPT ![t] = WorkOf(f)]
  <1>1. /\ \A u \in Threads \ {t} : frames'[u] = frames[u]
        /\ frames'[t] # <<>>
        /\ frames'[t][Len(frames'[t])] = f
    BY ReplaceTopFacts DEF FlatInv, LockInv
  <1>2. abstractWork'[t] = WorkOf(f)
    BY <1>1 DEF abstractWork, Working, InCall, Top, WorkOf, Busy
  <1>3. \A u \in Threads \ {t} : abstractWork'[u] = abstractWork[u]
    BY <1>1 DEF abstractWork, Working, InCall, Top
  <1> QED BY <1>2, <1>3 DEF abstractWork

\* A call that returns leaves its client without a working copy.
LEMMA WorkAfterReturn ==
    ASSUME FlatInv, LockInv', NEW t \in Threads, InCall(t), Return(t)
    PROVE  abstractWork' = [abstractWork EXCEPT ![t] = None]
  <1>1. \A u \in Threads : frames'[u] = <<>>
    BY ReturnFlat
  <1>2. \A u \in Threads \ {t} : frames[u] = <<>>
    BY OneCaller DEF FlatInv, LockInv, InCall
  <1> QED BY <1>1, <1>2 DEF abstractWork, Working, InCall

\* A copy in progress is not None.
LEMMA WorkIsRecord ==
    ASSUME NEW f \in Frame, Busy(f)
    PROVE  /\ WorkOf(f) = [base |-> f.start, content |-> f.data]
           /\ WorkOf(f) # None
  BY NoneAssumption DEF WorkOf, Frame

\* A step that changes the copy of a call, and not the document.
LEMMA CopySteps ==
    ASSUME FlatInv, NEW t \in Threads, InCall(t), NEW f \in Frame,
           frames' = ReplaceTop(t, f), UNCHANGED disk,
           Busy(Top(t)) => f.start = Top(t).start,
           Busy(f) /\ ~Busy(Top(t)) => f.start = disk.revision
    PROVE  [Abstract!SpecNext]_(Abstract!specVars)
  <1>1. abstractWork' = [abstractWork EXCEPT ![t] = WorkOf(f)]
    BY WorkAfterReplace
  <1>2. Top(t) \in Frame /\ abstractWork[t] = WorkOf(Top(t))
    BY TopIsFrame, WorkIsTop DEF FlatInv, LockInv
  <1>3. f.data \in Content
    BY DEF Frame
  <1>4. CASE Busy(Top(t)) /\ Busy(f)
    <2>1. abstractWork[t] # None /\ abstractWork[t].base = f.start
      BY <1>2, <1>4, WorkIsRecord
    <2>2. WorkOf(f) = [base |-> abstractWork[t].base, content |-> f.data]
      BY <1>4, <2>1, WorkIsRecord
    <2>3. Abstract!Edit(t)
      BY <1>1, <1>3, <2>1, <2>2 DEF Abstract!Edit
    <2> QED BY <2>3 DEF Abstract!SpecNext
  <1>5. CASE Busy(Top(t)) /\ ~Busy(f)
    <2>1. abstractWork[t] # None /\ WorkOf(f) = None
      BY <1>2, <1>5, WorkIsRecord DEF WorkOf
    <2>2. Abstract!Abandon(t)
      BY <1>1, <2>1 DEF Abstract!Abandon
    <2> QED BY <2>2 DEF Abstract!SpecNext
  <1>6. CASE ~Busy(Top(t)) /\ Busy(f)
    <2>1. /\ abstractWork[t] = None
          /\ WorkOf(f) = [base |-> disk.revision, content |-> f.data]
      BY <1>2, <1>6, WorkIsRecord DEF WorkOf
    <2>2. Abstract!Begin(t)
      BY <1>1, <1>3, <2>1 DEF Abstract!Begin
    <2> QED BY <2>2 DEF Abstract!SpecNext
  <1>7. CASE ~Busy(Top(t)) /\ ~Busy(f)
    <2>1. abstractWork[t] = None /\ WorkOf(f) = None
      BY <1>2, <1>7 DEF WorkOf
    <2>2. abstractWork' = abstractWork
      BY <1>1, <2>1 DEF abstractWork
    <2> QED BY <2>2 DEF Abstract!specVars
  <1> QED BY <1>4, <1>5, <1>6, <1>7

\* A call that returns without writing abandons its copy.
LEMMA ReturnStep ==
    ASSUME FlatInv, LockInv', NEW t \in Threads, InCall(t), Return(t), UNCHANGED disk
    PROVE  [Abstract!SpecNext]_(Abstract!specVars)
  <1>1. abstractWork' = [abstractWork EXCEPT ![t] = None]
    BY WorkAfterReturn
  <1>2. CASE abstractWork[t] = None
    <2>1. abstractWork' = abstractWork
      BY <1>1, <1>2 DEF abstractWork
    <2> QED BY <2>1 DEF Abstract!specVars
  <1>3. CASE abstractWork[t] # None
    <2>1. Abstract!Abandon(t)
      BY <1>1, <1>3 DEF Abstract!Abandon
    <2> QED BY <2>1 DEF Abstract!SpecNext
  <1> QED BY <1>2, <1>3

\* The step that replaces the document is the commit of StoreSpec.
LEMMA ReplaceStep ==
    ASSUME FlatInv, LockInv', NEW t \in Threads, ReplaceDocument(t)
    PROVE  Abstract!Commit(t)
  <1>1. InCall(t) /\ Top(t).phase = "whole" /\ Top(t) \in Frame
    BY TopIsFrame DEF ReplaceDocument, InPhase, FlatInv, LockInv
  <1>2. /\ abstractWork[t] # None
        /\ abstractWork[t] = [base |-> disk.revision, content |-> Top(t).data]
        /\ disk' = [revision |-> disk.revision + 1, content |-> Top(t).data]
    BY <1>1, WorkIsTop, WorkIsRecord, ReplaceFacts DEF Busy
  <1>3. abstractWork' = [abstractWork EXCEPT ![t] = None]
    <2>1. CASE Ends(t)
      BY <1>1, <2>1, WorkAfterReturn DEF ReplaceDocument
    <2>2. CASE ~Ends(t)
      <3> DEFINE f == [Top(t) EXCEPT !.phase = "done"]
      <3>1. f \in Frame /\ WorkOf(f) = None
        BY <1>1 DEF Frame, WorkOf, Busy
      <3>2. frames' = ReplaceTop(t, f)
        BY <2>2 DEF ReplaceDocument
      <3> HIDE DEF f
      <3> QED BY <1>1, <3>1, <3>2, WorkAfterReplace
    <2> QED BY <2>1, <2>2
  <1> QED BY <1>2, <1>3 DEF Abstract!Commit

\* Every step of a call maps to a step of StoreSpec or a stutter.
LEMMA CallStep ==
    ASSUME FlatInv, LockInv', NEW t \in Threads,
           StoreStep(t) \/ BodyStep(t) \/ BodyEnds(t)
    PROVE  [Abstract!SpecNext]_(Abstract!specVars)
  <1>1. /\ InCall(t)
        /\ ReturnShape(t) \/ \E f \in Frame : ReplaceShape(t, f)
    BY CallShape DEF FlatInv
  <1>2. CASE ReplaceDocument(t)
    BY <1>2, ReplaceStep DEF Abstract!SpecNext
  <1>3. CASE ReturnShape(t) /\ UNCHANGED disk
    BY <1>1, <1>3, ReturnStep DEF ReturnShape
  <1>4. ASSUME NEW f \in Frame, ReplaceShape(t, f), ~ReplaceDocument(t)
        PROVE  [Abstract!SpecNext]_(Abstract!specVars)
    BY <1>1, <1>4, CopySteps DEF ReplaceShape
  <1> QED BY <1>1, <1>2, <1>3, <1>4 DEF ReturnShape

\* Every step of the store maps to a step of StoreSpec or a stutter.
LEMMA StepImplements ==
    ASSUME MaxDepth = 1, FlatInv, LockInv', [Next]_vars
    PROVE  [Abstract!SpecNext]_(Abstract!specVars)
  <1>1. ASSUME NEW t \in Threads, Enter(t) PROVE UNCHANGED (Abstract!specVars)
    <2>1. PICK kind \in {"write", "mutate", "replace", "tx"}, e \in Expectations(t) :
             Acquire(t, kind, e)
      BY <1>1 DEF Enter
    <2> DEFINE f == [kind |-> kind, expected |-> e, phase |-> "locked",
                     exiting |-> FALSE, start |-> 0, data |-> EmptyContent,
                     touched |-> {}]
    <2>2. e \in Nat \cup {None}
      BY DEF Expectations, FlatInv, LockInv, TypeOK, Document
    <2>3. f \in Frame /\ f.phase = "locked"
      BY <2>2, BoundsAssumption DEF Frame, EmptyContent, Content
    <2>4. /\ frames' = [frames EXCEPT ![t] = Append(frames[t], f)]
          /\ CanCall(t) /\ UNCHANGED disk
      BY <2>1 DEF Acquire
    <2> HIDE DEF f
    <2>5. /\ \A u \in Threads \ {t} : frames'[u] = frames[u]
          /\ frames'[t][Len(frames'[t])] = f
      BY <2>3, <2>4, PushFacts DEF FlatInv, LockInv
    <2>6. \A u \in Threads : frames[u] = <<>>
      BY <2>4, FirstCall
    <2>7. abstractWork' = abstractWork
      BY <2>3, <2>5, <2>6 DEF abstractWork, Working, InCall, Top
    <2> QED BY <2>4, <2>7 DEF Abstract!specVars
  <1>2. ASSUME NEW t \in Threads, Observe(t) PROVE UNCHANGED (Abstract!specVars)
    BY <1>2 DEF Observe, Snapshot, BackupTo, ReadBackup, Abstract!specVars,
                abstractWork, Working, InCall, Top
  <1>3. CASE Crash
    <2>1. abstractWork' = [t \in Threads |-> None] /\ UNCHANGED disk
      BY <1>3 DEF Crash, abstractWork, Working, InCall
    <2> QED BY <2>1 DEF Abstract!SpecNext, Abstract!Restart
  <1>4. CASE UNCHANGED vars
    BY <1>4 DEF vars, Abstract!specVars, abstractWork, Working, InCall, Top
  <1> QED BY <1>1, <1>2, <1>3, <1>4, CallStep DEF Next

\* When calls are not nested, the lock, the copies and the temporary file
\* give callers the store of StoreSpec: a copy is committed only onto the
\* very document it was taken from (StoreTransaction, mutate_collection).
THEOREM StoreRefinement == ASSUME MaxDepth = 1 PROVE Spec => ImplementsStoreSpec
  <1>1. Init => Abstract!SpecInit(EmptyContent)
    BY DEF Init, Abstract!SpecInit, abstractWork, Working, InCall
  <1>2. FlatInv /\ FlatInv' /\ [Next]_vars => [Abstract!SpecNext]_(Abstract!specVars)
    BY StepImplements DEF FlatInv
  <1> QED BY <1>1, <1>2, FlatInvariant, PTL DEF Spec, ImplementsStoreSpec
=============================================================================
