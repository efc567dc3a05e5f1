-------------------------- MODULE CueRuntimeProofs --------------------------
(***************************************************************************)
(* Proofs about CueRuntime, for any sheets, clocks and moments.  The       *)
(* invariant says of the run what it says of its snapshot, so that a       *)
(* restore keeps it; that the sheet is a valid one; and, inside a poll of  *)
(* the auto-follows, that nothing before the cursor is due.                *)
(***************************************************************************)
EXTENDS CueRuntime, FiniteSetTheorems, WellFoundedInduction, TLAPS

\* FiredCuesHaveTime and FailedCuesAreSafe, for a run or its snapshot.
SafeRun(r) ==
    \A c \in Cues : /\ r.states[c] = "fired" => r.firedAt[c] \in 0..now
                    /\ r.states[c] \in {"failed", "skipped"} => c \notin r.armed

NothingDueBehind ==
    follow # None => \A c \in Cues : c < follow.cue => ~Due(c, follow.moment)

CueInv ==
    /\ TypeOK
    /\ Valid(sheet)
    /\ SafeRun(Current)
    /\ saved # None => SafeRun(saved)
    /\ NothingDueBehind

-----------------------------------------------------------------------------
\* The order of the natural numbers is well founded, so a set of them that is
\* not empty has a least one.
LEMMA LeastNat ==
    ASSUME NEW S \in SUBSET Nat, S # {}
    PROVE  \E m \in S : \A n \in S : m <= n
  <1> DEFINE Less == {p \in Nat \X Nat : p[1] < p[2]}
  <1>1. Less = OpToRel(<, Nat)
    BY DEF OpToRel
  <1>2. IsWellFoundedOn(Less, Nat)
    BY <1>1, NatLessThanWellFounded
  <1>3. PICK x \in S : \A y \in S : <<y, x>> \notin Less
    <2> HIDE DEF Less
    <2> QED BY <1>2, WFMin
  <1>4. ASSUME NEW n \in S PROVE x <= n
    <2>1. <<n, x>> \in Nat \X Nat
      OBVIOUS
    <2>2. ~(n < x)
      BY <1>3, <2>1
    <2> QED BY <2>2
  <1> QED BY <1>4

\* A family of sets of cues has one that lies in no other of the family.
LEMMA MaximalSet ==
    ASSUME NEW U, IsFiniteSet(U), NEW F \in SUBSET SUBSET U, F # {}
    PROVE  \E M \in F : \A N \in F : ~(M \subseteq N /\ M # N)
  <1> DEFINE R == StrictSubsetOrdering(U)
             T == {U \ N : N \in F}
  <1>1. IsWellFoundedOn(R, FiniteSubsetsOf(U))
    BY FS_StrictSubsetOrderingWellFounded
  <1>2. FiniteSubsetsOf(U) = SUBSET U
    BY FS_FiniteSubsetsOfFinite
  <1>3. T \in SUBSET FiniteSubsetsOf(U) /\ T # {}
    <2>1. PICK N \in F : U \ N \in T
      OBVIOUS
    <2>2. \A X \in T : X \in SUBSET U
      OBVIOUS
    <2> QED BY <1>2, <2>1, <2>2
  <1>4. PICK X \in T : \A Y \in T : <<Y, X>> \notin R
    <2> HIDE DEF T, R
    <2> QED BY <1>1, <1>3, WFMin
  <1>5. PICK M \in F : X = U \ M
    OBVIOUS
  <1>6. ASSUME NEW N \in F, M \subseteq N, M # N PROVE FALSE
    <2>1. U \ N \in T /\ U \ N \subseteq U \ M /\ U \ N # U \ M
      BY <1>6
    <2>2. <<U \ N, U \ M>> \in R
      BY <2>1 DEF StrictSubsetOrdering
    <2> QED BY <1>4, <1>5, <2>1, <2>2
  <1> QED BY <1>6

-----------------------------------------------------------------------------
\* What the sheet of a run is.
LEMMA SheetIs ==
    ASSUME TypeOK
    PROVE  /\ Cues \subseteq Nat /\ Cues # {} /\ IsFiniteSet(Cues)
           /\ sheet.requires \in [Cues -> SUBSET Nat]
           /\ sheet.critical \subseteq Cues
           /\ sheet.delay \in [Cues -> Nat \cup {None}]
  BY SheetAssumption DEF TypeOK, Cues

\* The next cue of the sheet is the least of the later ones; the first is the
\* least of all.
LEMMA CueOrder ==
    ASSUME TypeOK
    PROVE  /\ First \in Cues /\ \A d \in Cues : First <= d
           /\ \A c \in Cues :
                \/ CueAfter(c) = None /\ \A d \in Cues : d <= c
                \/ /\ CueAfter(c) \in Cues
                   /\ CueAfter(c) > c
                   /\ CueAfter(c) # None
                   /\ \A d \in Cues : d > c => CueAfter(c) <= d
  <1>1. Cues \in SUBSET Nat /\ Cues # {}
    BY SheetIs
  <1>2. First \in Cues /\ \A d \in Cues : First <= d
    BY <1>1, LeastNat DEF First
  <1>3. ASSUME NEW c \in Cues
        PROVE  \/ CueAfter(c) = None /\ \A d \in Cues : d <= c
               \/ /\ CueAfter(c) \in Cues
                  /\ CueAfter(c) > c
                  /\ CueAfter(c) # None
                  /\ \A d \in Cues : d > c => CueAfter(c) <= d
    <2> DEFINE later == {d \in Cues : d > c}
    <2>1. CASE later = {}
      <3>1. CueAfter(c) = None
        BY <2>1 DEF CueAfter
      <3>2. \A d \in Cues : ~(d > c)
        BY <2>1
      <3> QED BY <1>1, <3>1, <3>2
    <2>2. CASE later # {}
      <3> DEFINE next == CHOOSE d \in later : \A e \in later : d <= e
      <3>1. CueAfter(c) = next
        BY <2>2 DEF CueAfter
      <3>2. next \in later /\ \A e \in later : next <= e
        <4>1. later \in SUBSET Nat
          BY <1>1
        <4> HIDE DEF later
        <4> QED BY <2>2, <4>1, LeastNat
      <3>3. next \in Cues /\ next > c /\ \A d \in Cues : d > c => next <= d
        BY <3>2
      <3>4. next # None
        BY <1>1, <3>3, SheetAssumption
      <3> HIDE DEF next
      <3> QED BY <3>1, <3>3, <3>4
    <2> QED BY <2>1, <2>2
  <1> QED BY <1>2, <1>3

\* What requires a cue, or one of its dependants, is one of its dependants.
LEMMA DependantsAreClosed ==
    ASSUME NEW s, NEW c, NEW d \in s.cues,
           s.requires[d] \cap (Dependants(s, c) \cup {c}) # {}
    PROVE  d \in Dependants(s, c)
  <1> DEFINE Closed(D) ==
          \A e \in s.cues : s.requires[e] \cap (D \cup {c}) # {} => e \in D
  <1>1. Dependants(s, c) = {e \in s.cues : \A D \in SUBSET s.cues : Closed(D) => e \in D}
    BY DEF Dependants
  <1>2. ASSUME NEW D \in SUBSET s.cues, Closed(D) PROVE d \in D
    <2>1. Dependants(s, c) \subseteq D
      BY <1>1, <1>2
    <2>2. s.requires[d] \cap (D \cup {c}) # {}
      BY <2>1
    <2> QED BY <1>2, <2>2
  <1> QED BY <1>1, <1>2

\* A cue that requires another depends on it, and so do all its dependants.
LEMMA RequiringIsDepending ==
    ASSUME NEW s, NEW c \in s.cues, NEW d \in s.requires[c]
    PROVE  c \in Dependants(s, d) /\ Dependants(s, c) \subseteq Dependants(s, d)
  <1>1. c \in Dependants(s, d)
    BY DependantsAreClosed
  <1>2. ASSUME NEW e \in s.cues,
               s.requires[e] \cap (Dependants(s, d) \cup {c}) # {}
        PROVE  e \in Dependants(s, d)
    <2>1. s.requires[e] \cap (Dependants(s, d) \cup {d}) # {}
      BY <1>1, <1>2
    <2> QED BY <2>1, DependantsAreClosed
  <1>3. Dependants(s, d) \in SUBSET s.cues
    BY DEF Dependants
  <1>4. Dependants(s, c) \subseteq Dependants(s, d)
    <2> DEFINE D == Dependants(s, d)
    <2>1. \A e \in s.cues : s.requires[e] \cap (D \cup {c}) # {} => e \in D
      BY <1>2
    <2>2. D \in SUBSET s.cues
      BY <1>3
    <2> HIDE DEF D
    <2>3. Dependants(s, c) \subseteq D
      BY <2>1, <2>2 DEF Dependants
    <2> QED BY <2>3 DEF D
  <1> QED BY <1>1, <1>4

\* A valid sheet has no circle: of any of its cues, one requires none of the
\* others (the longest chain of requirements is finite).
LEMMA NoCircle ==
    ASSUME TypeOK, Valid(sheet), NEW P \in SUBSET Cues, P # {}
    PROVE  \E c \in P : sheet.requires[c] \cap P = {}
  <1> SUFFICES ASSUME \A c \in P : sheet.requires[c] \cap P # {}
               PROVE  FALSE
    OBVIOUS
  <1> DEFINE F == {Dependants(sheet, c) : c \in P}
  <1>1. F \in SUBSET SUBSET Cues /\ F # {}
    <2>1. \A c \in P : Dependants(sheet, c) \in SUBSET Cues
      BY DEF Dependants, Cues
    <2>2. PICK c \in P : Dependants(sheet, c) \in F
      OBVIOUS
    <2>3. \A N \in F : N \in SUBSET Cues
      BY <2>1
    <2> QED BY <2>2, <2>3
  <1>2. PICK M \in F : \A N \in F : ~(M \subseteq N /\ M # N)
    <2> HIDE DEF F
    <2> QED BY <1>1, SheetIs, MaximalSet
  <1>3. PICK c \in P : M = Dependants(sheet, c)
    OBVIOUS
  <1>4. PICK d \in P : d \in sheet.requires[c]
    OBVIOUS
  <1>5. c \in sheet.cues
    BY DEF Cues
  <1>6. c \in Dependants(sheet, d) /\ M \subseteq Dependants(sheet, d)
    BY <1>3, <1>4, <1>5, RequiringIsDepending
  <1>7. c \notin M
    BY <1>3, <1>5 DEF Valid
  <1> QED BY <1>2, <1>6, <1>7

-----------------------------------------------------------------------------
\* What a call must leave behind: a well-typed run that is safe, with the clock
\* no earlier and the snapshot as it was or taken of the run before.
LEMMA RunKeeps ==
    ASSUME CueInv, UNCHANGED sheet, saved' \in {saved, Current},
           now' \in Times, now <= now',
           phase' \in {"new", "running", "ended"},
           states' \in [Cues -> States],
           armed' \subseteq sheet.critical,
           firedAt' \in [Cues -> Times \cup {None}],
           \A c \in Cues : /\ states'[c] = "fired" => firedAt'[c] \in 0..now'
                           /\ states'[c] \in {"failed", "skipped"} => c \notin armed',
           follow' \in {None} \cup [cue : Cues, moment : Times],
           NothingDueBehind'
    PROVE  CueInv'
  <1>1. Cues' = Cues /\ now \in Nat /\ now' \in Nat
    BY SheetAssumption DEF Cues, CueInv, TypeOK, Times
  <1>2. RunOK(Current)' /\ SafeRun(Current)'
    BY <1>1 DEF RunOK, SafeRun, Current
  <1>3. saved' # None => RunOK(saved)' /\ SafeRun(saved)'
    <2>1. CASE saved' = saved
      BY <1>1, <2>1 DEF RunOK, SafeRun, CueInv, TypeOK
    <2>2. CASE saved' = Current
      BY <1>1, <2>2 DEF RunOK, SafeRun, CueInv, TypeOK, Current
    <2> QED BY <2>1, <2>2
  <1>4. TypeOK'
    BY <1>1, <1>2, <1>3 DEF CueInv, TypeOK
  <1>5. Valid(sheet)'
    BY DEF CueInv
  <1> QED BY <1>2, <1>3, <1>4, <1>5 DEF CueInv

\* What the invariant says of the run itself.
LEMMA RunIs ==
    ASSUME CueInv
    PROVE  /\ phase \in {"new", "running", "ended"}
           /\ states \in [Cues -> States]
           /\ armed \subseteq sheet.critical
           /\ firedAt \in [Cues -> Times \cup {None}]
           /\ now \in Times /\ now \in Nat
           /\ \A c \in Cues : /\ states[c] = "fired" => firedAt[c] \in 0..now
                              /\ states[c] \in {"failed", "skipped"} => c \notin armed
  BY SheetAssumption DEF CueInv, TypeOK, RunOK, SafeRun, Current, Times

\* A call of an operator is made between two polls, so nothing is behind a
\* cursor.
LEMMA OperatorKeeps ==
    ASSUME CueInv, NEW c \in Cues, Operate(c)
    PROVE  CueInv'
  <1>1. /\ follow = None /\ UNCHANGED <<sheet, phase, follow, saved, now>>
    BY DEF Operate, Running, Arm, Disarm, Standby, Go, Complete, Fail, Skip, Reset
  <1>2. /\ saved' \in {saved, Current} /\ now' \in Times /\ now <= now'
        /\ phase' \in {"new", "running", "ended"}
        /\ follow' \in {None} \cup [cue : Cues, moment : Times]
        /\ NothingDueBehind'
    BY <1>1, RunIs DEF NothingDueBehind
  <1>3. sheet.critical \subseteq Cues
    BY SheetIs DEF CueInv
  <1>4. ASSUME states' \in [Cues -> States],
               armed' \subseteq sheet.critical,
               firedAt' \in [Cues -> Times \cup {None}],
               \A d \in Cues : /\ states'[d] = "fired" => firedAt'[d] \in 0..now
                               /\ states'[d] \in {"failed", "skipped"} => d \notin armed'
        PROVE  CueInv'
    BY <1>1, <1>2, <1>4, RunKeeps
  <1>5. CASE Arm(c)
    BY <1>4, <1>5, RunIs DEF Arm, Terminal
  <1>6. CASE Disarm(c)
    BY <1>4, <1>6, RunIs DEF Disarm
  <1>7. CASE Standby(c)
    BY <1>4, <1>7, RunIs DEF Standby, States
  <1>8. CASE Complete(c)
    BY <1>4, <1>8, RunIs DEF Complete, States
  <1>9. CASE Fail(c)
    BY <1>4, <1>9, RunIs DEF Fail, States
  <1>10. CASE Skip(c)
    BY <1>4, <1>10, RunIs DEF Skip, States
  <1>11. ASSUME NEW force \in BOOLEAN, Go(c, force) PROVE CueInv'
    <2>1. now \in 0..now
      BY RunIs
    <2> QED BY <1>4, <1>11, <2>1, RunIs DEF Go, States
  <1>12. ASSUME NEW cascade \in BOOLEAN, Reset(c, cascade) PROVE CueInv'
    <2> DEFINE affected == {c} \cup (IF cascade THEN Dependants(sheet, c) ELSE {})
    <2>1. /\ states' = [d \in Cues |-> IF d \in affected THEN "pending" ELSE states[d]]
          /\ firedAt' = [d \in Cues |-> IF d \in affected THEN None ELSE firedAt[d]]
          /\ armed' = armed \ affected
      BY <1>12 DEF Reset
    <2> HIDE DEF affected
    <2> QED BY <1>4, <2>1, RunIs DEF States
  <1> QED BY <1>5, <1>6, <1>7, <1>8, <1>9, <1>10, <1>11, <1>12 DEF Operate

-----------------------------------------------------------------------------
\* When the loop of the poll goes on, what was not due behind the cursor nor
\* under it is not due behind the next one; the last cue ends it.
LEMMA AdvanceKeeps ==
    ASSUME CueInv, follow # None, Advance, UNCHANGED sheet,
           NEW m \in Times, follow.moment = m,
           \A c \in Cues : c <= follow.cue => ~Due(c, m)'
    PROVE  /\ follow' \in {None} \cup [cue : Cues, moment : Times]
           /\ NothingDueBehind'
           /\ follow' = None => \A c \in Cues : ~Due(c, m)'
  <1>1. follow \in [cue : Cues, moment : Times]
    BY DEF CueInv, TypeOK
  <1>2. Cues \subseteq Nat /\ Cues' = Cues
    BY SheetIs DEF CueInv, Cues
  <1>3. CASE CueAfter(follow.cue) = None
    <2>1. follow' = None
      BY <1>3 DEF Advance
    <2>2. \A c \in Cues : c <= follow.cue
      BY <1>1, <1>3, CueOrder DEF CueInv
    <2> QED BY <2>1, <2>2 DEF NothingDueBehind
  <1>4. CASE CueAfter(follow.cue) # None
    <2> DEFINE next == CueAfter(follow.cue)
    <2>1. next \in Cues /\ \A d \in Cues : d > follow.cue => next <= d
      BY <1>1, <1>4, CueOrder DEF CueInv
    <2>2. follow' = [follow EXCEPT !.cue = next]
      BY <1>4 DEF Advance
    <2> HIDE DEF next
    <2>3. /\ follow' \in [cue : Cues, moment : Times]
          /\ follow'.cue = next /\ follow'.moment = m
      BY <1>1, <2>1, <2>2
    <2>4. ASSUME NEW c \in Cues, c < next PROVE c <= follow.cue
      <3>1. c \in Nat /\ next \in Nat /\ follow.cue \in Nat
        BY <1>1, <1>2, <2>1
      <3>2. ~(c > follow.cue)
        BY <2>1, <2>4, <3>1
      <3> QED BY <3>1, <3>2
    <2>5. NothingDueBehind'
      <3>1. \A c \in Cues : c < next => ~Due(c, m)'
        BY <2>4
      <3>2. ASSUME NEW c \in Cues, c < next PROVE ~Due(c, m)'
        BY <3>1, <3>2
      <3> QED BY <1>2, <2>3, <3>2 DEF NothingDueBehind, Due
    <2>6. follow' # None
      <3>1. follow' \in [cue : Nat, moment : Nat]
        <4>1. Times \subseteq Nat
          BY SheetAssumption DEF Times
        <4> QED BY <1>2, <2>3, <4>1
      <3> QED BY <3>1, NoneAssumption
    <2> QED BY <2>3, <2>5, <2>6
  <1> QED BY <1>3, <1>4

\* One step of the poll: the cue under the cursor is not due, or is completed;
\* the next one is fired, or stands by and ends the poll.
LEMMA PollKeeps ==
    ASSUME CueInv, FollowPasses \/ FollowCompletes \/ FollowFires \/ FollowRaises
    PROVE  /\ CueInv'
           /\ \A m \in Times : follow.moment = m /\ follow' = None /\ ~FollowRaises
                                 => \A c \in Cues : ~Due(c, m)'
  <1>1. /\ follow # None /\ follow \in [cue : Cues, moment : Times]
        /\ UNCHANGED <<sheet, phase, saved, now>>
    BY DEF CueInv, TypeOK, FollowPasses, FollowCompletes, FollowFires, FollowRaises
  <1> DEFINE next == NextCue
  <1>0. PICK c \in Cues, m \in Times : follow.cue = c /\ follow.moment = m
    BY <1>1
  <1> SUFFICES /\ CueInv'
               /\ follow' = None /\ ~FollowRaises => \A d \in Cues : ~Due(d, m)'
    BY <1>0
  <1>2. /\ c \in Nat /\ Cues \subseteq Nat
        /\ \A d \in Cues : d < c => ~Due(d, m)
    BY <1>0, <1>1, SheetIs DEF CueInv, NothingDueBehind
  <1>3. /\ saved' \in {saved, Current} /\ now' \in Times /\ now <= now'
        /\ phase' \in {"new", "running", "ended"}
    BY <1>1, RunIs
  <1>4. NextIsReady => next \in Cues /\ next > c /\ states[next] = "pending"
    BY <1>0, CueOrder DEF CueInv, NextIsReady, NextCue
  <1>5. Elapsed = [states EXCEPT ![c] = "completed"]
    BY <1>0 DEF Elapsed
  <1> HIDE DEF next
  <1>6. ASSUME Advance,
               states' \in [Cues -> States],
               armed' \subseteq sheet.critical,
               firedAt' \in [Cues -> Times \cup {None}],
               \A d \in Cues : /\ states'[d] = "fired" => firedAt'[d] \in 0..now
                               /\ states'[d] \in {"failed", "skipped"} => d \notin armed',
               \A d \in Cues : d < c => states'[d] = states[d] /\ firedAt'[d] = firedAt[d],
               ~Due(c, m)'
        PROVE  /\ CueInv'
               /\ follow' = None => \A d \in Cues : ~Due(d, m)'
    <2>1. \A d \in Cues : d < c => ~Due(d, m)'
      BY <1>1, <1>2, <1>6 DEF Due
    <2>2. ASSUME NEW d \in Cues, d <= c PROVE ~Due(d, m)'
      <3>1. d < c \/ d = c
        BY <1>2, <2>2
      <3> QED BY <1>6, <2>1, <3>1
    <2>3. /\ follow' \in {None} \cup [cue : Cues, moment : Times]
          /\ NothingDueBehind'
          /\ follow' = None => \A d \in Cues : ~Due(d, m)'
      BY <1>0, <1>1, <1>6, <2>2, AdvanceKeeps
    <2> QED BY <1>1, <1>3, <1>6, <2>3, RunKeeps
  <1>7. CASE FollowPasses
    <2>1. /\ Advance /\ UNCHANGED <<states, armed, firedAt>>
          /\ ~Due(c, m)'
      BY <1>0, <1>1, <1>7 DEF FollowPasses, Due
    <2> QED BY <1>6, <2>1, RunIs
  <1>8. CASE FollowCompletes
    <2>1. /\ Advance /\ UNCHANGED <<armed, firedAt>>
          /\ states' = [states EXCEPT ![c] = "completed"]
      BY <1>5, <1>8 DEF FollowCompletes
    <2>2. states' \in [Cues -> States] /\ states'[c] = "completed"
      BY <1>2, <2>1, RunIs DEF States
    <2>3. ~Due(c, m)'
      BY <2>2 DEF Due
    <2>4. \A d \in Cues : /\ states'[d] = "fired" => firedAt'[d] \in 0..now
                          /\ states'[d] \in {"failed", "skipped"} => d \notin armed'
      BY <2>1, RunIs
    <2>5. \A d \in Cues : d < c => states'[d] = states[d] /\ firedAt'[d] = firedAt[d]
      BY <1>2, <2>1, RunIs
    <2> QED BY <1>6, <2>1, <2>2, <2>3, <2>4, <2>5, RunIs
  <1>9. CASE FollowFires
    <2>1. /\ Advance /\ NextIsReady
          /\ states' = [Elapsed EXCEPT ![next] = "fired"]
          /\ firedAt' = [firedAt EXCEPT ![next] = now]
          /\ armed' = armed \ {next}
      BY <1>9 DEF FollowFires, next
    <2>2. /\ states' \in [Cues -> States]
          /\ states'[c] = "completed" /\ states'[next] = "fired"
          /\ \A d \in Cues \ {c, next} : states'[d] = states[d]
          /\ firedAt' \in [Cues -> Times \cup {None}]
          /\ firedAt'[next] = now
          /\ \A d \in Cues \ {next} : firedAt'[d] = firedAt[d]
      BY <1>2, <1>4, <1>5, <2>1, RunIs DEF States
    <2>3. ~Due(c, m)'
      BY <2>2 DEF Due
    <2>4. now \in 0..now
      BY RunIs
    <2>5. \A d \in Cues : /\ states'[d] = "fired" => firedAt'[d] \in 0..now
                          /\ states'[d] \in {"failed", "skipped"} => d \notin armed'
      BY <2>1, <2>2, <2>4, RunIs
    <2>6. armed' \subseteq sheet.critical
      BY <2>1, RunIs
    <2>7. \A d \in Cues : d < c => states'[d] = states[d] /\ firedAt'[d] = firedAt[d]
      BY <1>2, <1>4, <2>1, <2>2
    <2> QED BY <1>6, <2>1, <2>2, <2>3, <2>5, <2>6, <2>7
  <1>10. CASE FollowRaises
    <2>1. /\ NextIsReady /\ follow' = None /\ UNCHANGED <<armed, firedAt>>
          /\ states' = [Elapsed EXCEPT ![next] = "standby"]
      BY <1>10 DEF FollowRaises, next
    <2>2. /\ states' \in [Cues -> States]
          /\ states'[c] = "completed" /\ states'[next] = "standby"
          /\ \A d \in Cues \ {c, next} : states'[d] = states[d]
      BY <1>2, <1>4, <1>5, <2>1, RunIs DEF States
    <2>3. \A d \in Cues : /\ states'[d] = "fired" => firedAt'[d] \in 0..now
                          /\ states'[d] \in {"failed", "skipped"} => d \notin armed'
      BY <2>1, <2>2, RunIs
    <2>4. CueInv'
      BY <1>1, <1>3, <2>1, <2>2, <2>3, RunIs, RunKeeps DEF NothingDueBehind
    <2> QED BY <1>10, <2>4
  <1> QED BY <1>7, <1>8, <1>9, <1>10

-----------------------------------------------------------------------------
\* A new run is safe, and so is one that a snapshot brings back.
LEMMA FreshIs ==
    /\ Fresh.phase = "new" /\ Fresh.armed = {}
    /\ Fresh.states = [c \in Cues |-> "pending"]
    /\ Fresh.firedAt = [c \in Cues |-> None]
  BY DEF Fresh

\* Starting and ending the run, beginning to drain follows, the snapshot, the restore, the
\* restart and the clock keep the invariant.
LEMMA LifecycleKeeps ==
    ASSUME CueInv,
           \/ Start
           \/ \E allow_incomplete \in BOOLEAN : End(allow_incomplete)
           \/ \E moment \in Times : StartFollows(moment)
           \/ TakeSnapshot \/ Restore \/ Restart \/ Tick
    PROVE  CueInv'
  <1>1. ASSUME Start \/ \E allow_incomplete \in BOOLEAN : End(allow_incomplete)
        PROVE  CueInv'
    <2>1. /\ follow = None /\ UNCHANGED <<sheet, states, armed, firedAt, follow, saved, now>>
          /\ phase' \in {"new", "running", "ended"}
      BY <1>1 DEF Start, End, Running
    <2> QED BY <2>1, RunIs, RunKeeps DEF NothingDueBehind
  <1>2. ASSUME NEW moment \in Times, StartFollows(moment) PROVE CueInv'
    <2>1. /\ UNCHANGED <<sheet, phase, states, armed, firedAt, saved, now>>
          /\ follow' = [cue |-> First, moment |-> moment]
      BY <1>2 DEF StartFollows
    <2>2. First \in Cues /\ \A d \in Cues : ~(d < First)
      BY CueOrder, SheetIs DEF CueInv
    <2>3. NothingDueBehind'
      BY <2>1, <2>2 DEF NothingDueBehind, Cues
    <2> QED BY <2>1, <2>2, <2>3, RunIs, RunKeeps
  <1>3. CASE TakeSnapshot
    <2>1. /\ follow = None
          /\ UNCHANGED <<sheet, phase, states, armed, firedAt, follow, now>>
          /\ saved' = Current
      BY <1>3 DEF TakeSnapshot, Current
    <2> QED BY <2>1, RunIs, RunKeeps DEF NothingDueBehind
  <1>4. CASE Restore
    <2>1. /\ follow = None /\ UNCHANGED <<sheet, follow, saved, now>>
          /\ phase' = saved.phase /\ states' = saved.states
          /\ armed' = saved.armed /\ firedAt' = saved.firedAt
          /\ RunOK(saved) /\ SafeRun(saved)
      BY <1>4 DEF Restore, Becomes, CueInv, TypeOK
    <2>2. /\ phase' \in {"new", "running", "ended"}
          /\ states' \in [Cues -> States]
          /\ armed' \subseteq sheet.critical
          /\ firedAt' \in [Cues -> Times \cup {None}]
          /\ \A c \in Cues : /\ states'[c] = "fired" => firedAt'[c] \in 0..now
                             /\ states'[c] \in {"failed", "skipped"} => c \notin armed'
      BY <2>1 DEF RunOK, SafeRun
    <2> QED BY <2>1, <2>2, RunIs, RunKeeps DEF NothingDueBehind
  <1>5. CASE Restart
    <2>1. /\ follow' = None /\ UNCHANGED <<sheet, saved, now>>
          /\ phase' = "new" /\ armed' = {}
          /\ states' = [c \in Cues |-> "pending"]
          /\ firedAt' = [c \in Cues |-> None]
      BY <1>5, FreshIs DEF Restart, Becomes
    <2> QED BY <2>1, RunIs, RunKeeps DEF NothingDueBehind, States
  <1>6. CASE Tick
    <2>1. /\ UNCHANGED <<sheet, phase, states, armed, firedAt, follow, saved>>
          /\ now' = now + 1 /\ now < MaxTime
      BY <1>6 DEF Tick
    <2>2. now \in Nat /\ now' \in Times /\ now <= now'
      BY <2>1, RunIs, SheetAssumption DEF Times
    <2>3. \A t \in 0..now : t \in 0..now'
      BY <2>2, SheetAssumption DEF Times
    <2>4. \A c \in Cues : states[c] = "fired" => firedAt[c] \in 0..now'
      BY <2>3, RunIs
    <2>5. /\ follow' \in {None} \cup [cue : Cues, moment : Times]
          /\ NothingDueBehind'
      BY <2>1 DEF CueInv, TypeOK, NothingDueBehind, Due, Cues
    <2> QED BY <2>1, <2>2, <2>4, <2>5, RunIs, RunKeeps
  <1> QED BY <1>1, <1>2, <1>3, <1>4, <1>5, <1>6

\* A run begins fresh, with a valid sheet.
LEMMA CueInit == Init => CueInv
  <1> SUFFICES ASSUME Init PROVE CueInv
    OBVIOUS
  <1>1. /\ sheet \in Sheets /\ Valid(sheet)
        /\ follow = None /\ saved = None /\ now = 0
        /\ phase = "new" /\ armed = {}
        /\ states = [c \in Cues |-> "pending"]
        /\ firedAt = [c \in Cues |-> None]
    BY FreshIs DEF Init
  <1>2. RunOK(Current) /\ SafeRun(Current)
    BY <1>1 DEF RunOK, SafeRun, Current, States
  <1>3. now \in Times
    BY <1>1, SheetAssumption DEF Times
  <1> QED BY <1>1, <1>2, <1>3 DEF CueInv, TypeOK, NothingDueBehind

\* Every step of the operator, the poller and the run keeps the invariant.
LEMMA CueStep == CueInv /\ [Next]_vars => CueInv'
  <1> SUFFICES ASSUME CueInv, [Next]_vars PROVE CueInv'
    OBVIOUS
  <1>1. CASE Next
    BY <1>1, OperatorKeeps, PollKeeps, LifecycleKeeps DEF Next
  <1>2. CASE UNCHANGED vars
    <2>1. /\ UNCHANGED <<sheet, phase, states, armed, firedAt, follow, saved, now>>
          /\ NothingDueBehind'
          /\ follow' \in {None} \cup [cue : Cues, moment : Times]
      BY <1>2 DEF vars, CueInv, TypeOK, NothingDueBehind, Due, Cues
    <2> QED BY <2>1, RunIs, RunKeeps
  <1> QED BY <1>1, <1>2

\* Whatever the operator fires, skips and resets, in whatever order with the polls, the
\* run is the one the sheet allows: the invariant the theorems below rest on.
THEOREM CueInvariance == Spec => []CueInv
  <1> QED BY CueInit, CueStep, PTL DEF Spec

-----------------------------------------------------------------------------
\* A valid sheet gives every waiting run a ready cue: of the cues that are
\* pending, one requires no other of them.
LEMMA ReadyCueExists == CueInv => SomeCueIsReady
  <1> SUFFICES ASSUME CueInv, \A c \in Cues : states[c] \in Done \cup {"pending"},
                      ~(\A c \in Cues : states[c] \in Done)
               PROVE  ReadyCues # {}
    BY DEF SomeCueIsReady
  <1> DEFINE P == {c \in Cues : states[c] = "pending"}
  <1>1. P # {} /\ P \in SUBSET Cues
    OBVIOUS
  <1>2. PICK c \in P : sheet.requires[c] \cap P = {}
    <2> HIDE DEF P
    <2> QED BY <1>1, NoCircle DEF CueInv
  <1>3. sheet.requires[c] \subseteq Cues
    BY DEF CueInv, Valid, Cues
  <1>4. ~Blocked(states, c)
    BY <1>2, <1>3 DEF Blocked
  <1> QED BY <1>2, <1>4 DEF ReadyCues

\* Disjoint finite sets have as many members together as apart.
LEMMA DisjointUnion ==
    ASSUME NEW S, NEW T, IsFiniteSet(S), IsFiniteSet(T), S \cap T = {}
    PROVE  Cardinality(S \cup T) = Cardinality(S) + Cardinality(T)
  <1>1. Cardinality(S \cup T) =
          Cardinality(S) + Cardinality(T) - Cardinality(S \cap T)
    BY FS_Union
  <1>2. Cardinality(S \cap T) = 0
    BY FS_EmptySet
  <1>3. Cardinality(S) \in Nat /\ Cardinality(T) \in Nat
    BY FS_CardinalityType
  <1> QED BY <1>1, <1>2, <1>3

\* The four counts of the report are of disjoint sets that make up the sheet.
LEMMA ReportIsComplete == CueInv => ReportAddsUp
  <1> SUFFICES ASSUME CueInv PROVE ReportAddsUp
    OBVIOUS
  <1> DEFINE A == WithState({"completed"})
             B == WithState({"failed"})
             C == WithState({"skipped"})
             D == WithState({"pending", "standby", "fired"})
  <1>1. IsFiniteSet(Cues) /\ \A c \in Cues : sheet.requires[c] \subseteq Cues
    BY SheetIs DEF CueInv, Valid, Cues
  <1>2. /\ Cues = (A \cup B) \cup (C \cup D)
        /\ A \cap B = {} /\ C \cap D = {} /\ (A \cup B) \cap (C \cup D) = {}
        /\ D = Unfinished
        /\ \A c \in Cues : c \notin B /\ c \notin D => states[c] \in Done
    BY RunIs DEF WithState, Unfinished, Terminal, States, Done
  <1>3. /\ A \subseteq Cues /\ B \subseteq Cues /\ C \subseteq Cues /\ D \subseteq Cues
        /\ A \cup B \subseteq Cues /\ C \cup D \subseteq Cues
    BY DEF WithState
  <1>4. /\ RunReport.total_cues = Cardinality(Cues)
        /\ RunReport.completed = Cardinality(A)
        /\ RunReport.failed = Cardinality(B)
        /\ RunReport.skipped = Cardinality(C)
        /\ RunReport.pending = Cardinality(D)
    BY DEF RunReport
  <1> HIDE DEF A, B, C, D
  <1>5. /\ IsFiniteSet(A) /\ IsFiniteSet(B) /\ IsFiniteSet(C) /\ IsFiniteSet(D)
        /\ IsFiniteSet(A \cup B) /\ IsFiniteSet(C \cup D)
    BY <1>1, <1>3, FS_Subset
  <1>6. /\ Cardinality(A) \in Nat /\ Cardinality(B) \in Nat
        /\ Cardinality(C) \in Nat /\ Cardinality(D) \in Nat
    BY <1>5, FS_CardinalityType
  <1>7. /\ Cardinality(A \cup B) = Cardinality(A) + Cardinality(B)
        /\ Cardinality(C \cup D) = Cardinality(C) + Cardinality(D)
        /\ Cardinality(Cues) = Cardinality(A \cup B) + Cardinality(C \cup D)
    BY <1>2, <1>5, DisjointUnion
  <1>8. /\ Cardinality(B) = 0 <=> B = {}
        /\ Cardinality(D) = 0 <=> D = {}
    BY <1>5, FS_EmptySet
  <1>9. RunReport.total_cues = RunReport.completed + RunReport.failed
                                 + RunReport.skipped + RunReport.pending
    BY <1>4, <1>6, <1>7
  <1>10. Successful => \A c \in Cues : states[c] \in Done /\ ~Blocked(states, c)
    <2>1. Successful => B = {} /\ D = {}
      BY <1>4, <1>8 DEF Successful
    <2> QED BY <1>1, <1>2, <2>1 DEF Blocked
  <1> QED BY <1>2, <1>4, <1>8, <1>9, <1>10 DEF ReportAddsUp

\* Whatever is forced, reset, restored and polled, the run is sound.
THEOREM RunStaysSound == Spec => []RunIsSound
  <1>1. CueInv => RunIsSound
    <2>1. CueInv => TypeOK /\ FiredCuesHaveTime /\ FailedCuesAreSafe
      BY RunIs DEF CueInv, FiredCuesHaveTime, FailedCuesAreSafe
    <2> QED BY <2>1, ReadyCueExists, ReportIsComplete DEF RunIsSound
  <1> QED BY <1>1, CueInvariance, PTL

-----------------------------------------------------------------------------
\* A call adds no unmet dependency when what it puts in progress has none and
\* what it takes back is required by nothing in progress.
LEMMA NoNewUnmet ==
    ASSUME UNCHANGED sheet,
           \A c, d \in Cues :
               /\ d \in sheet.requires[c]
               /\ states'[c] \in {"standby", "fired", "completed", "failed"}
               /\ states'[d] \notin Done
               => /\ states[c] \in {"standby", "fired", "completed", "failed"}
                  /\ states[d] \notin Done
    PROVE  Unmet' \subseteq Unmet
  BY DEF Unmet, Cues

\* Of the calls of an operator only a forced GO does.
LEMMA OperatorMeets ==
    ASSUME CueInv, NEW c \in Cues, Operate(c), ~Go(c, TRUE)
    PROVE  Unmet' \subseteq Unmet
  <1>1. UNCHANGED sheet
    BY DEF Operate, Arm, Disarm, Standby, Go, Complete, Fail, Skip, Reset
  <1>2. states \in [Cues -> States]
    BY RunIs
  <1>3. CASE Arm(c) \/ Disarm(c)
    BY <1>1, <1>3, NoNewUnmet DEF Arm, Disarm
  <1>4. CASE Standby(c)
    BY <1>1, <1>2, <1>4, NoNewUnmet DEF Standby, Blocked, Done
  <1>5. ASSUME NEW s \in {"fired", "completed", "failed", "skipped"},
               states' = [states EXCEPT ![c] = s],
               \/ states[c] \in {"standby", "fired"} /\ s \in {"fired", "completed", "failed"}
               \/ s = "skipped" /\ states[c] \in {"pending", "standby"}
        PROVE  Unmet' \subseteq Unmet
    BY <1>1, <1>2, <1>5, NoNewUnmet DEF Done
  <1>6. CASE Complete(c)
    BY <1>5, <1>6 DEF Complete
  <1>7. CASE Fail(c)
    BY <1>5, <1>7 DEF Fail
  <1>8. CASE Skip(c)
    BY <1>5, <1>8 DEF Skip
  <1>9. CASE Go(c, FALSE)
    BY <1>5, <1>9 DEF Go
  <1>10. ASSUME NEW cascade \in BOOLEAN, Reset(c, cascade) PROVE Unmet' \subseteq Unmet
    <2> DEFINE affected == {c} \cup (IF cascade THEN Dependants(sheet, c) ELSE {})
    <2>1. /\ states' = [d \in Cues |-> IF d \in affected THEN "pending" ELSE states[d]]
          /\ cascade \/ \A d \in Dependants(sheet, c) : states[d] = "pending"
      BY <1>10 DEF Reset
    <2>2. ASSUME NEW e \in Cues, NEW d \in Cues, d \in sheet.requires[e], d \in affected
          PROVE  e \in affected \/ states[e] = "pending"
      <3>1. e \in Dependants(sheet, c)
        <4>1. sheet.requires[e] \cap (Dependants(sheet, c) \cup {c}) # {}
          BY <2>2
        <4>2. e \in sheet.cues
          BY DEF Cues
        <4> QED BY <4>1, <4>2, DependantsAreClosed
      <3> QED BY <2>1, <3>1
    <2> HIDE DEF affected
    <2> QED BY <1>1, <1>2, <2>1, <2>2, NoNewUnmet
  <1> QED BY <1>3, <1>4, <1>6, <1>7, <1>8, <1>9, <1>10 DEF Operate

\* The poll puts a cue on stage only when what it requires is done.
LEMMA PollMeets ==
    ASSUME CueInv, FollowPasses \/ FollowCompletes \/ FollowFires \/ FollowRaises
    PROVE  Unmet' \subseteq Unmet
  <1>1. /\ follow # None /\ follow \in [cue : Cues, moment : Times] /\ UNCHANGED sheet
        /\ states \in [Cues -> States]
    BY RunIs DEF CueInv, TypeOK, FollowPasses, FollowCompletes, FollowFires, FollowRaises
  <1> DEFINE next == NextCue
  <1>2. PICK c \in Cues : follow.cue = c
    BY <1>1
  <1>3. NextIsReady => /\ next \in Cues /\ next > c /\ next # c
                       /\ states[next] = "pending" /\ ~Blocked(Elapsed, next)
    <2>1. c \in Nat
      BY SheetIs DEF CueInv
    <2> QED BY <1>2, <2>1, CueOrder DEF CueInv, NextIsReady, NextCue
  <1>4. Elapsed = [states EXCEPT ![c] = "completed"]
    BY <1>2 DEF Elapsed
  <1> HIDE DEF next
  <1>5. CASE FollowPasses
    BY <1>1, <1>5, NoNewUnmet DEF FollowPasses
  <1>6. CASE FollowCompletes
    <2>1. states' = [states EXCEPT ![c] = "completed"] /\ states[c] = "fired"
      BY <1>2, <1>4, <1>6 DEF FollowCompletes, Due
    <2> QED BY <1>1, <2>1, NoNewUnmet DEF Done
  <1>7. ASSUME NEW s \in {"fired", "standby"}, NextIsReady, states[c] = "fired",
               states' = [Elapsed EXCEPT ![next] = s]
        PROVE  Unmet' \subseteq Unmet
    <2>1. /\ states'[c] = "completed" /\ states'[next] = s
          /\ \A d \in Cues \ {c, next} : states'[d] = states[d]
      BY <1>1, <1>3, <1>4, <1>7
    <2>2. \A d \in sheet.requires[next] : Elapsed[d] \in Done
      BY <1>3, <1>7 DEF Blocked
    <2>3. ASSUME NEW e \in Cues, NEW d \in Cues, d \in sheet.requires[e],
                 states'[e] \in {"standby", "fired", "completed", "failed"},
                 states'[d] \notin Done
          PROVE  /\ states[e] \in {"standby", "fired", "completed", "failed"}
                 /\ states[d] \notin Done
      <3>1. d # c /\ states[d] \notin Done
        BY <1>3, <1>7, <2>1, <2>3 DEF Done
      <3>2. e # next
        BY <1>1, <1>4, <2>2, <2>3, <3>1
      <3> QED BY <1>7, <2>1, <2>3, <3>1, <3>2
    <2> QED BY <1>1, <2>3, NoNewUnmet
  <1>8. CASE FollowFires
    BY <1>2, <1>7, <1>8 DEF FollowFires, Due, next
  <1>9. CASE FollowRaises
    BY <1>2, <1>7, <1>9 DEF FollowRaises, Due, next
  <1> QED BY <1>5, <1>6, <1>8, <1>9

\* Only a forced GO or a restore puts a cue ahead of what it requires.
THEOREM DependenciesMet == Spec => DependenciesStayMet
  <1> DEFINE Meets == Unmet' \subseteq Unmet \/ Restore \/ \E c \in Cues : Go(c, TRUE)
  <1>1. CueInv /\ [Next]_vars => [Meets]_vars
    <2> SUFFICES ASSUME CueInv, Next PROVE Meets
      OBVIOUS
    <2>1. ASSUME NEW c \in Cues, Operate(c) PROVE Meets
      BY <2>1, OperatorMeets
    <2>2. ASSUME FollowPasses \/ FollowCompletes \/ FollowFires \/ FollowRaises PROVE Meets
      BY <2>2, PollMeets
    <2>3. CASE \/ Start \/ TakeSnapshot \/ Tick
               \/ \E allow_incomplete \in BOOLEAN : End(allow_incomplete)
               \/ \E moment \in Times : StartFollows(moment)
      BY <2>3, NoNewUnmet DEF Start, End, StartFollows, TakeSnapshot, Tick
    <2>4. CASE Restart
      BY <2>4, FreshIs DEF Restart, Becomes, Unmet, Cues
    <2> QED BY <2>1, <2>2, <2>3, <2>4 DEF Next
  <1> QED BY <1>1, CueInvariance, PTL DEF Spec, DependenciesStayMet

\* A critical cue is fired with its arm on, by an operator or by the poll, and
\* the arm is off afterwards.
THEOREM FiringArmed == Spec => FiringUsesTheArm
  <1> DEFINE Uses == \A c \in sheet.critical :
                        states[c] # "fired" /\ states'[c] = "fired" /\ ~Restore
                          => c \in armed /\ c \notin armed'
  <1>1. CueInv /\ [Next]_vars => [Uses]_vars
    <2> SUFFICES ASSUME CueInv, Next, NEW c \in sheet.critical,
                        states[c] # "fired", states'[c] = "fired", ~Restore
                 PROVE  c \in armed /\ c \notin armed'
      OBVIOUS
    <2>1. c \in Cues /\ states \in [Cues -> States]
      BY SheetIs, RunIs DEF CueInv
    <2>2. ASSUME NEW d \in Cues, Operate(d) PROVE c \in armed /\ c \notin armed'
      <3>1. CASE \E force \in BOOLEAN : Go(d, force)
        BY <2>1, <3>1 DEF Go, ArmedIfCritical
      <3>2. CASE Arm(d) \/ Disarm(d) \/ Standby(d) \/ Complete(d) \/ Fail(d) \/ Skip(d)
        BY <2>1, <3>2 DEF Arm, Disarm, Standby, Complete, Fail, Skip
      <3>3. CASE \E cascade \in BOOLEAN : Reset(d, cascade)
        BY <2>1, <3>3 DEF Reset
      <3> QED BY <2>2, <3>1, <3>2, <3>3 DEF Operate
    <2>3. Elapsed = [states EXCEPT ![follow.cue] = "completed"]
      BY DEF Elapsed
    <2>4. CASE FollowFires
      <3>1. c = NextCue
        BY <2>1, <2>3, <2>4 DEF FollowFires
      <3> QED BY <2>4, <3>1 DEF FollowFires, ArmedIfCritical
    <2>5. CASE FollowPasses \/ FollowCompletes \/ FollowRaises
      BY <2>1, <2>3, <2>5 DEF FollowPasses, FollowCompletes, FollowRaises
    <2>6. CASE Restart
      BY <2>1, <2>6, FreshIs DEF Restart, Becomes
    <2>7. CASE \/ Start \/ TakeSnapshot \/ Tick
               \/ \E allow_incomplete \in BOOLEAN : End(allow_incomplete)
               \/ \E moment \in Times : StartFollows(moment)
      BY <2>7 DEF Start, End, StartFollows, TakeSnapshot, Tick
    <2> QED BY <2>2, <2>4, <2>5, <2>6, <2>7 DEF Next
  <1> QED BY <1>1, CueInvariance, PTL DEF Spec, FiringUsesTheArm

\* A poll that returns leaves nothing due at its moment.
THEOREM FollowsDrained == Spec => FollowsAreDrained
  <1> DEFINE Drains == \A moment \in Times :
                          /\ follow # None /\ follow.moment = moment /\ follow' = None
                          /\ ~FollowRaises /\ ~Restart
                          => \A c \in Cues : ~Due(c, moment)'
  <1>1. CueInv /\ [Next]_vars => [Drains]_vars
    <2> SUFFICES ASSUME CueInv, Next, NEW m \in Times,
                        follow # None, follow.moment = m, follow' = None,
                        ~FollowRaises, ~Restart
                 PROVE  \A c \in Cues : ~Due(c, m)'
      OBVIOUS
    <2>1. ~\E c \in Cues : Operate(c)
      BY DEF Operate, Running, Arm, Disarm, Standby, Go, Complete, Fail, Skip, Reset
    <2>2. ~(\/ Start \/ TakeSnapshot \/ Restore \/ Tick
            \/ \E allow_incomplete \in BOOLEAN : End(allow_incomplete)
            \/ \E moment \in Times : StartFollows(moment))
      BY DEF Start, End, StartFollows, TakeSnapshot, Restore, Tick, Running
    <2> QED BY <2>1, <2>2, PollKeeps DEF Next
  <1> QED BY <1>1, CueInvariance, PTL DEF Spec, FollowsAreDrained
=============================================================================
