-------------------------- MODULE OperationsProofs ---------------------------
(***************************************************************************)
(* Proofs about FileLock and about what runs beside the delivery of one    *)
(* task (Operations): the worktrees, the bootstrap, the model proxy's      *)
(* startup, the task pipelines, the two copies of a task, the recovery     *)
(* after a stop and the image updates.  They share no state, and each      *)
(* theorem is about one of them: it holds for any behaviour of that one,   *)
(* whatever the others do.                                                 *)
(***************************************************************************)
EXTENDS FileLock, Operations, Integers, FiniteSets, FiniteSetTheorems, WellFoundedInduction, TLAPS

------------------------------------------------------------------------------
(* FileLock.  As long as no recovery has moved aside a fresh lock, the     *)
(* file at the path is the one of the process that works under it, and so  *)
(* far from its expiry that the process renews it in time however late     *)
(* each of its steps comes.                                                *)

\* What is left of the file of a process that has renewed it, and of one that
\* has slept for an interval since.
Renewed == TTL - MaxStall
Slept == TTL - Interval - 2 * MaxStall

\* The file of a process that is acquiring, holding or releasing the lock.
Covered(p) ==
    /\ pc[p] = "writing" => file = Empty(p)
    /\ pc[p] = "holding" => Owns(p) /\ file.left >= Renewed - clock[p]
    /\ pc[p] \in {"renewing", "unlink"} => Owns(p) /\ file.left >= Slept - clock[p]

IInv == TypeOK /\ (raced \/ \A p \in Process : Covered(p))

USE DEF TypeOK, PC, MaxClock

------------------------------------------------------------------------------
(* Type correctness.                                                       *)

LEMMA GotoType ==
    ASSUME TypeOK, NEW p \in Process, NEW point \in PC, Goto(p, point)
    PROVE  /\ pc' \in [Process -> PC]
           /\ clock' \in [Process -> Nat]
           /\ \A q \in Process : clock'[q] <= MaxClock(pc'[q])
BY TimingAssumption, SMTT(30) DEF Goto

LEMMA TypeInvariant == TypeOK /\ [Next]_vars => TypeOK'
<1> SUFFICES ASSUME TypeOK, [Next]_vars PROVE TypeOK'
  OBVIOUS
<1>1. ASSUME NEW p \in Process, Begin(p) PROVE TypeOK'
  BY <1>1, GotoType DEF Begin
<1>2. ASSUME NEW p \in Process, Create(p) PROVE TypeOK'
  <2>1. Goto(p, "writing")
    BY <1>2 DEF Create
  <2> QED BY <1>2, <2>1, GotoType, TimingAssumption DEF Create, Empty
<1>3. ASSUME NEW p \in Process, WriteMeta(p) PROVE TypeOK'
  <2>1. Goto(p, "holding")
    BY <1>3 DEF WriteMeta
  <2>2. TTL - clock[p] \in 0 .. TTL
    BY <1>3, TimingAssumption DEF WriteMeta
  <2> QED BY <1>3, <2>1, <2>2, GotoType DEF WriteMeta, Held
<1>4. ASSUME NEW p \in Process, Look(p) PROVE TypeOK'
  BY <1>4, GotoType DEF Look
<1>5. ASSUME NEW p \in Process, GiveUp(p) PROVE TypeOK'
  BY <1>5, GotoType DEF GiveUp
<1>6. ASSUME NEW p \in Process, Recover(p) PROVE TypeOK'
  <2>1. PICK point \in PC : Goto(p, point)
    BY <1>6 DEF Recover
  <2>2. file' \in {file, Absent} /\ raced' \in BOOLEAN /\ crashes' = crashes
    BY <1>6 DEF Recover, is_expired
  <2> QED BY <2>1, <2>2, GotoType, TimingAssumption DEF Absent
<1>7. ASSUME NEW p \in Process, RenewRead(p) PROVE TypeOK'
  <2>1. PICK point \in PC : Goto(p, point)
    BY <1>7 DEF RenewRead
  <2> QED BY <1>7, <2>1, GotoType DEF RenewRead
<1>8. ASSUME NEW p \in Process, RenewWrite(p) PROVE TypeOK'
  <2>1. Goto(p, "holding")
    BY <1>8 DEF RenewWrite
  <2>2. TTL - clock[p] \in 0 .. TTL
    BY <1>8, TimingAssumption DEF RenewWrite
  <2> QED BY <1>8, <2>1, <2>2, GotoType DEF RenewWrite, Held
<1>9. ASSUME NEW p \in Process, ReleaseRead(p) PROVE TypeOK'
  <2>1. PICK point \in PC : Goto(p, point)
    BY <1>9 DEF ReleaseRead
  <2> QED BY <1>9, <2>1, GotoType DEF ReleaseRead
<1>10. ASSUME NEW p \in Process, ReleaseUnlink(p) PROVE TypeOK'
  <2>1. Goto(p, "idle")
    BY <1>10 DEF ReleaseUnlink
  <2> QED BY <1>10, <2>1, GotoType, TimingAssumption DEF ReleaseUnlink, Absent
<1>11. ASSUME NEW p \in Process, Crash(p) PROVE TypeOK'
  <2>1. Goto(p, "idle")
    BY <1>11 DEF Crash
  <2> QED BY <1>11, <2>1, GotoType, CrashAssumption DEF Crash
<1>12. CASE Tick
  <2>1. file' \in [state : {"absent", "empty", "held"},
                   by : Process \cup {Nobody}, left : 0 .. TTL]
    BY <1>12, TimingAssumption DEF Tick
  <2>2. clock' \in [Process -> Nat]
    BY <1>12 DEF Tick
  <2>3. ASSUME NEW q \in Process PROVE clock'[q] <= MaxClock(pc'[q])
    BY <1>12, TimingAssumption DEF Tick, Timed
  <2> QED BY <1>12, <2>1, <2>2, <2>3 DEF Tick
<1>13. CASE UNCHANGED vars
  BY <1>13 DEF vars
<1> QED BY <1>1, <1>2, <1>3, <1>4, <1>5, <1>6, <1>7, <1>8, <1>9, <1>10, <1>11, <1>12, <1>13
        DEF Next, Acquire, Renew, Release

LEMMA InitType == Init => TypeOK
<1> SUFFICES ASSUME Init PROVE TypeOK
  OBVIOUS
<1>1. file \in [state : {"absent", "empty", "held"},
                by : Process \cup {Nobody}, left : 0 .. TTL]
  BY TimingAssumption DEF Init, Absent
<1>2. pc \in [Process -> PC] /\ clock \in [Process -> Nat]
  BY DEF Init
<1>3. \A p \in Process : clock[p] <= MaxClock(pc[p])
  <2>1. \A p \in Process : pc[p] = "idle" /\ clock[p] = 0
    BY DEF Init
  <2>2. MaxClock("idle") = 0
    OBVIOUS
  <2>3. 0 <= 0
    OBVIOUS
  <2>4. \A p \in Process : clock[p] <= 0
    BY <2>1, <2>3
  <2> QED BY <2>1, <2>2, <2>4
<1>4. raced \in BOOLEAN
  BY DEF Init
<1>5. crashes \in 0 .. MaxCrashes
  <2>1. crashes = 0
    BY DEF Init
  <2> QED BY <2>1, CrashAssumption
<1> QED BY <1>1, <1>2, <1>3, <1>4, <1>5

\* The lock file, the processes and their clocks keep their types; no call is
\* later than its bound.
THEOREM TypeCorrect == Spec => []TypeOK
BY InitType, TypeInvariant, PTL DEF Spec

------------------------------------------------------------------------------
(* Mutual exclusion.                                                       *)

\* What covers a process is neither expired nor absent.
LEMMA CoveredFresh ==
    ASSUME TypeOK, NEW p \in Process, Covered(p),
           pc[p] \in {"writing", "holding", "renewing", "unlink"}
    PROVE  file.state # "absent" /\ file.by = p /\ ~is_expired(file)
BY TimingAssumption, SMTT(30) DEF Covered, Owns, Empty, Renewed, Slept, is_expired

\* A process that stays where it is, under the same file, stays covered.
LEMMA CoveredStays ==
    ASSUME TypeOK, NEW p \in Process, Covered(p),
           file' = file, pc'[p] = pc[p], clock'[p] = clock[p]
    PROVE  Covered(p)'
BY DEF Covered, Owns, Empty, Renewed, Slept

\* A process that has nothing to do with the file needs no cover.
LEMMA CoveredElsewhere ==
    ASSUME NEW p \in Process, pc'[p] \in {"idle", "trying", "stale"}
    PROVE  Covered(p)'
BY DEF Covered

LEMMA InductiveInvariant == IInv /\ [Next]_vars => IInv'
<1> SUFFICES ASSUME IInv, [Next]_vars, ~raced', NEW q \in Process
             PROVE  Covered(q)'
  BY TypeInvariant DEF IInv
<1> USE DEF IInv, Goto
<1>0. TypeOK' /\ (~raced => \A p \in Process : Covered(p))
  BY TypeInvariant
<1>1. ASSUME NEW p \in Process, Begin(p) PROVE Covered(q)'
  BY <1>0, <1>1, CoveredStays, CoveredElsewhere DEF Begin
<1>2. ASSUME NEW p \in Process, Create(p) PROVE Covered(q)'
  <2>1. CASE q = p
    BY <1>2, <2>1 DEF Create, Covered
  <2>2. CASE q # p
    BY <1>0, <1>2, <2>2, CoveredFresh, CoveredElsewhere DEF Create
  <2> QED BY <2>1, <2>2
<1>3. ASSUME NEW p \in Process, WriteMeta(p) PROVE Covered(q)'
  <2>1. Covered(p) /\ Covered(q) /\ file = Empty(p) /\ file' = Held(p, TTL - clock[p])
    BY <1>0, <1>3 DEF WriteMeta, Covered
  <2>2. CASE q = p
    BY <1>3, <2>1, <2>2, TimingAssumption DEF WriteMeta, Covered, Owns, Held, Renewed
  <2>3. CASE q # p
    BY <1>3, <2>1, <2>3, CoveredFresh, CoveredElsewhere DEF WriteMeta, Empty
  <2> QED BY <2>2, <2>3
<1>4. ASSUME NEW p \in Process, Look(p) PROVE Covered(q)'
  BY <1>0, <1>4, CoveredStays, CoveredElsewhere DEF Look
<1>5. ASSUME NEW p \in Process, GiveUp(p) PROVE Covered(q)'
  BY <1>0, <1>5, CoveredStays, CoveredElsewhere DEF GiveUp
<1>6. ASSUME NEW p \in Process, Recover(p) PROVE Covered(q)'
  <2>1. CASE q = p
    BY <1>6, <2>1, CoveredElsewhere DEF Recover
  <2>2. CASE q # p
    BY <1>0, <1>6, <2>2, CoveredFresh, CoveredStays, CoveredElsewhere DEF Recover
  <2> QED BY <2>1, <2>2
<1>7. ASSUME NEW p \in Process, RenewRead(p) PROVE Covered(q)'
  <2>1. CASE q = p
    BY <1>0, <1>7, <2>1, TimingAssumption DEF RenewRead, Covered, Owns, Renewed, Slept
  <2>2. CASE q # p
    BY <1>0, <1>7, <2>2, CoveredStays DEF RenewRead
  <2> QED BY <2>1, <2>2
<1>8. ASSUME NEW p \in Process, RenewWrite(p) PROVE Covered(q)'
  <2>1. CASE q = p
    BY <1>8, <2>1, TimingAssumption DEF RenewWrite, Covered, Owns, Held, Renewed
  <2>2. CASE q # p
    BY <1>0, <1>8, <2>2, CoveredFresh, CoveredElsewhere DEF RenewWrite
  <2> QED BY <2>1, <2>2
<1>9. ASSUME NEW p \in Process, ReleaseRead(p) PROVE Covered(q)'
  <2>1. CASE q = p
    BY <1>0, <1>9, <2>1, TimingAssumption DEF ReleaseRead, Covered, Owns, Renewed, Slept
  <2>2. CASE q # p
    BY <1>0, <1>9, <2>2, CoveredStays DEF ReleaseRead
  <2> QED BY <2>1, <2>2
<1>10. ASSUME NEW p \in Process, ReleaseUnlink(p) PROVE Covered(q)'
  BY <1>0, <1>10, CoveredFresh, CoveredElsewhere DEF ReleaseUnlink
<1>11. ASSUME NEW p \in Process, Crash(p) PROVE Covered(q)'
  BY <1>0, <1>11, CoveredStays, CoveredElsewhere DEF Crash
<1>12. CASE Tick
  <2>1. Covered(q) /\ pc' = pc
    BY <1>0, <1>12 DEF Tick
  <2>2. CASE pc[q] \in {"idle", "trying", "stale"}
    BY <2>1, <2>2, CoveredElsewhere
  <2>3. CASE pc[q] = "writing"
    BY <1>12, <2>1, <2>3 DEF Tick, Covered, Empty
  <2>4. CASE pc[q] = "holding"
    <3>1. clock'[q] = clock[q] + 1 /\ clock[q] < Interval + MaxStall
      BY <1>12, <2>4 DEF Tick, Timed
    <3>2. file.left > 0 /\ file'.left = file.left - 1 /\ file'.state = file.state /\ file'.by = file.by
      BY <1>12, <2>1, <2>4, <3>1, TimingAssumption DEF Tick, Covered, Renewed
    <3> QED BY <2>1, <2>4, <3>1, <3>2, TimingAssumption DEF Covered, Owns, Renewed
  <2>5. CASE pc[q] \in {"renewing", "unlink"}
    <3>1. clock'[q] = clock[q] + 1 /\ clock[q] < MaxStall
      BY <1>12, <2>5 DEF Tick, Timed
    <3>2. file.left > 0 /\ file'.left = file.left - 1 /\ file'.state = file.state /\ file'.by = file.by
      BY <1>12, <2>1, <2>5, <3>1, TimingAssumption DEF Tick, Covered, Slept
    <3> QED BY <2>1, <2>5, <3>1, <3>2, TimingAssumption DEF Covered, Owns, Slept
  <2> QED BY <2>2, <2>3, <2>4, <2>5
<1>13. CASE UNCHANGED vars
  BY <1>0, <1>13, CoveredStays DEF vars
<1> QED BY <1>1, <1>2, <1>3, <1>4, <1>5, <1>6, <1>7, <1>8, <1>9, <1>10, <1>11, <1>12, <1>13
        DEF Next, Acquire, Renew, Release

\* Two processes hold the lock at once only after a recovery has moved aside a
\* lock that was not expired: without crashes never, and with crashes not as
\* long as one process at a time finds an expired lock.
THEOREM Exclusive == Spec => []HoldersExclusive
<1>1. Init => IInv
  BY InitType DEF IInv, Init, Covered
<1>2. IInv => HoldersExclusive
  BY CoveredFresh DEF IInv, HoldersExclusive, Holds
<1> QED BY <1>1, <1>2, InductiveInvariant, PTL DEF Spec

------------------------------------------------------------------------------
(* Sets of numbers.                                                        *)

\* A set of numbers has a least one.
LEMMA Least ==
    ASSUME NEW S \in SUBSET Nat, S # {}
    PROVE  \E x \in S : \A y \in S : x <= y
  <1> DEFINE Segments == {1 .. x : x \in S}
  <1>1. \A x \in S : 1 .. x \in FiniteSubsetsOf(Nat)
    <2> TAKE x \in S
    <2>1. x \in Nat /\ 1 \in Int /\ x \in Int
      OBVIOUS
    <2>2. IsFiniteSet(1 .. x)
      BY <2>1, FS_Interval
    <2>3. 1 .. x \subseteq Nat
      BY <2>1
    <2> QED
      BY <2>2, <2>3 DEF FiniteSubsetsOf
  <1>2. Segments \subseteq FiniteSubsetsOf(Nat) /\ Segments # {}
    BY <1>1
  <1>3. PICK I \in Segments : \A J \in Segments : ~ (<<J, I>> \in StrictSubsetOrdering(Nat))
    BY <1>2, FS_StrictSubsetOrderingWellFounded, WFMin
  <1>4. PICK x \in S : I = 1 .. x
    BY <1>3
  <1>5. ASSUME NEW y \in S, ~(x <= y) PROVE FALSE
    <2>1. x \in 1 .. x /\ x \notin 1 .. y /\ 1 .. y \subseteq 1 .. x
      BY <1>5
    <2>2. 1 .. y \in SUBSET Nat /\ 1 .. x \in SUBSET Nat
      OBVIOUS
    <2>3. 1 .. y # 1 .. x
      BY <2>1, Zenon
    <2>4. <<1 .. y, 1 .. x>> \in StrictSubsetOrdering(Nat)
      BY <2>1, <2>2, <2>3 DEF StrictSubsetOrdering
    <2> QED
      BY <1>3, <1>4, <2>4
  <1> QED
    BY <1>4, <1>5

\* One with a bound has a greatest one.
LEMMA Greatest ==
    ASSUME NEW m \in Nat, NEW S \in SUBSET (0 .. m), S # {}
    PROVE  \E x \in S : \A y \in S : y <= x
  <1> DEFINE D == {m - x : x \in S}
  <1>1. D \in SUBSET Nat /\ D # {}
    <2>1. \A x \in S : m - x \in Nat
      OBVIOUS
    <2> QED
      BY <2>1
  <1>2. PICK d \in D : \A e \in D : d <= e
    BY <1>1, Least
  <1>3. PICK x \in S : d = m - x
    BY <1>2
  <1>4. ASSUME NEW y \in S PROVE y <= x
    <2>1. m - y \in D /\ d <= m - y
      BY <1>2
    <2> QED
      BY <1>3, <2>1
  <1> QED
    BY <1>4

------------------------------------------------------------------------------
(* Worktrees.  Everything in a directory was made by tasks whose names     *)
(* come to it, and so was everything on the branch it has checked out      *)
(* (Own).  A task that has its directory for itself builds on what it has  *)
(* pushed: its branch is set back only before its first push (Alone).      *)

NamesOfTasks ==
    /\ RootOf \in [CodingTask -> Root] /\ Allowed \in [CodingTask -> SUBSET Path] /\ Legacy \subseteq CodingTask
    /\ {"none", "files"} \cap CodingTask = {} /\ NoBranch \notin SUBSET W!Edit

\* A change that may be on the branch of t.
OfSharers(t, e) == e[1] \in W!Sharing(t) /\ \E o \in W!Sharing(t) : e[2] \in Allowed[o]

Own ==
    /\ \A r \in Root : dir[r] \in CodingTask => RootOf[dir[r]] = r /\ branch[dir[r]] \subseteq W!Edit
    /\ \A t \in Legacy : branch[t] \subseteq W!Edit
    /\ \A r \in Root : \A e \in dirty[r] : RootOf[e[1]] = r
    /\ \A t \in CodingTask : branch[t] \subseteq W!Edit => \A e \in branch[t] : OfSharers(t, e)
    /\ \A t \in CodingTask : \A e \in wremote[t] : OfSharers(t, e)

Alone ==
    \A t \in CodingTask : W!Sharing(t) = {t} =>
      /\ wpc[t] \in {"work", "commit", "push"} => dir[RootOf[t]] = t
      /\ dir[RootOf[t]] # t => released[t] = {} /\ staged[t] = {}
      /\ dir[RootOf[t]] = t => released[t] \subseteq branch[t] /\ staged[t] \subseteq branch[t]
      /\ released[t] \subseteq wremote[t]

Moving == \A t \in CodingTask : wpc[t] = "move" => t \in old

WInv == W!TypeOK /\ Own /\ Alone /\ Moving

LEMMA WorktreesInit ==
    ASSUME NamesOfTasks, W!Init
    PROVE  WInv
  <1>1. W!TypeOK
    BY DEF W!TypeOK, W!Init, NamesOfTasks
  <1>2. Own
    BY DEF W!Init, Own, NamesOfTasks
  <1>3. Alone
    BY DEF W!Init, Alone, NamesOfTasks
  <1>4. Moving
    BY DEF W!Init, Moving
  <1> QED
    BY <1>1, <1>2, <1>3, <1>4 DEF WInv

\* What a step makes of one directory, and of one task, decides.
LEMMA WorktreesNext ==
    ASSUME NamesOfTasks, WInv, [W!Next]_(W!vars)
    PROVE  WInv'
  <1> USE DEF NamesOfTasks
  <1> DEFINE rt(t) == RootOf[t]
  <1>0. W!TypeOK /\ Own /\ Alone /\ Moving
    BY DEF WInv
  <1>1. ASSUME NEW t \in CodingTask, W!ensure_task_worktree(t) \/ W!StagesFail(t) \/ W!StartRelease(t)
        PROVE  WInv'
    <2>1. /\ UNCHANGED <<dir, dirty, branch, wremote, staged, released, old, edits>>
          /\ tries' \in [CodingTask -> Nat]
      BY <1>0, <1>1 DEF W!ensure_task_worktree, W!StagesFail, W!StartRelease, W!TypeOK
    <2>2. PICK l \in {"idle", "move", "add", "work", "commit"} :
            /\ wpc' = [wpc EXCEPT ![t] = l]
            /\ l = "work" => dir[RootOf[t]] \in CodingTask
            /\ l = "move" => t \in old
            /\ l = "commit" => wpc[t] = "work"
      BY <1>0, <1>1 DEF W!ensure_task_worktree, W!StagesFail, W!StartRelease, W!Goto,
           W!worktree_root, W!normalize_worktree_hint
    <2>3. W!TypeOK'
      BY <1>0, <2>1, <2>2 DEF W!TypeOK, W!Edit
    <2>4. Own'
      BY <1>0, <2>1 DEF Own, OfSharers, W!Sharing, W!Edit
    <2>5. ASSUME W!Sharing(t) = {t}, dir[RootOf[t]] \in CodingTask PROVE dir[RootOf[t]] = t
      BY <1>0, <2>5 DEF Own, W!Sharing
    <2>6. Alone'
      BY <1>0, <2>1, <2>2, <2>5 DEF Alone, W!Sharing, W!TypeOK
    <2>7. Moving'
      BY <1>0, <2>1, <2>2 DEF Moving, W!TypeOK
    <2> QED
      BY <2>3, <2>4, <2>6, <2>7 DEF WInv
  <1>2. ASSUME NEW t \in CodingTask, W!move_worktree_root(t) \/ W!worktree_add(t)
        PROVE  WInv'
    <2>1. UNCHANGED <<dirty, wremote, staged, released, tries, edits>>
      BY <1>2 DEF W!move_worktree_root, W!worktree_add
    <2>2. \/ UNCHANGED <<dir, old, branch>> /\ wpc' = [wpc EXCEPT ![t] = "idle"]
          \/ /\ dir[RootOf[t]] = "none" /\ dir' = [dir EXCEPT ![RootOf[t]] = t]
             /\ old \ {t} \subseteq old' /\ old' \subseteq old /\ wpc' = [wpc EXCEPT ![t] = "work"]
             /\ \/ branch' = branch /\ t \in old
                \/ branch' = [branch EXCEPT ![t] = {}]
      <3>1. CASE W!move_worktree_root(t)
        BY <1>0, <3>1 DEF Moving, W!move_worktree_root, W!Goto, W!TypeOK, W!worktree_root,
             W!normalize_worktree_hint
      <3>2. CASE W!worktree_add(t)
        BY <1>0, <3>2 DEF W!worktree_add, W!Goto, W!TypeOK, W!worktree_root,
             W!normalize_worktree_hint
      <3> QED
        BY <1>2, <3>1, <3>2
    <2>3. W!TypeOK'
      <3>1. /\ dir' \in [Root -> {"none", "files"} \cup CodingTask] /\ old' \subseteq Legacy
            /\ wpc' \in [CodingTask -> {"idle", "move", "add", "work", "commit", "push"}]
        BY <1>0, <2>2 DEF W!TypeOK
      <3>2. branch' \in [CodingTask -> {NoBranch} \cup SUBSET W!Edit]
        BY <1>0, <2>2 DEF W!TypeOK
      <3> QED
        BY <1>0, <2>1, <3>1, <3>2 DEF W!TypeOK, W!Edit
    <2>4. Own'
      <3>1. \A r \in Root : dir'[r] \in CodingTask => RootOf[dir'[r]] = r /\ branch'[dir'[r]] \subseteq W!Edit
        BY <1>0, <2>2 DEF Own, W!TypeOK
      <3>2. \A u \in Legacy : branch'[u] \subseteq W!Edit
        BY <1>0, <2>2 DEF Own, W!TypeOK
      <3>3. \A u \in CodingTask : branch'[u] = branch[u] \/ branch'[u] = {}
        BY <1>0, <2>2 DEF W!TypeOK
      <3> QED
        BY <1>0, <2>1, <3>1, <3>2, <3>3 DEF Own, OfSharers, W!Sharing, W!Edit
    <2>5. Alone'
      <3> SUFFICES ASSUME NEW u \in CodingTask, W!Sharing(u) = {u}
                   PROVE  /\ wpc'[u] \in {"work", "commit", "push"} => dir'[RootOf[u]] = u
                          /\ dir'[RootOf[u]] # u => released'[u] = {} /\ staged'[u] = {}
                          /\ dir'[RootOf[u]] = u =>
                               released'[u] \subseteq branch'[u] /\ staged'[u] \subseteq branch'[u]
                          /\ released'[u] \subseteq wremote'[u]
        BY DEF Alone, W!Sharing
      <3>1. CASE u = t
        BY <1>0, <2>1, <2>2, <3>1 DEF Alone, W!TypeOK
      <3>2. CASE u # t
        <4>1. RootOf[u] # RootOf[t]
          BY <3>2 DEF W!Sharing
        <4>2. dir'[RootOf[u]] = dir[RootOf[u]] /\ branch'[u] = branch[u] /\ wpc'[u] = wpc[u]
          BY <1>0, <2>2, <3>2, <4>1 DEF W!TypeOK
        <4> QED
          BY <1>0, <2>1, <4>2 DEF Alone
      <3> QED
        BY <3>1, <3>2
    <2>6. Moving'
      BY <1>0, <2>2 DEF Moving, W!TypeOK
    <2> QED
      BY <2>3, <2>4, <2>5, <2>6 DEF WInv
  <1>3. ASSUME NEW t \in CodingTask, NEW p \in Path, W!Change(t, p)
        PROVE  WInv'
    <2>1. /\ dirty' = [dirty EXCEPT ![RootOf[t]] = @ \cup {<<t, p>>}] /\ edits' = edits + 1
          /\ UNCHANGED <<dir, old, branch, wremote, staged, released, wpc, tries>>
      BY <1>3 DEF W!Change, W!worktree_root, W!normalize_worktree_hint
    <2>2. W!TypeOK'
      BY <1>0, <2>1 DEF W!TypeOK, W!Edit
    <2>3. Own'
      BY <1>0, <2>1 DEF Own, OfSharers, W!Sharing, W!Edit, W!TypeOK
    <2>4. Alone'
      BY <1>0, <2>1 DEF Alone, W!Sharing
    <2>5. Moving'
      BY <1>0, <2>1 DEF Moving
    <2> QED
      BY <2>2, <2>3, <2>4, <2>5 DEF WInv
  <1>4. ASSUME NEW t \in CodingTask, W!Commit(t)
        PROVE  WInv'
    <2> DEFINE r == RootOf[t]
               mine == {e \in dirty[r] : e[2] \in Allowed[t]}
    <2>1. /\ UNCHANGED <<dir, old, wremote, released, tries, edits>> /\ wpc[t] = "commit"
          /\ \/ wpc' = [wpc EXCEPT ![t] = "idle"] /\ UNCHANGED <<dirty, branch, staged>>
             \/ /\ branch' = [branch EXCEPT ![dir[r]] = @ \cup mine]
                /\ dirty' = [dirty EXCEPT ![r] = @ \ mine]
                /\ staged' = [staged EXCEPT ![t] = mine]
                /\ wpc' = [wpc EXCEPT ![t] = "push"]
      BY <1>4 DEF W!Commit, W!Goto, W!worktree_root, W!normalize_worktree_hint
    <2>2. CASE wpc' = [wpc EXCEPT ![t] = "idle"] /\ UNCHANGED <<dirty, branch, staged>>
      <3>1. W!TypeOK'
        BY <1>0, <2>1, <2>2 DEF W!TypeOK, W!Edit
      <3>2. Own'
        BY <1>0, <2>1, <2>2 DEF Own, OfSharers, W!Sharing, W!Edit
      <3>3. Alone'
        BY <1>0, <2>1, <2>2 DEF Alone, W!Sharing, W!TypeOK
      <3>4. Moving'
        BY <1>0, <2>1, <2>2 DEF Moving, W!TypeOK
      <3> QED
        BY <3>1, <3>2, <3>3, <3>4 DEF WInv
    <2>3. CASE /\ branch' = [branch EXCEPT ![dir[r]] = @ \cup mine]
               /\ dirty' = [dirty EXCEPT ![r] = @ \ mine]
               /\ staged' = [staged EXCEPT ![t] = mine]
               /\ wpc' = [wpc EXCEPT ![t] = "push"]
      <3>1. r \in Root /\ mine \subseteq W!Edit
        BY <1>0 DEF W!TypeOK
      <3>2. \A u \in CodingTask : \/ branch'[u] = branch[u]
                                  \/ u = dir[r] /\ branch'[u] = branch[u] \cup mine
                                     /\ branch[u] \subseteq W!Edit /\ RootOf[u] = r
        BY <1>0, <2>3, <3>1 DEF Own, W!TypeOK
      <3>3. W!TypeOK'
        <4>1. branch' \in [CodingTask -> {NoBranch} \cup SUBSET W!Edit]
          <5>1. branch' = [u \in CodingTask |-> branch'[u]]
            BY <1>0, <2>3 DEF W!TypeOK
          <5>2. \A u \in CodingTask : branch'[u] \in {NoBranch} \cup SUBSET W!Edit
            BY <1>0, <3>1, <3>2 DEF W!TypeOK
          <5> QED
            BY <5>1, <5>2
        <4>2. staged' \in [CodingTask -> SUBSET W!Edit] /\ dirty' \in [Root -> SUBSET W!Edit]
          BY <1>0, <2>3, <3>1 DEF W!TypeOK
        <4> QED
          BY <1>0, <2>1, <2>3, <4>1, <4>2 DEF W!TypeOK, W!Edit
      <3>4. Own'
        <4>1. \A q \in Root : dirty'[q] \subseteq dirty[q]
          BY <1>0, <2>3 DEF W!TypeOK
        <4>2. \A u \in CodingTask : branch[u] \subseteq W!Edit => branch'[u] \subseteq W!Edit
          BY <3>1, <3>2
        <4>3. ASSUME NEW u \in CodingTask, branch'[u] \subseteq W!Edit, NEW e \in branch'[u]
              PROVE  OfSharers(u, e)
          <5>1. CASE branch'[u] = branch[u]
            BY <1>0, <4>3, <5>1 DEF Own
          <5>2. CASE e \in branch[u] /\ branch[u] \subseteq W!Edit
            BY <1>0, <5>2 DEF Own
          <5>3. CASE e \in mine /\ RootOf[u] = r
            <6>1. RootOf[e[1]] = r /\ e[1] \in CodingTask /\ e[2] \in Allowed[t]
              BY <1>0, <3>1, <5>3 DEF Own, W!Edit
            <6> QED
              BY <5>3, <6>1 DEF OfSharers, W!Sharing
          <5> QED
            BY <3>2, <4>3, <5>1, <5>2, <5>3
        <4>4. \A u \in CodingTask : \A e \in wremote'[u] : OfSharers(u, e)'
          BY <1>0, <2>1 DEF Own, OfSharers, W!Sharing
        <4>5. \A q \in Root : dir'[q] \in CodingTask => RootOf[dir'[q]] = q /\ branch'[dir'[q]] \subseteq W!Edit
          BY <1>0, <2>1, <4>2 DEF Own
        <4>6. \A u \in Legacy : branch'[u] \subseteq W!Edit
          BY <1>0, <4>2 DEF Own
        <4> QED
          BY <1>0, <4>1, <4>3, <4>4, <4>5, <4>6 DEF Own, OfSharers, W!Sharing, W!Edit
      <3>5. Alone'
        <4> SUFFICES ASSUME NEW u \in CodingTask, W!Sharing(u) = {u}
                     PROVE  /\ wpc'[u] \in {"work", "commit", "push"} => dir'[RootOf[u]] = u
                            /\ dir'[RootOf[u]] # u => released'[u] = {} /\ staged'[u] = {}
                            /\ dir'[RootOf[u]] = u =>
                                 released'[u] \subseteq branch'[u] /\ staged'[u] \subseteq branch'[u]
                            /\ released'[u] \subseteq wremote'[u]
          BY DEF Alone, W!Sharing
        <4>1. branch[u] \subseteq branch'[u]
          BY <3>2
        <4>2. CASE u = t
          <5>1. dir[r] = t
            BY <1>0, <2>1, <4>2 DEF Alone
          <5>2. staged'[t] = mine /\ mine \subseteq branch'[t]
            BY <1>0, <2>3, <3>2, <5>1 DEF W!TypeOK
          <5> QED
            BY <1>0, <2>1, <4>1, <4>2, <5>1, <5>2 DEF Alone
        <4>3. CASE u # t
          <5>1. wpc'[u] = wpc[u] /\ staged'[u] = staged[u]
            BY <1>0, <2>3, <4>3 DEF W!TypeOK
          <5> QED
            BY <1>0, <2>1, <4>1, <5>1 DEF Alone
        <4> QED
          BY <4>2, <4>3
      <3>6. Moving'
        BY <1>0, <2>1, <2>3 DEF Moving, W!TypeOK
      <3> QED
        BY <3>3, <3>4, <3>5, <3>6 DEF WInv
    <2> QED
      BY <2>1, <2>2, <2>3
  <1>5. ASSUME NEW t \in CodingTask, W!Push(t)
        PROVE  WInv'
    <2>1. /\ wpc[t] = "push" /\ wpc' = [wpc EXCEPT ![t] = "idle"]
          /\ staged' = [staged EXCEPT ![t] = {}]
          /\ \/ /\ branch[t] # NoBranch /\ wremote' = [wremote EXCEPT ![t] = branch[t]]
                /\ released' = [released EXCEPT ![t] = @ \cup staged[t]]
             \/ UNCHANGED <<wremote, released>>
          /\ UNCHANGED <<dir, old, dirty, branch, tries, edits>>
      BY <1>5 DEF W!Push, W!Goto
    <2>2. W!TypeOK'
      <3>1. wremote' \in [CodingTask -> SUBSET W!Edit] /\ released' \in [CodingTask -> SUBSET W!Edit]
        BY <1>0, <2>1 DEF W!TypeOK
      <3>2. staged' \in [CodingTask -> SUBSET W!Edit]
        BY <1>0, <2>1 DEF W!TypeOK
      <3> QED
        BY <1>0, <2>1, <3>1, <3>2 DEF W!TypeOK, W!Edit
    <2>3. Own'
      <3>1. \A u \in CodingTask : wremote'[u] = wremote[u] \/ (wremote'[u] = branch[u] /\ branch[u] \subseteq W!Edit)
        BY <1>0, <2>1 DEF W!TypeOK
      <3> QED
        BY <1>0, <2>1, <3>1 DEF Own, OfSharers, W!Sharing, W!Edit
    <2>4. Alone'
      <3> SUFFICES ASSUME NEW u \in CodingTask, W!Sharing(u) = {u}
                   PROVE  /\ wpc'[u] \in {"work", "commit", "push"} => dir'[RootOf[u]] = u
                          /\ dir'[RootOf[u]] # u => released'[u] = {} /\ staged'[u] = {}
                          /\ dir'[RootOf[u]] = u =>
                               released'[u] \subseteq branch'[u] /\ staged'[u] \subseteq branch'[u]
                          /\ released'[u] \subseteq wremote'[u]
        BY DEF Alone, W!Sharing
      <3>1. CASE u = t
        <4>1. dir[RootOf[t]] = t
          BY <1>0, <2>1, <3>1 DEF Alone
        <4>2. wpc'[t] = "idle" /\ staged'[t] = {}
          BY <1>0, <2>1 DEF W!TypeOK
        <4>3. \/ wremote'[t] = branch[t] /\ released'[t] = released[t] \cup staged[t]
              \/ wremote'[t] = wremote[t] /\ released'[t] = released[t]
          BY <1>0, <2>1 DEF W!TypeOK
        <4> QED
          BY <1>0, <2>1, <3>1, <4>1, <4>2, <4>3 DEF Alone
      <3>2. CASE u # t
        <4>1. /\ wpc'[u] = wpc[u] /\ staged'[u] = staged[u]
              /\ wremote'[u] = wremote[u] /\ released'[u] = released[u]
          BY <1>0, <2>1, <3>2 DEF W!TypeOK
        <4> QED
          BY <1>0, <2>1, <4>1 DEF Alone
      <3> QED
        BY <3>1, <3>2
    <2>5. Moving'
      BY <1>0, <2>1 DEF Moving, W!TypeOK
    <2> QED
      BY <2>2, <2>3, <2>4, <2>5 DEF WInv
  <1>6. CASE UNCHANGED W!vars
    <2>1. W!TypeOK'
      BY <1>0, <1>6 DEF W!vars, W!TypeOK, W!Edit
    <2>2. Own'
      BY <1>0, <1>6 DEF W!vars, Own, OfSharers, W!Sharing, W!Edit
    <2>3. Alone'
      BY <1>0, <1>6 DEF W!vars, Alone, W!Sharing
    <2>4. Moving'
      BY <1>0, <1>6 DEF W!vars, Moving
    <2> QED
      BY <2>1, <2>2, <2>3, <2>4 DEF WInv
  <1> QED
    BY <1>1, <1>2, <1>3, <1>4, <1>5, <1>6 DEF W!Next

\* Of any tasks that come to any directories: what is pushed of a task was made by those
\* it shares a worktree with, in their paths, and one that shares it with none has pushed
\* all it released.
THEOREM PushesAreOwn ==
    ASSUME NamesOfTasks
    PROVE  W!Spec => []ReleasesAreOwn
  <1>1. W!Init => WInv
    BY WorktreesInit
  <1>2. WInv /\ [W!Next]_(W!vars) => WInv'
    BY WorktreesNext
  <1>3. WInv => ReleasesAreOwn
    BY DEF WInv, Own, Alone, OfSharers, ReleasesAreOwn, W!ReleasesAreOwn
  <1> QED
    BY <1>1, <1>2, <1>3, PTL DEF W!Spec

\* The worktrees, their branches and what is on them keep their types.
THEOREM WorktreesTyped ==
    ASSUME NamesOfTasks
    PROVE  W!Spec => []W!TypeOK
  <1>1. W!Init => WInv
    BY WorktreesInit
  <1>2. WInv /\ [W!Next]_(W!vars) => WInv'
    BY WorktreesNext
  <1>3. WInv => W!TypeOK
    BY DEF WInv
  <1> QED
    BY <1>1, <1>2, <1>3, PTL DEF W!Spec

------------------------------------------------------------------------------
(* Bootstrap.  A shell whose feet nobody has moved knows something about   *)
(* the process in the pid file: before it writes or unlinks the file, that *)
(* the process has ended (Certain).  So no step of it forgets a live one.  *)

Ended(p) == p = B!None \/ (p \in B!Proc /\ proc[p] \in {"leaving", "killed", "dead"})

\* What a shell is after was born.
Born ==
    /\ pidfile \in B!Proc => proc[pidfile] # "unborn"
    /\ \A s \in Shell :
         /\ bpc[s] = "stop_wait" => bcall[s].pid \in B!Proc /\ proc[bcall[s].pid] # "unborn"
         /\ bpc[s] = "stop_check" => bcall[s].pid \in B!Proc /\ Ended(bcall[s].pid)
         /\ bpc[s] = "write" => bcall[s].child \in B!Proc /\ proc[bcall[s].child] # "unborn"

Certain(s) ==
    /\ bpc[s] \in {"spawn", "write", "stop_unlink"} => Ended(pidfile)
    /\ bpc[s] \in {"stop_wait", "stop_check"} => pidfile = bcall[s].pid

Known == \A s \in Shell : s \notin bstale => Certain(s)

BInv == B!TypeOK /\ Born /\ Known /\ B!Tracked

LEMMA BootstrapInit ==
    ASSUME B!Init
    PROVE  BInv
  <1>1. B!TypeOK
    BY DEF B!Init, B!TypeOK, B!NoCall, B!Call, B!Label, B!After, B!ProcState
  <1>2. Born /\ Known /\ B!Tracked
    BY DEF B!Init, Born, Known, Certain, B!Tracked, B!None, B!Proc
  <1> QED
    BY <1>1, <1>2 DEF BInv

\* A step of one shell that leaves the pid file and the processes alone.
LEMMA QuietStep ==
    ASSUME BInv, NEW s \in Shell, NEW l \in B!Label \ {"write"}, NEW c \in B!Call,
           bpc[s] # "write" \/ loose',
           UNCHANGED <<pidfile, proc>>, termed' \subseteq B!Proc, bfaults' \in Nat,
           bpc' = [bpc EXCEPT ![s] = l], bcall' = [bcall EXCEPT ![s] = c],
           bstale' = bstale \/ bstale' = bstale \ {s}, loose' \in BOOLEAN, loose => loose',
           l = "stop_wait" => c.pid \in B!Proc /\ proc[c.pid] # "unborn",
           l = "stop_check" => c.pid \in B!Proc /\ Ended(c.pid),
           s \notin bstale' /\ l \in {"spawn", "stop_unlink"} => Ended(pidfile),
           s \notin bstale' /\ l \in {"stop_wait", "stop_check"} => pidfile = c.pid
    PROVE  BInv'
  <1>1. B!TypeOK'
    BY DEF BInv, B!TypeOK
  <1>2. bpc'[s] = l /\ bcall'[s] = c
    BY DEF BInv, B!TypeOK
  <1>3. \A u \in Shell : u # s => bpc'[u] = bpc[u] /\ bcall'[u] = bcall[u] /\ (u \in bstale' <=> u \in bstale)
    BY DEF BInv, B!TypeOK
  <1>4. \A p : Ended(p)' <=> Ended(p)
    BY DEF Ended, B!None, B!Proc
  <1>5. Born'
    BY <1>2, <1>3, <1>4 DEF BInv, Born, B!Proc
  <1>6. Known'
    BY <1>2, <1>3, <1>4 DEF BInv, Known, Certain
  <1>7. B!Tracked'
    <2> SUFFICES ASSUME ~loose', NEW p \in B!Proc, proc[p] \in {"booting", "serving"}
                 PROVE  p = pidfile \/ \E u \in Shell : bpc'[u] = "write" /\ bcall'[u].child = p
      BY DEF B!Tracked, B!Proc
    <2>1. p = pidfile \/ \E u \in Shell : bpc[u] = "write" /\ bcall[u].child = p
      BY DEF BInv, B!Tracked
    <2> QED
      BY <1>3, <2>1
  <1> QED
    BY <1>1, <1>5, <1>6, <1>7 DEF BInv

\* A shell writes or unlinks the pid file.
LEMMA FileStep ==
    ASSUME BInv, NEW s \in Shell, NEW l \in B!Label \ {"write", "stop_wait", "stop_check"},
           NEW c \in B!Call, NEW new \in {B!None} \cup B!Proc,
           \/ bpc[s] = "write" /\ new = bcall[s].child /\ l = "wait"
           \/ bpc[s] = "stop_unlink" /\ new = B!None,
           UNCHANGED <<proc, termed, bfaults>>, B!Changes(s, new),
           bpc' = [bpc EXCEPT ![s] = l], bcall' = [bcall EXCEPT ![s] = c]
    PROVE  BInv'
  <1>1. /\ pidfile' = new /\ (loose => loose') /\ (s \in bstale => loose') /\ loose' \in BOOLEAN
        /\ \/ new = pidfile /\ bstale' = bstale \ {s}
           \/ bstale' = {u \in Shell : u # s /\ bpc[u] # "idle"}
    BY DEF B!Changes, BInv, B!TypeOK
  <1>2. B!TypeOK'
    BY <1>1 DEF BInv, B!TypeOK
  <1>3. bpc'[s] = l /\ bcall'[s] = c
    BY DEF BInv, B!TypeOK
  <1>4. \A u \in Shell : u # s => bpc'[u] = bpc[u] /\ bcall'[u] = bcall[u]
    BY DEF BInv, B!TypeOK
  <1>5. \A p : Ended(p)' <=> Ended(p)
    BY DEF Ended, B!None, B!Proc
  <1>6. Born'
    BY <1>1, <1>3, <1>4, <1>5 DEF BInv, Born, B!Proc, B!None
  <1>7. Known'
    <2> SUFFICES ASSUME NEW u \in Shell, u \notin bstale' PROVE Certain(u)'
      BY DEF Known
    <2>1. CASE u = s
      <3>1. bpc'[s] \notin {"stop_wait", "stop_check", "write"}
        BY <1>3
      <3>2. bpc'[s] # "wait" => Ended(pidfile)'
        BY <1>1, <1>3 DEF Ended
      <3> QED
        BY <2>1, <3>1, <3>2 DEF Certain
    <2>2. CASE u # s /\ new = pidfile /\ bstale' = bstale \ {s}
      BY <1>1, <1>4, <1>5, <2>2 DEF Certain, Known, BInv
    <2>3. CASE u # s /\ bstale' = {v \in Shell : v # s /\ bpc[v] # "idle"}
      BY <1>4, <2>3 DEF Certain
    <2> QED
      BY <1>1, <2>1, <2>2, <2>3
  <1>8. B!Tracked'
    <2> SUFFICES ASSUME ~loose', NEW p \in B!Proc, proc[p] \in {"booting", "serving"}
                 PROVE  p = new \/ \E u \in Shell : bpc'[u] = "write" /\ bcall'[u].child = p
      BY <1>1 DEF B!Tracked, B!Proc
    <2>1. Ended(pidfile)
      BY <1>1 DEF BInv, Known, Certain
    <2>2. p # pidfile
      BY <2>1 DEF Ended, B!None, B!Proc
    <2>3. PICK u \in Shell : bpc[u] = "write" /\ bcall[u].child = p
      BY <1>1, <2>2 DEF BInv, B!Tracked
    <2> QED
      BY <1>4, <2>3
  <1> QED
    BY <1>2, <1>6, <1>7, <1>8 DEF BInv

\* What becomes of a process: it never comes back.
LEMMA ProcessStep ==
    ASSUME BInv, NEW q \in B!Proc, NEW x \in B!ProcState \ {"unborn", "booting"},
           proc' = [proc EXCEPT ![q] = x], proc[q] # "unborn",
           proc[q] \in {"leaving", "killed", "dead"} => x \in {"leaving", "killed", "dead"},
           x = "serving" => proc[q] = "booting",
           UNCHANGED <<pidfile, termed, bpc, bcall, bstale, loose>>, bfaults' \in Nat
    PROVE  BInv'
  <1>1. \A p \in B!Proc : proc'[p] = IF p = q THEN x ELSE proc[p]
    BY DEF BInv, B!TypeOK
  <1>2. B!TypeOK'
    BY DEF BInv, B!TypeOK
  <1>3. \A p : Ended(p) => Ended(p)'
    BY <1>1 DEF Ended, B!None, B!Proc
  <1>4. Born'
    BY <1>1, <1>3 DEF BInv, Born, B!Proc
  <1>5. Known'
    BY <1>3 DEF BInv, Known, Certain
  <1>6. B!Tracked'
    BY <1>1 DEF BInv, B!Tracked, B!Proc
  <1> QED
    BY <1>2, <1>4, <1>5, <1>6 DEF BInv

LEMMA CallTypes ==
    /\ B!NoCall \in B!Call
    /\ \A a \in B!After, o \in {B!None} \cup B!Proc : [B!NoCall EXCEPT !.after = a, !.old = o] \in B!Call
    /\ \A c \in B!Call, a \in B!After : [c EXCEPT !.after = a] \in B!Call
    /\ \A c \in B!Call : [c EXCEPT !.after = "idle", !.old = B!None] \in B!Call
    /\ \A c \in B!Call, p \in B!Proc : [c EXCEPT !.pid = p] \in B!Call
    /\ \A c \in B!Call, p \in B!Proc : [c EXCEPT !.child = p] \in B!Call
    /\ \A c \in B!Call : c.after \in B!After /\ c.pid \in {B!None} \cup B!Proc
  BY DEF B!NoCall, B!Call, B!After

\* The end of _stop_pid.
LEMMA Resumed ==
    ASSUME BInv, NEW s \in Shell, B!Resume(s)
    PROVE  \E l \in B!After, c \in B!Call :
             /\ bpc' = [bpc EXCEPT ![s] = l] /\ bcall' = [bcall EXCEPT ![s] = c]
  <1>1. bcall[s] \in B!Call /\ bcall = [bcall EXCEPT ![s] = bcall[s]]
    BY DEF BInv, B!TypeOK
  <1>2. CASE bcall[s].after = "idle"
    BY <1>2, CallTypes DEF B!Resume, B!Ends, B!Goto, B!After
  <1>3. CASE bcall[s].after # "idle"
    BY <1>1, <1>3, CallTypes DEF B!Resume, B!Goto
  <1> QED
    BY <1>2, <1>3

LEMMA KillStep ==
    ASSUME BInv, NEW s \in Shell, B!stop_kill(s)
    PROVE  BInv'
  <1> DEFINE q == bcall[s].pid
  <1>1. /\ bpc[s] = "stop_wait" /\ bpc' = [bpc EXCEPT ![s] = "stop_check"]
        /\ \E x \in {"killed", "dead"} : proc' = [proc EXCEPT ![q] = x]
        /\ UNCHANGED <<pidfile, termed, bcall, bstale, loose, bfaults>>
    BY DEF B!stop_kill, B!Goto
  <1>2. q \in B!Proc /\ proc[q] # "unborn" /\ (s \notin bstale => pidfile = q)
    BY <1>1 DEF BInv, Born, Known, Certain
  <1> HIDE DEF q
  <1>3. \A p \in B!Proc : proc'[p] = IF p = q THEN proc'[q] ELSE proc[p]
    BY <1>1, <1>2 DEF BInv, B!TypeOK
  <1>4. proc'[q] \in {"killed", "dead"}
    BY <1>1, <1>2 DEF BInv, B!TypeOK
  <1>5. \A u \in Shell : bpc'[u] = IF u = s THEN "stop_check" ELSE bpc[u]
    BY <1>1 DEF BInv, B!TypeOK
  <1>6. \A p : Ended(p) => Ended(p)'
    BY <1>3, <1>4 DEF Ended, B!None, B!Proc
  <1>7. B!TypeOK'
    <2>1. proc' \in [B!Proc -> B!ProcState]
      BY <1>1, <1>2 DEF BInv, B!TypeOK, B!ProcState
    <2>2. bpc' \in [Shell -> B!Label]
      BY <1>1 DEF BInv, B!TypeOK, B!Label
    <2>3. UNCHANGED <<pidfile, termed, bcall, bstale, loose, bfaults>>
      BY <1>1
    <2> QED
      BY <2>1, <2>2, <2>3 DEF BInv, B!TypeOK
  <1>8. Ended(q)'
    BY <1>1, <1>2, <1>4 DEF Ended, B!Proc, q
  <1>9. Born'
    BY <1>1, <1>2, <1>3, <1>4, <1>5, <1>6, <1>8 DEF BInv, Born, B!Proc, q
  <1>10. Known'
    BY <1>1, <1>2, <1>5, <1>6 DEF BInv, Known, Certain, q
  <1>11. B!Tracked'
    BY <1>1, <1>3, <1>4, <1>5 DEF BInv, B!Tracked, B!Proc
  <1> QED
    BY <1>7, <1>9, <1>10, <1>11 DEF BInv

LEMMA SpawnStep ==
    ASSUME BInv, NEW s \in Shell, B!spawn(s)
    PROVE  BInv'
  <1>1. PICK q \in B!Proc : /\ proc[q] = "unborn" /\ proc' = [proc EXCEPT ![q] = "booting"]
                            /\ bcall' = [bcall EXCEPT ![s] = [bcall[s] EXCEPT !.child = q]]
    BY DEF B!spawn, BInv, B!TypeOK
  <1>2. /\ bpc[s] = "spawn" /\ bpc' = [bpc EXCEPT ![s] = "write"]
        /\ UNCHANGED <<pidfile, termed, bstale, loose, bfaults>>
    BY DEF B!spawn, B!Goto
  <1>3. \A p \in B!Proc : proc'[p] = IF p = q THEN "booting" ELSE proc[p]
    BY <1>1 DEF BInv, B!TypeOK
  <1>4. \A u \in Shell : u # s => bpc'[u] = bpc[u] /\ bcall'[u] = bcall[u]
    BY <1>1, <1>2 DEF BInv, B!TypeOK
  <1>5. bpc'[s] = "write" /\ bcall'[s].child = q
    BY <1>1, <1>2 DEF BInv, B!TypeOK, B!Call
  <1>6. \A p : Ended(p) => Ended(p)'
    BY <1>1, <1>3 DEF Ended, B!None, B!Proc
  <1>7. B!TypeOK'
    <2>1. bcall' \in [Shell -> B!Call] /\ bpc' \in [Shell -> B!Label]
      BY <1>1, <1>2, CallTypes DEF BInv, B!TypeOK, B!Label
    <2> QED
      BY <1>1, <1>2, <2>1 DEF BInv, B!TypeOK, B!ProcState
  <1>8. Born'
    BY <1>1, <1>2, <1>3, <1>4, <1>5, <1>6 DEF BInv, Born, B!Proc
  <1>9. Known'
    BY <1>2, <1>4, <1>5, <1>6 DEF BInv, Known, Certain
  <1>10. B!Tracked'
    <2> SUFFICES ASSUME ~loose, NEW p \in B!Proc, proc'[p] \in {"booting", "serving"}
                 PROVE  p = pidfile \/ \E u \in Shell : bpc'[u] = "write" /\ bcall'[u].child = p
      BY <1>2 DEF B!Tracked, B!Proc
    <2>1. CASE p = q
      BY <1>5, <2>1
    <2>2. CASE p # q
      <3>1. p = pidfile \/ \E u \in Shell : bpc[u] = "write" /\ bcall[u].child = p
        BY <1>3, <2>2 DEF BInv, B!Tracked
      <3> QED
        BY <1>2, <1>4, <3>1
    <2> QED
      BY <2>1, <2>2
  <1> QED
    BY <1>7, <1>8, <1>9, <1>10 DEF BInv

LEMMA ShellNext ==
    ASSUME BInv, NEW s \in Shell, B!Step(s)
    PROVE  BInv'
  <1> USE DEF B!Goto, B!Label, B!After
  <1>0. /\ bpc[s] \in B!Label /\ bcall[s] \in B!Call
        /\ termed \subseteq B!Proc /\ bfaults \in Nat /\ loose \in BOOLEAN /\ bstale \subseteq Shell
        /\ pidfile \in {B!None} \cup B!Proc
        /\ bcall = [bcall EXCEPT ![s] = bcall[s]]
    BY DEF BInv, B!TypeOK
  <1>a. /\ bpc[s] = "stop_wait" => bcall[s].pid \in B!Proc /\ proc[bcall[s].pid] # "unborn"
        /\ bpc[s] = "stop_check" => bcall[s].pid \in B!Proc /\ Ended(bcall[s].pid)
        /\ s \notin bstale /\ bpc[s] = "stop_wait" => pidfile = bcall[s].pid
        /\ s \notin bstale /\ bpc[s] = "stop_check" => pidfile = bcall[s].pid
    BY DEF BInv, Born, Known, Certain
  <1>1. CASE B!stop_nothing(s)
    <2>1. PICK l \in B!After, c \in B!Call :
            bpc' = [bpc EXCEPT ![s] = l] /\ bcall' = [bcall EXCEPT ![s] = c]
      BY <1>1, Resumed DEF B!stop_nothing
    <2>2. Ended(pidfile)
      BY <1>1 DEF B!stop_nothing, Ended
    <2> QED
      BY <1>0, <1>1, <2>1, <2>2, QuietStep DEF B!stop_nothing, B!Reads
  <1>2. CASE B!stop_dead(s)
    <2>1. Ended(pidfile)
      BY <1>0, <1>2 DEF B!stop_dead, B!pid_alive, Ended, BInv, Born, B!TypeOK, B!ProcState
    <2> QED
      BY <1>0, <1>2, <2>1, QuietStep DEF B!stop_dead, B!Reads
  <1>3. CASE B!stop_term(s)
    <2>1. pidfile \in B!Proc /\ proc[pidfile] # "unborn"
      BY <1>0, <1>3 DEF B!stop_term, B!pid_alive
    <2> DEFINE c == [bcall[s] EXCEPT !.pid = pidfile]
    <2>2. c \in B!Call /\ c.pid = pidfile
      BY <1>0, <2>1, CallTypes DEF B!Call
    <2>3. bcall' = [bcall EXCEPT ![s] = c]
      BY <1>3 DEF B!stop_term
    <2> HIDE DEF c
    <2> QED
      BY <1>0, <1>3, <2>1, <2>2, <2>3, QuietStep DEF B!stop_term, B!Reads
  <1>4. CASE B!stop_gone(s)
    <2>1. s \notin bstale => Ended(pidfile)
      BY <1>0, <1>a, <1>4 DEF B!stop_gone, B!pid_alive, Ended, BInv, Born, B!TypeOK, B!ProcState
    <2> QED
      BY <1>0, <1>4, <2>1, QuietStep DEF B!stop_gone
  <1>5. CASE B!stop_unsure(s)
    <2>1. PICK l \in B!After, c \in B!Call :
            bpc' = [bpc EXCEPT ![s] = l] /\ bcall' = [bcall EXCEPT ![s] = c]
      BY <1>5, Resumed DEF B!stop_unsure
    <2> QED
      BY <1>0, <1>a, <1>5, <2>1, QuietStep DEF B!stop_unsure
  <1>6. CASE B!check(s)
    <2>1. B!pid_alive(pidfile) \/ Ended(pidfile)
      BY <1>0 DEF B!pid_alive, Ended, BInv, Born, B!TypeOK, B!ProcState
    <2>2. PICK l \in {"probe", "spawn"} : bpc' = [bpc EXCEPT ![s] = l] /\ (l = "spawn" => Ended(pidfile))
      BY <1>6, <2>1 DEF B!check
    <2> QED
      BY <1>0, <1>6, <2>2, QuietStep DEF B!check, B!Reads
  <1>7. CASE B!already_running(s) \/ B!ready(s)
    BY <1>0, <1>7, CallTypes, QuietStep DEF B!already_running, B!ready, B!Ends
  <1>8. CASE B!not_ready(s)
    <2> DEFINE c == [bcall[s] EXCEPT !.after = "spawn"]
    <2>1. c \in B!Call /\ bcall' = [bcall EXCEPT ![s] = c]
      BY <1>0, <1>8, CallTypes DEF B!not_ready
    <2> HIDE DEF c
    <2> QED
      BY <1>0, <1>8, <2>1, QuietStep DEF B!not_ready
  <1>9. CASE B!failed_to_start(s)
    <2> DEFINE c == [bcall[s] EXCEPT !.after = "idle", !.old = B!None]
    <2>1. c \in B!Call /\ bcall' = [bcall EXCEPT ![s] = c]
      BY <1>0, <1>9, CallTypes DEF B!failed_to_start
    <2> HIDE DEF c
    <2> QED
      BY <1>0, <1>9, <2>1, QuietStep DEF B!failed_to_start
  <1>10. ASSUME NEW l \in {"check", "stop_read"}, NEW a \in B!After, NEW o \in {B!None} \cup B!Proc,
                B!Begin(s, l, a, o)
         PROVE  BInv'
    <2> DEFINE c == [B!NoCall EXCEPT !.after = a, !.old = o]
    <2>1. c \in B!Call /\ bcall' = [bcall EXCEPT ![s] = c]
      BY <1>0, <1>10, CallTypes DEF B!Begin
    <2> HIDE DEF c
    <2> QED
      BY <1>0, <1>10, <2>1, QuietStep DEF B!Begin
  <1>11. CASE B!start_flow(s) \/ B!stop_flow(s) \/ B!restart(s)
    BY <1>0, <1>10, <1>11 DEF B!start_flow, B!stop_flow, B!restart
  <1>12. CASE B!shell_dies(s)
    <2>1. /\ bpc' = [bpc EXCEPT ![s] = "idle"] /\ bcall' = [bcall EXCEPT ![s] = B!NoCall]
          /\ loose' \in BOOLEAN /\ (loose => loose') /\ (bpc[s] = "write" => loose')
          /\ UNCHANGED <<pidfile, proc, termed, bstale>>
      BY <1>0, <1>12 DEF B!shell_dies, B!Ends
    <2>2. bfaults' \in Nat
      BY <1>0, <1>12 DEF B!shell_dies
    <2> QED
      BY <1>0, <2>1, <2>2, CallTypes, QuietStep
  <1>13. CASE B!write_pid(s)
    <2>1. bcall[s].child \in B!Proc
      BY <1>13 DEF B!write_pid, BInv, Born
    <2> QED
      BY <1>0, <1>13, <2>1, FileStep DEF B!write_pid
  <1>14. CASE B!stop_unlink(s)
    <2>1. PICK l \in B!After, c \in B!Call :
            bpc' = [bpc EXCEPT ![s] = l] /\ bcall' = [bcall EXCEPT ![s] = c]
      BY <1>14, Resumed DEF B!stop_unlink
    <2> QED
      BY <1>0, <1>14, <2>1, FileStep DEF B!stop_unlink
  <1>15. CASE B!stop_kill(s)
    BY <1>15, KillStep
  <1>16. CASE B!spawn(s)
    BY <1>16, SpawnStep
  <1> QED
    BY <1>1, <1>2, <1>3, <1>4, <1>5, <1>6, <1>7, <1>8, <1>9, <1>11, <1>12, <1>13, <1>14, <1>15, <1>16
    DEF B!Step

LEMMA BootstrapNext ==
    ASSUME BInv, [B!Next]_(B!vars)
    PROVE  BInv'
  <1>1. ASSUME NEW s \in Shell, B!Step(s) PROVE BInv'
    BY <1>1, ShellNext
  <1>2. ASSUME NEW p \in B!Proc,
               B!bind(p) \/ B!shut_down(p) \/ B!gone(p) \/ B!control_plane_fails(p)
        PROVE  BInv'
    <2>1. bfaults' \in Nat
      BY <1>2 DEF B!bind, B!shut_down, B!gone, B!control_plane_fails, BInv, B!TypeOK
    <2>2. PICK x \in {"serving", "leaving", "dead"} :
            /\ proc' = [proc EXCEPT ![p] = x] /\ (x = "serving" => proc[p] = "booting")
            /\ proc[p] \in {"leaving", "killed"} => x = "dead"
      BY <1>2 DEF B!bind, B!shut_down, B!gone, B!control_plane_fails, B!Becomes
    <2>3. proc[p] \in {"booting", "serving", "leaving", "killed"}
      BY <1>2 DEF B!bind, B!shut_down, B!gone, B!control_plane_fails
    <2>4. UNCHANGED <<pidfile, termed, bpc, bcall, bstale, loose>>
      BY <1>2 DEF B!bind, B!shut_down, B!gone, B!control_plane_fails, B!Becomes
    <2> QED
      BY <2>1, <2>2, <2>3, <2>4, ProcessStep DEF B!ProcState
  <1>3. CASE UNCHANGED B!vars
    <2>1. UNCHANGED <<pidfile, proc, termed, bpc, bcall, bstale, loose, bfaults>>
      BY <1>3 DEF B!vars
    <2> QED
      BY <2>1 DEF BInv, B!TypeOK, Born, Known, Certain, Ended, B!Tracked, B!Proc, B!None
  <1> QED
    BY <1>1, <1>2, <1>3 DEF B!Next

\* However many shells start, stop and restart at once and wherever they die: a control
\* plane that boots or serves is the one in the pid file, or its shell is about to write
\* it there, unless shells have crossed or one died with its process not noted down.
THEOREM NoneForgotten == B!Spec => []Tracked
  <1>1. B!Init => BInv
    BY BootstrapInit
  <1>2. BInv /\ [B!Next]_(B!vars) => BInv'
    BY BootstrapNext
  <1>3. BInv => Tracked
    BY DEF BInv, Tracked
  <1> QED
    BY <1>1, <1>2, <1>3, PTL DEF B!Spec

\* The pid file, the processes and the shells keep their types.
THEOREM BootstrapTyped == B!Spec => []B!TypeOK
  <1>1. BInv => B!TypeOK
    BY DEF BInv
  <1> QED
    BY <1>1, BootstrapInit, BootstrapNext, PTL DEF B!Spec

------------------------------------------------------------------------------
(* Startup.  A proxy that lives is in the pid file, or its shell is about  *)
(* to write it there; and while it is in the pid file, the saved address   *)
(* is its port, or a shell that nobody crossed is about to save that, or   *)
(* some shell is about to stop what the pid file names (Addressed).        *)

Living(p) == proxy[p].state \in {"booting", "serving"}
Over(p) == p = P!None \/ (p \in P!Proxy /\ proxy[p].state = "dead")

StartSteps == {"check", "probe", "port", "spawn", "pid", "wait", "save"}

Begun ==
    /\ ppidfile \in P!Proxy => proxy[ppidfile].state # "unborn"
    /\ \A s \in Shell :
         /\ ppc[s] \in StartSteps => pcall[s].addr \in P!Port
         /\ ppc[s] \in {"pid", "wait", "save"} =>
              pcall[s].child \in P!Proxy /\ proxy[pcall[s].child].state # "unborn"
                /\ proxy[pcall[s].child].port = pcall[s].addr
         /\ ppc[s] = "stop_kill" => pcall[s].child \in P!Proxy /\ proxy[pcall[s].child].state # "unborn"

\* What a shell that nobody crossed knows of the pid file.
Sure(s) ==
    /\ ppc[s] \in {"port", "spawn", "pid", "stop_unlink"} => Over(ppidfile)
    /\ ppc[s] \in {"wait", "save", "stop_kill"} => ppidfile = pcall[s].child

Addressed(p) ==
    \/ P!resolved_litellm_base_url = proxy[p].port
    \/ \E s \in Shell : \/ ppc[s] \in {"wait", "save"} /\ s \notin pstale
                        \/ ppc[s] = "stop_read"
                        \/ ppc[s] = "stop_kill" /\ pcall[s].child = p

Noted(p) ==
    \/ p = ppidfile /\ Addressed(p)
    \/ \E s \in Shell : ppc[s] = "pid" /\ pcall[s].child = p

PInv ==
    /\ P!TypeOK /\ Begun
    /\ \A s \in Shell : s \notin pstale => Sure(s)
    /\ ~ploose => \A p \in P!Proxy : Living(p) => Noted(p)

LEMMA StartupInit ==
    ASSUME MaxPort \in Nat \ {0}, P!Init
    PROVE  PInv
  <1>1. P!TypeOK
    <2>1. P!NoCall \in P!Call
      BY DEF P!NoCall, P!Call, P!After
    <2>2. proxy \in [P!Proxy -> [port : {P!None} \cup P!Port,
                                state : {"unborn", "booting", "serving", "dead"}]]
      BY DEF P!Init
    <2>3. others \subseteq P!Port
      BY DEF P!Init, P!Port
    <2> QED
      BY <2>1, <2>2, <2>3 DEF P!Init, P!TypeOK, P!Label
  <1>2. Begun
    BY DEF P!Init, Begun, P!None, P!Proxy, StartSteps
  <1>3. \A s \in Shell : Sure(s)
    BY DEF P!Init, Sure
  <1>4. \A p \in P!Proxy : ~Living(p)
    BY DEF P!Init, Living
  <1> QED
    BY <1>1, <1>2, <1>3, <1>4 DEF PInv

\* A step of one shell that leaves the files and the proxies alone.
LEMMA QuietStart ==
    ASSUME PInv, NEW s \in Shell, NEW l \in P!Label \ {"pid"}, NEW c \in P!Call,
           ppc[s] # "pid" \/ ploose',
           ppc[s] \in {"wait", "save"} => l \in {"save", "stop_read"} \/ ploose',
           ppc[s] = "stop_read" =>
             \/ ploose' \/ ppidfile = P!None
             \/ l = "stop_kill" /\ c.child = ppidfile
             \/ l = "stop_unlink" /\ Over(ppidfile),
           ppc[s] # "stop_kill" \/ ploose',
           UNCHANGED <<ppidfile, saved, proxy, others>>, pfaults' \in Nat,
           ppc' = [ppc EXCEPT ![s] = l], pcall' = [pcall EXCEPT ![s] = c],
           pstale' = pstale \/ pstale' = pstale \ {s}, ploose' \in BOOLEAN, ploose => ploose',
           l \in StartSteps => c.addr \in P!Port,
           l \in {"wait", "save"} => ppc[s] = "wait" /\ c = pcall[s] /\ pstale' = pstale,
           l = "stop_kill" => c.child = ppidfile /\ ppidfile \in P!Proxy,
           s \notin pstale' /\ l \in {"port", "spawn", "stop_unlink"} => Over(ppidfile)
    PROVE  PInv'
  <1>1. P!TypeOK'
    BY DEF PInv, P!TypeOK
  <1>2. ppc'[s] = l /\ pcall'[s] = c
    BY DEF PInv, P!TypeOK
  <1>3. \A u \in Shell : u # s => ppc'[u] = ppc[u] /\ pcall'[u] = pcall[u] /\ (u \in pstale' <=> u \in pstale)
    BY DEF PInv, P!TypeOK
  <1>4. Begun'
    BY <1>2, <1>3 DEF PInv, Begun, P!Proxy, P!Port
  <1>5. ASSUME NEW u \in Shell, u \notin pstale' PROVE Sure(u)'
    BY <1>2, <1>3, <1>5 DEF PInv, Sure, Over, P!None, P!Proxy
  <1>6. ASSUME ~ploose', NEW p \in P!Proxy, Living(p)' PROVE Noted(p)'
    <2>1. Noted(p) /\ Living(p)
      BY <1>6 DEF PInv, Living
    <2>2. CASE p = ppidfile /\ Addressed(p)
      <3>1. CASE P!resolved_litellm_base_url = proxy[p].port
        BY <2>2, <3>1 DEF Noted, Addressed, P!resolved_litellm_base_url
      <3>2. ASSUME NEW u \in Shell,
                   \/ ppc[u] \in {"wait", "save"} /\ u \notin pstale
                   \/ ppc[u] = "stop_read"
                   \/ ppc[u] = "stop_kill" /\ pcall[u].child = p
            PROVE  Addressed(p)'
        <4>1. CASE u # s
          BY <1>3, <3>2, <4>1 DEF Addressed
        <4>2. CASE u = s
          BY <1>2, <1>6, <2>1, <2>2, <3>2, <4>2 DEF Addressed, Over, Living, P!None, P!Proxy
        <4> QED
          BY <4>1, <4>2
      <3> QED
        BY <2>2, <3>1, <3>2 DEF Noted, Addressed
    <2>3. CASE \E u \in Shell : ppc[u] = "pid" /\ pcall[u].child = p
      BY <1>3, <1>6, <2>3 DEF Noted
    <2> QED
      BY <2>1, <2>2, <2>3 DEF Noted
  <1> QED
    BY <1>1, <1>4, <1>5, <1>6 DEF PInv, P!Proxy

\* A shell writes or unlinks the pid file, or writes the address.
LEMMA StartFiles ==
    ASSUME PInv, NEW s \in Shell, NEW l \in P!Label \ {"pid", "save", "stop_kill", "stop_unlink"},
           NEW c \in P!Call, ppc[s] \in {"pid", "save", "stop_unlink"},
           ppidfile' = (IF ppc[s] = "pid" THEN pcall[s].child
                       ELSE IF ppc[s] = "stop_unlink" THEN P!None ELSE ppidfile),
           saved' = (IF ppc[s] = "save" THEN pcall[s].addr ELSE saved),
           UNCHANGED <<proxy, others, pfaults>>, P!Changed(s),
           ppc' = [ppc EXCEPT ![s] = l], pcall' = [pcall EXCEPT ![s] = c],
           l = "wait" => ppc[s] = "pid" /\ c = pcall[s],
           ppc[s] = "pid" => l = "wait", l \notin StartSteps \ {"wait"}, l # "stop_read"
    PROVE  PInv'
  <1>1. /\ pstale' = {u \in Shell : u # s /\ ppc[u] # "idle"}
        /\ ploose' \in BOOLEAN /\ (ploose => ploose') /\ (s \in pstale => ploose')
    BY DEF P!Changed, PInv, P!TypeOK
  <1>2. ppc'[s] = l /\ pcall'[s] = c
    BY DEF PInv, P!TypeOK
  <1>3. \A u \in Shell : u # s => ppc'[u] = ppc[u] /\ pcall'[u] = pcall[u]
    BY DEF PInv, P!TypeOK
  <1>4. /\ ppc[s] = "pid" => pcall[s].child \in P!Proxy /\ proxy[pcall[s].child].state # "unborn"
                              /\ proxy[pcall[s].child].port = pcall[s].addr
        /\ ppc[s] \in {"pid", "save"} => pcall[s].addr \in P!Port
        /\ ppc[s] = "save" => proxy[pcall[s].child].port = pcall[s].addr
    BY DEF PInv, Begun, StartSteps
  <1>5. P!TypeOK'
    <2>1. ppidfile' \in {P!None} \cup P!Proxy /\ saved' \in {P!None} \cup P!Port
      BY <1>4 DEF PInv, P!TypeOK
    <2> QED
      BY <1>1, <2>1 DEF PInv, P!TypeOK
  <1>6. Begun'
    BY <1>2, <1>3, <1>4 DEF PInv, Begun, P!Proxy, P!Port, P!None, StartSteps
  <1>7. ASSUME NEW u \in Shell, u \notin pstale' PROVE Sure(u)'
    <2>1. CASE u = s
      BY <1>2, <1>4, <2>1 DEF Sure, StartSteps
    <2>2. CASE u # s
      BY <1>1, <1>3, <1>7, <2>2 DEF Sure
    <2> QED
      BY <2>1, <2>2
  <1>8. ASSUME ~ploose', NEW p \in P!Proxy, Living(p)' PROVE Noted(p)'
    <2>1. Noted(p) /\ Living(p) /\ s \notin pstale
      BY <1>1, <1>8 DEF PInv, Living
    <2>2. Sure(s)
      BY <2>1 DEF PInv
    <2>3. CASE p = ppidfile
      <3>1. ppc[s] = "save" /\ ppidfile = pcall[s].child
        BY <2>1, <2>2, <2>3 DEF Sure, Over, Living, P!None, P!Proxy
      <3>2. saved' = proxy[p].port /\ saved' \in P!Port /\ ppidfile' = ppidfile
        BY <1>4, <2>3, <3>1
      <3>3. Addressed(p)'
        BY <3>2 DEF Addressed, P!resolved_litellm_base_url, P!Port, P!None
      <3> QED
        BY <2>3, <3>2, <3>3 DEF Noted
    <2>4. ASSUME NEW u \in Shell, ppc[u] = "pid", pcall[u].child = p PROVE Noted(p)'
      <3>1. CASE u # s
        BY <1>3, <2>4, <3>1 DEF Noted
      <3>2. CASE u = s
        <4>1. ppidfile' = p
          BY <2>4, <3>2
        <4>2. CASE l = "wait"
          BY <1>1, <1>2, <4>1, <4>2 DEF Noted, Addressed
        <4> QED
          BY <1>1, <1>2, <2>4, <3>2, <4>1, <4>2 DEF Noted
      <3> QED
        BY <3>1, <3>2
    <2> QED
      BY <2>1, <2>3, <2>4 DEF Noted
  <1> QED
    BY <1>5, <1>6, <1>7, <1>8 DEF PInv, P!Proxy

\* A step of one proxy.
LEMMA ProxyStep ==
    ASSUME PInv, NEW q \in P!Proxy, NEW x \in {"serving", "dead"},
           Living(q), x = "serving" => proxy[q].state = "booting",
           proxy' = [proxy EXCEPT ![q] = [proxy[q] EXCEPT !.state = x]],
           UNCHANGED <<ppidfile, saved, others, ppc, pcall, pstale, ploose>>, pfaults' \in Nat
    PROVE  PInv'
  <1>1. /\ \A p \in P!Proxy : p # q => proxy'[p] = proxy[p]
        /\ proxy'[q].state = x /\ proxy'[q].port = proxy[q].port
    BY DEF PInv, P!TypeOK
  <1>2. P!TypeOK'
    <2>1. proxy' \in [P!Proxy -> [port : {P!None} \cup P!Port,
                                 state : {"unborn", "booting", "serving", "dead"}]]
      BY DEF PInv, P!TypeOK
    <2> QED
      BY <2>1 DEF PInv, P!TypeOK
  <1>3. \A p : Over(p) => Over(p)'
    BY <1>1 DEF Over, Living, P!None, P!Proxy
  <1>4. Begun'
    BY <1>1 DEF PInv, Begun, P!Proxy, P!Port
  <1>5. \A u \in Shell : u \notin pstale' => Sure(u)'
    BY <1>3 DEF PInv, Sure
  <1>6. ASSUME ~ploose', NEW p \in P!Proxy, Living(p)' PROVE Noted(p)'
    <2>1. Living(p) /\ proxy'[p].port = proxy[p].port
      BY <1>1, <1>6 DEF Living
    <2>2. Noted(p)
      BY <1>6, <2>1 DEF PInv
    <2> QED
      BY <2>1, <2>2 DEF Noted, Addressed, P!resolved_litellm_base_url
  <1> QED
    BY <1>2, <1>4, <1>5, <1>6 DEF PInv, P!Proxy

\* A shell stops the proxy that it read in the pid file.
LEMMA KillProxy ==
    ASSUME PInv, NEW s \in Shell, P!stop_kill(s)
    PROVE  PInv'
  <1>1. /\ ppc[s] = "stop_kill" /\ ppc' = [ppc EXCEPT ![s] = "stop_unlink"]
        /\ proxy' = [proxy EXCEPT ![pcall[s].child] = [proxy[pcall[s].child] EXCEPT !.state = "dead"]]
        /\ UNCHANGED <<ppidfile, saved, others, pcall, pstale, ploose, pfaults>>
    BY DEF P!stop_kill, P!Goto, P!disk, P!clean
  <1>2. PICK q \in P!Proxy : q = pcall[s].child /\ proxy[q].state # "unborn"
    BY <1>1 DEF PInv, Begun
  <1>3. /\ \A p \in P!Proxy : p # q => proxy'[p] = proxy[p]
        /\ proxy'[q].state = "dead" /\ proxy'[q].port = proxy[q].port
    BY <1>1, <1>2 DEF PInv, P!TypeOK
  <1>4. \A u \in Shell : ppc'[u] = IF u = s THEN "stop_unlink" ELSE ppc[u]
    BY <1>1 DEF PInv, P!TypeOK
  <1>5. P!TypeOK'
    <2>1. proxy' \in [P!Proxy -> [port : {P!None} \cup P!Port,
                                 state : {"unborn", "booting", "serving", "dead"}]]
      BY <1>1, <1>2 DEF PInv, P!TypeOK
    <2>2. ppc' \in [Shell -> P!Label]
      BY <1>1 DEF PInv, P!TypeOK, P!Label
    <2> QED
      BY <1>1, <2>1, <2>2 DEF PInv, P!TypeOK
  <1>6. \A p : Over(p) => Over(p)'
    BY <1>3 DEF Over, P!None, P!Proxy
  <1>7. Begun'
    BY <1>1, <1>3, <1>4 DEF PInv, Begun, P!Proxy, P!Port, StartSteps
  <1>8. ASSUME NEW u \in Shell, u \notin pstale' PROVE Sure(u)'
    <2>1. Sure(u)
      BY <1>1, <1>8 DEF PInv
    <2>2. Over(q)'
      BY <1>3 DEF Over, P!Proxy
    <2> QED
      BY <1>1, <1>2, <1>4, <1>6, <2>1, <2>2 DEF Sure
  <1>9. ASSUME ~ploose', NEW p \in P!Proxy, Living(p)' PROVE Noted(p)'
    <2>1. p # q /\ Living(p) /\ proxy'[p] = proxy[p]
      BY <1>3, <1>9 DEF Living
    <2>2. Noted(p)
      BY <1>1, <1>9, <2>1 DEF PInv
    <2> QED
      BY <1>1, <1>2, <1>4, <2>1, <2>2 DEF Noted, Addressed, P!resolved_litellm_base_url
  <1> QED
    BY <1>5, <1>7, <1>8, <1>9 DEF PInv, P!Proxy

LEMMA SpawnProxy ==
    ASSUME PInv, NEW s \in Shell, P!spawn(s)
    PROVE  PInv'
  <1>1. PICK q \in P!Proxy :
            /\ proxy[q].state = "unborn"
            /\ proxy' = [proxy EXCEPT ![q] = [port |-> pcall[s].addr, state |-> "booting"]]
            /\ pcall' = [pcall EXCEPT ![s] = [pcall[s] EXCEPT !.child = q]]
    BY DEF P!spawn, PInv, P!TypeOK
  <1>2. /\ ppc[s] = "spawn" /\ ppc' = [ppc EXCEPT ![s] = "pid"]
        /\ UNCHANGED <<ppidfile, saved, others, pstale, ploose, pfaults>>
    BY DEF P!spawn, P!Goto, P!disk, P!clean
  <1>3. \A p \in P!Proxy : proxy'[p] = IF p = q THEN [port |-> pcall[s].addr, state |-> "booting"] ELSE proxy[p]
    BY <1>1 DEF PInv, P!TypeOK
  <1>4. \A u \in Shell : u # s => ppc'[u] = ppc[u] /\ pcall'[u] = pcall[u]
    BY <1>1, <1>2 DEF PInv, P!TypeOK
  <1>5. pcall[s] \in P!Call /\ pcall[s].addr \in P!Port
    BY <1>2 DEF PInv, P!TypeOK, Begun, StartSteps
  <1>6. ppc'[s] = "pid" /\ pcall'[s].child = q /\ pcall'[s].addr = pcall[s].addr
    BY <1>1, <1>2, <1>5 DEF PInv, P!TypeOK, P!Call
  <1>7. \A p : Over(p) => Over(p)' /\ p # q
    BY <1>1, <1>3 DEF Over, P!None, P!Proxy
  <1>8. P!TypeOK'
    <2>1. [pcall[s] EXCEPT !.child = q] \in P!Call
      BY <1>5 DEF P!Call
    <2>2. pcall' \in [Shell -> P!Call] /\ ppc' \in [Shell -> P!Label]
      BY <1>1, <1>2, <2>1 DEF PInv, P!TypeOK, P!Label
    <2>3. proxy' \in [P!Proxy -> [port : {P!None} \cup P!Port,
                                 state : {"unborn", "booting", "serving", "dead"}]]
      BY <1>1, <1>5 DEF PInv, P!TypeOK
    <2> QED
      BY <1>2, <2>2, <2>3 DEF PInv, P!TypeOK
  <1>9. Begun'
    <2>1. ppidfile' \in P!Proxy => proxy'[ppidfile'].state # "unborn"
      BY <1>2, <1>3 DEF PInv, Begun
    <2> QED
      BY <1>2, <1>1, <1>3, <1>4, <1>5, <1>6, <2>1 DEF PInv, Begun, P!Proxy, P!Port, StartSteps
  <1>10. ASSUME NEW u \in Shell, u \notin pstale' PROVE Sure(u)'
    <2>1. Sure(u)
      BY <1>2, <1>10 DEF PInv
    <2> QED
      BY <1>2, <1>4, <1>6, <1>7, <2>1 DEF Sure
  <1>11. ASSUME ~ploose', NEW p \in P!Proxy, Living(p)' PROVE Noted(p)'
    <2>1. CASE p = q
      BY <1>6, <2>1 DEF Noted
    <2>2. CASE p # q
      <3>1. proxy'[p] = proxy[p] /\ Noted(p)
        BY <1>2, <1>3, <1>11, <2>2 DEF PInv, Living
      <3>2. ASSUME p = ppidfile, Addressed(p) PROVE Addressed(p)'
        BY <1>2, <1>4, <1>6, <3>1, <3>2 DEF Addressed, P!resolved_litellm_base_url
      <3> QED
        BY <1>2, <1>4, <3>1, <3>2 DEF Noted
    <2> QED
      BY <2>1, <2>2
  <1> QED
    BY <1>8, <1>9, <1>10, <1>11 DEF PInv, P!Proxy

\* Looking for a free port ends at a port.
LEMMA PortFound ==
    ASSUME NEW a \in P!Port
    PROVE  P!find_free_local_port(a) \in P!Port
  <1> DEFINE free == {b \in P!Port : b > a /\ P!is_local_port_available(b)}
  <1>1. CASE free = {}
    BY <1>1 DEF P!find_free_local_port
  <1>2. CASE free # {}
    <2>1. free \subseteq Nat
      BY DEF P!Port
    <2>2. \E x \in free : \A y \in free : x <= y
      BY <1>2, <2>1, Least
    <2>4. P!Min(free) \in free
      BY <2>2 DEF P!Min
    <2> QED
      BY <1>2, <2>4 DEF P!find_free_local_port
  <1> QED
    BY <1>1, <1>2

LEMMA StartCalls ==
    /\ P!NoCall \in P!Call
    /\ \A a \in P!After : [P!NoCall EXCEPT !.after = a] \in P!Call
    /\ \A c \in P!Call, a \in P!Port :
         [c EXCEPT !.addr = a] \in P!Call /\ [c EXCEPT !.addr = a].addr = a
    /\ \A c \in P!Call, q \in {P!None} \cup P!Proxy :
         [c EXCEPT !.child = q] \in P!Call /\ [c EXCEPT !.child = q].child = q
  BY DEF P!NoCall, P!Call, P!After

LEMMA StartNext ==
    ASSUME MaxPort \in Nat \ {0}, PInv, NEW s \in Shell, P!Step(s)
    PROVE  PInv'
  <1> USE DEF P!Goto, P!Label, P!After, P!disk, P!processes, P!clean
  <1>0. /\ ppc[s] \in P!Label /\ pcall[s] \in P!Call /\ pcall[s].after \in P!After
        /\ pfaults \in Nat /\ ploose \in BOOLEAN /\ ppidfile \in {P!None} \cup P!Proxy
        /\ pcall = [pcall EXCEPT ![s] = pcall[s]]
    BY DEF PInv, P!TypeOK, P!Call
  <1>a. ppc[s] \in StartSteps => pcall[s].addr \in P!Port
    BY DEF PInv, Begun
  <1>1. CASE P!stop_read(s)
    <2>0. /\ ppc[s] = "stop_read" /\ pstale' = pstale \ {s} /\ ploose' = ploose
          /\ UNCHANGED <<ppidfile, saved, proxy, others, pfaults>>
      BY <1>1 DEF P!stop_read
    <2>1. CASE ppidfile = P!None
      <3>1. PICK l \in P!After, c \in P!Call :
              ppc' = [ppc EXCEPT ![s] = l] /\ pcall' = [pcall EXCEPT ![s] = c]
        BY <1>0, <1>1, <2>1, StartCalls DEF P!stop_read, P!Ends
      <3> QED
        BY <1>0, <2>0, <2>1, <3>1, QuietStart DEF StartSteps
    <2>2. CASE ppidfile # P!None
      <3> DEFINE c == [pcall[s] EXCEPT !.child = ppidfile]
      <3>1. c \in P!Call /\ c.child = ppidfile /\ ppidfile \in P!Proxy
        BY <1>0, <2>2, StartCalls
      <3>2. P!pid_alive(ppidfile) \/ Over(ppidfile)
        BY <1>0, <2>2 DEF P!pid_alive, Over, PInv, Begun, P!TypeOK
      <3>3. PICK l \in {"stop_kill", "stop_unlink"} :
              ppc' = [ppc EXCEPT ![s] = l] /\ pcall' = [pcall EXCEPT ![s] = c] /\ (l = "stop_unlink" => Over(ppidfile))
        BY <1>1, <2>2, <3>2 DEF P!stop_read
      <3> HIDE DEF c
      <3> QED
        BY <1>0, <2>0, <3>1, <3>3, QuietStart DEF StartSteps
    <2> QED
      BY <2>1, <2>2
  <1>2. CASE P!stop_kill(s)
    BY <1>2, KillProxy
  <1>3. CASE P!stop_unlink(s)
    <2>1. PICK l \in P!After, c \in P!Call :
            ppc' = [ppc EXCEPT ![s] = l] /\ pcall' = [pcall EXCEPT ![s] = c]
      BY <1>0, <1>3, StartCalls DEF P!stop_unlink, P!Ends
    <2> QED
      BY <1>0, <1>3, <2>1, StartFiles DEF P!stop_unlink, StartSteps
  <1>4. CASE P!ensure_python_dependencies(s)
    <2>1. PICK l \in {"address", "idle"} : ppc' = [ppc EXCEPT ![s] = l]
      BY <1>4 DEF P!ensure_python_dependencies
    <2> QED
      BY <1>0, <1>4, <2>1, QuietStart DEF P!ensure_python_dependencies, StartSteps
  <1>5. CASE P!ReadAddress(s)
    <2> DEFINE a == P!resolved_litellm_base_url
               c == [pcall[s] EXCEPT !.addr = a]
    <2>1. a \in P!Port
      BY DEF P!resolved_litellm_base_url, PInv, P!TypeOK, P!Port, P!None
    <2>2. c \in P!Call /\ c.addr \in P!Port
      BY <1>0, <2>1, StartCalls
    <2>3. pcall' = [pcall EXCEPT ![s] = c]
      BY <1>5 DEF P!ReadAddress
    <2> HIDE DEF c
    <2> QED
      BY <1>0, <1>5, <2>2, <2>3, QuietStart DEF P!ReadAddress, StartSteps
  <1>6. CASE P!check(s)
    <2>1. P!pid_alive(ppidfile) \/ Over(ppidfile)
      BY <1>0 DEF P!pid_alive, Over, PInv, Begun, P!TypeOK
    <2>2. PICK l \in {"probe", "port"} : ppc' = [ppc EXCEPT ![s] = l] /\ (l = "port" => Over(ppidfile))
      BY <1>6, <2>1 DEF P!check
    <2>3. ppc[s] = "check" /\ UNCHANGED <<ppidfile, saved, proxy, others, pcall, pstale, ploose, pfaults>>
      BY <1>6 DEF P!check
    <2> QED
      BY <1>0, <1>a, <2>2, <2>3, QuietStart DEF StartSteps
  <1>7. CASE P!already_running(s)
    <2>1. PICK l \in {"rest", "idle"}, c \in P!Call :
            ppc' = [ppc EXCEPT ![s] = l] /\ pcall' = [pcall EXCEPT ![s] = c]
      BY <1>0, <1>7, StartCalls DEF P!already_running, P!Ends
    <2> QED
      BY <1>0, <1>7, <2>1, QuietStart DEF P!already_running, StartSteps
  <1>8. CASE P!ChoosePort(s)
    <2>1. PICK b \in P!Port : pcall' = [pcall EXCEPT ![s] = [pcall[s] EXCEPT !.addr = b]]
      BY <1>a, <1>8, PortFound DEF P!ChoosePort, StartSteps
    <2> DEFINE c == [pcall[s] EXCEPT !.addr = b]
    <2>2. c \in P!Call /\ c.addr \in P!Port
      BY <1>0, StartCalls
    <2>3. pcall' = [pcall EXCEPT ![s] = c]
      BY <2>1
    <2>4. s \notin pstale => Over(ppidfile)
      BY <1>8 DEF P!ChoosePort, PInv, Sure
    <2> HIDE DEF c
    <2> QED
      BY <1>0, <1>8, <2>2, <2>3, <2>4, QuietStart DEF P!ChoosePort, StartSteps
  <1>9. CASE P!spawn(s)
    BY <1>9, SpawnProxy
  <1>10. CASE P!write_pid(s)
    BY <1>0, <1>10, StartFiles DEF P!write_pid, StartSteps
  <1>11. CASE P!wait_litellm_ready(s)
    <2>1. CASE ppc' = [ppc EXCEPT ![s] = "save"] /\ UNCHANGED pcall
      BY <1>0, <1>a, <1>11, <2>1, QuietStart DEF P!wait_litellm_ready, StartSteps
    <2>2. CASE ppc' = [ppc EXCEPT ![s] = "stop_read"] /\ pcall' = [pcall EXCEPT ![s] = P!NoCall]
      BY <1>0, <1>11, <2>2, StartCalls, QuietStart DEF P!wait_litellm_ready, StartSteps
    <2> QED
      BY <1>11, <2>1, <2>2 DEF P!wait_litellm_ready
  <1>12. CASE P!write_litellm_state(s)
    BY <1>0, <1>12, StartFiles DEF P!write_litellm_state, StartSteps
  <1>13. CASE P!RestOfStart(s)
    BY <1>0, <1>13, StartCalls, QuietStart DEF P!RestOfStart, P!Ends, StartSteps
  <1>14. ASSUME NEW l \in {"packages", "stop_read"}, NEW a \in P!After, P!Begin(s, l, a)
         PROVE  PInv'
    <2> DEFINE c == [P!NoCall EXCEPT !.after = a]
    <2>1. c \in P!Call /\ pcall' = [pcall EXCEPT ![s] = c]
      BY <1>14, StartCalls DEF P!Begin
    <2> HIDE DEF c
    <2> QED
      BY <1>0, <1>14, <2>1, QuietStart DEF P!Begin, StartSteps
  <1>15. CASE P!start_flow(s) \/ P!stop_flow(s) \/ P!restart(s)
    <2>1. CASE P!start_flow(s)
      BY <1>14, <2>1 DEF P!start_flow
    <2>2. CASE P!stop_flow(s)
      BY <1>14, <2>2 DEF P!stop_flow
    <2>3. CASE P!restart(s)
      BY <1>14, <2>3 DEF P!restart
    <2> QED
      BY <1>15, <2>1, <2>2, <2>3
  <1>16. CASE P!shell_dies(s)
    <2>1. /\ ppc' = [ppc EXCEPT ![s] = "idle"] /\ pcall' = [pcall EXCEPT ![s] = P!NoCall]
          /\ ploose' = TRUE /\ pfaults' \in Nat
          /\ UNCHANGED <<ppidfile, saved, proxy, others, pstale>>
      BY <1>0, <1>16 DEF P!shell_dies, P!Ends
    <2> DEFINE c == P!NoCall
               l == "idle"
    <2>3. c \in P!Call /\ l \in P!Label \ {"pid"} /\ l \notin StartSteps \cup {"stop_kill", "stop_unlink", "wait", "save"}
          /\ l \notin {"port", "spawn", "stop_unlink"}
      BY StartCalls DEF StartSteps
    <2>4. ppc' = [ppc EXCEPT ![s] = l] /\ pcall' = [pcall EXCEPT ![s] = c]
      BY <2>1
    <2> HIDE DEF c, l
    <2> QED
      BY <1>0, <2>1, <2>3, <2>4, QuietStart
  <1> QED
    BY <1>1, <1>2, <1>3, <1>4, <1>5, <1>6, <1>7, <1>8, <1>9, <1>10, <1>11, <1>12, <1>13, <1>15, <1>16
    DEF P!Step

LEMMA StartupNext ==
    ASSUME MaxPort \in Nat \ {0}, PInv, [P!Next]_(P!vars)
    PROVE  PInv'
  <1>1. ASSUME NEW s \in Shell, P!Step(s) PROVE PInv'
    BY <1>1, StartNext
  <1>2. ASSUME NEW p \in P!Proxy, P!bind(p) PROVE PInv'
    <2>1. PICK x \in {"serving", "dead"} : proxy' = [proxy EXCEPT ![p] = [proxy[p] EXCEPT !.state = x]]
      BY <1>2 DEF P!bind
    <2>2. proxy[p].state = "booting" /\ UNCHANGED <<ppidfile, saved, others, ppc, pcall, pstale, ploose, pfaults>>
      BY <1>2 DEF P!bind, P!disk, P!clean
    <2>3. Living(p) /\ pfaults' \in Nat
      BY <2>2 DEF Living, PInv, P!TypeOK
    <2> QED
      BY <2>1, <2>2, <2>3, ProxyStep
  <1>3. ASSUME NEW p \in P!Proxy, P!proxy_fails(p) PROVE PInv'
    <2>1. /\ proxy' = [proxy EXCEPT ![p] = [proxy[p] EXCEPT !.state = "dead"]]
          /\ UNCHANGED <<ppidfile, saved, others, ppc, pcall, pstale, ploose>>
      BY <1>3 DEF P!proxy_fails, P!disk
    <2>2. Living(p) /\ pfaults' \in Nat
      <3>1. pfaults' = pfaults + 1 /\ pfaults \in Nat
        BY <1>3 DEF P!proxy_fails, PInv, P!TypeOK
      <3> QED
        BY <1>3, <3>1 DEF P!proxy_fails, Living
    <2> QED
      BY <2>1, <2>2, ProxyStep
  <1>4. ASSUME NEW a \in P!Port, P!other_binds(a) PROVE PInv'
    <2>1. UNCHANGED <<ppidfile, saved, proxy, ppc, pcall, pstale, ploose>>
      BY <1>4 DEF P!other_binds, P!disk
    <2>2. P!TypeOK'
      BY <1>4, <2>1 DEF P!other_binds, PInv, P!TypeOK
    <2> QED
      BY <2>1, <2>2 DEF PInv, Begun, Sure, Over, Living, Noted, Addressed, P!resolved_litellm_base_url,
        P!Proxy, P!Port, P!None
  <1>5. CASE UNCHANGED P!vars
    <2>1. UNCHANGED <<ppidfile, saved, proxy, others, ppc, pcall, pstale, ploose, pfaults>>
      BY <1>5 DEF P!vars
    <2>2. P!TypeOK'
      BY <2>1 DEF PInv, P!TypeOK
    <2> QED
      BY <2>1, <2>2 DEF PInv, Begun, Sure, Over, Living, Noted, Addressed, P!resolved_litellm_base_url,
        P!Proxy, P!Port, P!None
  <1> QED
    BY <1>1, <1>2, <1>3, <1>4, <1>5 DEF P!Next

\* However many shells start and stop the node at once, whatever takes its ports and
\* wherever a proxy fails: while nobody starts or stops, a proxy that serves is the one
\* in the pid file, and its port the address that everybody resolves, unless invocations
\* have crossed or one has died.
THEOREM ProxyKept ==
    ASSUME MaxPort \in Nat \ {0}
    PROVE  P!Spec => []ProxyFound
  <1>1. P!Init => PInv
    BY StartupInit
  <1>2. PInv /\ [P!Next]_(P!vars) => PInv'
    BY StartupNext
  <1>3. PInv => ProxyFound
    BY DEF PInv, Living, Noted, Addressed, ProxyFound, P!ProxyFound
  <1> QED
    BY <1>1, <1>2, <1>3, PTL DEF P!Spec

\* The saved address, the proxies and the shells keep their types.
THEOREM StartupTyped ==
    ASSUME MaxPort \in Nat \ {0}
    PROVE  P!Spec => []P!TypeOK
  <1>1. P!Init => PInv
    BY StartupInit
  <1>2. PInv /\ [P!Next]_(P!vars) => PInv'
    BY StartupNext
  <1>3. PInv => P!TypeOK
    BY DEF PInv
  <1> QED
    BY <1>1, <1>2, <1>3, PTL DEF P!Spec

------------------------------------------------------------------------------
(* TaskPipeline.  A ledger that no stale shell has written is torn exactly *)
(* while one shell writes it, which nobody has crossed since it read it    *)
(* (Torn, Sole); otherwise it has the blockers recorded, and a shell that  *)
(* nobody crossed has read those (Read).  A ship's tree is in order from   *)
(* its gates to its commit, or somebody has edited (Checked).              *)

Dumps == {"create_dump", "close_dump", "blocked_dump"}
Creating == {"create_open", "create_dump", "create_logs", "create_metric"}
Closing == {"close_read", "gates", "close_open", "close_dump", "close_metric", "close_append"}
Blocking == {"blocked_read", "blocked_open", "blocked_dump"}
AfterClose == {"scan", "precheck", "add", "commit", "push"} \cup Blocking

\* Shell s ships, has passed its gates, and has yet to stage the tree.
WillStage(s) ==
    /\ tcall[s].ships
    /\ \/ tpc[s] \in {"close_open", "close_dump", "close_metric", "close_append", "scan", "precheck", "add"}
       \/ tpc[s] \in Blocking /\ tcall[s].after = "add"

PipeType ==
    /\ ledger \in [T!Task -> T!Ledger] /\ recorded \in [T!Task -> 0 .. MaxBlocked]
    /\ tpc \in [Shell -> T!Label] /\ tcall \in [Shell -> T!Call]

Placed ==
    /\ \A s \in Shell : tpc[s] \in Creating \cup Closing => lock = s
    /\ \A s \in Shell : IF tpc[s] = "idle" THEN T!Of(s) = T!NoTask ELSE T!Of(s) \in T!Task
    /\ \A s \in Shell : tpc[s] \in {"blocked_open", "blocked_dump"} => tcall[s].ledger.status = "blocked"

\* A task whose ledger is being made is nobody else's yet.
Making ==
    /\ \A t \in T!Task : ledger[t].status = "absent" =>
         ledger[t].blockers = 0 /\ recorded[t] = 0 /\ \A s \in Shell : T!Of(s) = t => tpc[s] = "create_open"
    /\ \A s \in Shell : tpc[s] \in {"create_open", "create_dump"} =>
         /\ s \notin tstale /\ recorded[T!Of(s)] = 0
         /\ tpc[s] = "create_open" => ledger[T!Of(s)].status = "absent"
         /\ \A u \in Shell : u # s /\ T!Of(u) = T!Of(s) => tpc[u] = "lock"

\* What shell s, whose task no stale shell has written, knows of the ledger.
Knows(s) ==
    /\ tpc[s] \in Dumps =>
         /\ s \notin tstale /\ ledger[T!Of(s)] = T!Torn
         /\ \A u \in Shell : T!Of(u) = T!Of(s) /\ tpc[u] \in Dumps => u = s
         /\ tpc[s] = "close_dump" => tcall[s].ledger.blockers = recorded[T!Of(s)]
         /\ tpc[s] = "blocked_dump" => tcall[s].ledger.blockers = recorded[T!Of(s)] + 1
    /\ tpc[s] \in {"gates", "close_open", "blocked_open"} /\ s \notin tstale =>
         /\ ledger[T!Of(s)].status \in T!Readable
         /\ IF tpc[s] = "blocked_open" THEN tcall[s].ledger.blockers = recorded[T!Of(s)] + 1
                                      ELSE tcall[s].ledger.blockers = recorded[T!Of(s)]

Counted == \A t \in T!Task \ crossed :
    IF ledger[t].status = "torn" THEN \E s \in Shell : T!Of(s) = t /\ tpc[s] \in Dumps
                                 ELSE ledger[t].blockers = recorded[t]

Checked ==
    /\ \A s \in Shell : tpc[s] \in AfterClose => tcall[s].ships
    /\ ~edited => /\ index \in gated /\ head \in gated /\ remote \in gated
                  /\ \A s \in Shell : WillStage(s) => tree \in gated

LInv ==
    /\ PipeType /\ Placed /\ Making /\ Counted
    /\ \A s \in Shell : T!Of(s) \notin crossed => Knows(s)

TInv == LInv /\ Checked

LEMMA PipelineInit ==
    ASSUME MaxBlocked \in Nat, "free" \notin Shell, T!Init
    PROVE  TInv
  <1>1. /\ T!NoLedger \in T!Ledger /\ T!NoCall \in T!Call
        /\ \A s \in Shell : tpc[s] = "idle" /\ tcall[s] = T!NoCall
        /\ \A t \in T!Task : ledger[t] = T!NoLedger /\ recorded[t] = 0
    BY DEF T!Init, T!NoLedger, T!NoCall, T!Ledger, T!Call, T!Status
  <1>2. PipeType
    BY <1>1 DEF T!Init, PipeType, T!Label
  <1>3. Placed /\ Making /\ Counted
    BY <1>1 DEF Placed, Making, Counted, T!Of, T!NoCall, T!NoLedger, T!NoTask, T!Task, Creating, Closing
  <1>4. \A s \in Shell : Knows(s)
    BY <1>1 DEF Knows, Dumps
  <1>5. Checked
    BY <1>1 DEF T!Init, Checked, WillStage, AfterClose, Blocking
  <1> QED
    BY <1>2, <1>3, <1>4, <1>5 DEF TInv, LInv

\* A step of shell s that writes no ledger and does not go on to write one.
LEMMA PipeQuiet ==
    ASSUME LInv, NEW s \in Shell, NEW l \in T!Label \ (Dumps \cup {"create_open"}), NEW c \in T!Call,
           tpc' = [tpc EXCEPT ![s] = l], tcall' = [tcall EXCEPT ![s] = c],
           UNCHANGED <<ledger, recorded>>, crossed \subseteq crossed', tstale' \in {tstale, tstale \ {s}},
           IF l = "idle" THEN c.task = T!NoTask
           ELSE \/ c.task = T!Of(s) /\ c.task \in T!Task /\ tpc[s] # "create_open"
                \/ l = "lock" /\ c.task \in T!Task /\ ledger[c.task].status # "absent",
           tpc[s] \in Dumps => T!Of(s) \in crossed',
           tpc[s] = "lock" => l = "idle" \/ l \in Closing,
           l \in Creating \cup Closing => lock' = s,
           \A u \in Shell : u # s /\ lock = u => lock' = u,
           l \in {"gates", "close_open", "blocked_open"} =>
             \/ tpc[s] = "gates" /\ l = "close_open" /\ c = tcall[s] /\ tstale' = tstale
             \/ /\ c.task = T!Of(s) /\ ledger[c.task].status \in T!Readable
                /\ c.ledger.blockers = IF l = "blocked_open" THEN ledger[c.task].blockers + 1 ELSE ledger[c.task].blockers,
           l = "blocked_open" => c.ledger.status = "blocked"
    PROVE  LInv'
  <1>1. /\ tpc'[s] = l /\ tcall'[s] = c
        /\ \A u \in Shell : u # s => tpc'[u] = tpc[u] /\ tcall'[u] = tcall[u] /\ (u \in tstale' <=> u \in tstale)
    BY DEF LInv, PipeType
  <1>2. T!Of(s)' = c.task /\ \A u \in Shell : u # s => T!Of(u)' = T!Of(u)
    BY <1>1 DEF T!Of
  <1>3. PipeType'
    BY DEF LInv, PipeType
  <1>4. Placed'
    BY <1>1, <1>2 DEF LInv, Placed, Dumps
  <1>5. Making'
    <2>1. ASSUME NEW t \in T!Task, ledger[t].status = "absent"
          PROVE  \A u \in Shell : T!Of(u)' = t => tpc'[u] = "create_open"
      BY <1>1, <1>2, <2>1 DEF LInv, Making, T!NoTask, T!Task
    <2>2. ASSUME NEW u \in Shell, tpc'[u] \in {"create_open", "create_dump"}
          PROVE  /\ u \notin tstale' /\ recorded[T!Of(u)'] = 0
                 /\ tpc'[u] = "create_open" => ledger[T!Of(u)'].status = "absent"
                 /\ \A w \in Shell : w # u /\ T!Of(w)' = T!Of(u)' => tpc'[w] = "lock"
      <3>1. u # s /\ tpc[u] = tpc'[u] /\ lock = u /\ T!Of(u)' = T!Of(u) /\ T!Of(u) \in T!Task
        BY <1>1, <1>2, <2>2 DEF LInv, Placed, Creating, Dumps
      <3>2. lock' # s /\ l \notin Closing
        BY <3>1
      <3>3. ASSUME c.task = T!Of(u) PROVE l = "lock"
        <4>1. l # "idle"
          BY <3>1, <3>3 DEF T!NoTask, T!Task
        <4>2. CASE c.task = T!Of(s)
          BY <2>2, <3>1, <3>2, <3>3, <4>1, <4>2 DEF LInv, Making
        <4> QED
          BY <4>1, <4>2
      <3> QED
        BY <1>1, <1>2, <2>2, <3>1, <3>3 DEF LInv, Making
    <2> QED
      BY <2>1, <2>2 DEF LInv, Making
  <1>6. Counted'
    BY <1>1, <1>2 DEF LInv, Counted
  <1>7. ASSUME NEW u \in Shell, T!Of(u)' \notin crossed' PROVE Knows(u)'
    <2>1. CASE u # s
      <3>1. Knows(u)
        BY <1>2, <1>7, <2>1 DEF LInv
      <3> QED
        BY <1>1, <1>2, <2>1, <3>1 DEF Knows, Dumps
    <2>2. CASE u = s
      <3>1. ASSUME l \in {"gates", "close_open", "blocked_open"}, s \notin tstale'
            PROVE  /\ ledger[c.task].status \in T!Readable
                   /\ c.ledger.blockers = IF l = "blocked_open" THEN recorded[c.task] + 1 ELSE recorded[c.task]
        <4>1. CASE tpc[s] = "gates" /\ l = "close_open" /\ c = tcall[s] /\ tstale' = tstale
          <5>1. Knows(s) /\ c.task = T!Of(s)
            BY <1>2, <1>7, <2>2, <4>1 DEF LInv, T!Of
          <5> QED
            BY <3>1, <4>1, <5>1 DEF Knows
        <4>2. CASE ~(tpc[s] = "gates" /\ l = "close_open" /\ c = tcall[s] /\ tstale' = tstale)
          <5>1. c.task \in T!Task \ crossed /\ ledger[c.task].status \in T!Readable
            BY <1>2, <1>7, <2>2, <3>1, <4>2 
          <5>2. ledger[c.task].blockers = recorded[c.task]
            BY <5>1 DEF LInv, Counted, T!Readable
          <5> QED
            BY <3>1, <4>2, <5>1, <5>2
        <4> QED
          BY <4>1, <4>2
      <3> QED
        BY <1>1, <1>2, <2>2, <3>1 DEF Knows
    <2> QED
      BY <2>1, <2>2
  <1> QED
    BY <1>3, <1>4, <1>5, <1>6, <1>7 DEF LInv

\* Shell s opens the ledger, which empties it.
LEMMA PipeOpen ==
    ASSUME LInv, MaxBlocked \in Nat, NEW s \in Shell, NEW from, NEW next, T!open(s, from, next),
           \/ from = "create_open" /\ next = "create_dump"
           \/ from = "close_open" /\ next = "close_dump"
           \/ from = "blocked_open" /\ next = "blocked_dump"
    PROVE  LInv'
  <1> DEFINE t == T!Of(s)
  <1>1. /\ tpc[s] = from /\ tpc' = [tpc EXCEPT ![s] = next] /\ ledger' = [ledger EXCEPT ![t] = T!Torn]
        /\ tstale' = tstale \cup {u \in Shell \ {s} : tpc[u] \in T!Holding /\ T!Of(u) = t}
        /\ crossed' = (IF s \in tstale THEN crossed \cup {t} ELSE crossed)
        /\ UNCHANGED <<lock, tcall, recorded>>
    BY DEF T!open, T!Goto, T!SetLedger
  <1>2. /\ tpc'[s] = next /\ \A u \in Shell : u # s => tpc'[u] = tpc[u]
        /\ \A u \in Shell : T!Of(u)' = T!Of(u)
        /\ s \in tstale' <=> s \in tstale
        /\ t \in T!Task
    BY <1>1 DEF LInv, PipeType, T!Of, Placed
  <1>3. /\ ledger'[t] = T!Torn /\ T!Torn \in T!Ledger /\ T!Torn.status = "torn"
        /\ \A x \in T!Task : x # t => ledger'[x] = ledger[x]
    BY <1>1, <1>2 DEF LInv, PipeType, T!Torn, T!Ledger, T!Status
  <1> HIDE DEF t
  <1>4. PipeType'
    <2>1. next \in T!Label
      BY DEF T!Label
    <2> QED
      BY <1>1, <1>3, <2>1 DEF LInv, PipeType
  <1>5. Placed'
    BY <1>1, <1>2 DEF LInv, Placed, Creating, Closing
  <1>6. t \notin crossed' => s \notin tstale /\ t \notin crossed /\ Knows(s)
    BY <1>1 DEF LInv, t
  <1>7. ASSUME t \notin crossed', NEW u \in Shell, u # s, T!Of(u) = t
        PROVE  tpc[u] \notin Dumps
    <2>1. CASE from = "create_open"
      BY <1>1, <1>7, <2>1 DEF LInv, Making, Dumps, t
    <2>2. CASE from # "create_open"
      <3>1. ledger[t].status \in T!Readable
        BY <1>1, <1>6, <1>7, <2>2 DEF Knows, t
      <3>2. Knows(u)
        BY <1>6, <1>7 DEF LInv
      <3> QED
        BY <1>3, <1>7, <3>1, <3>2 DEF Knows, T!Readable
    <2> QED
      BY <2>1, <2>2
  <1>8. Making'
    <2>1. \A x \in T!Task : ledger'[x].status = "absent" => ledger'[x] = ledger[x] /\ x # t
      BY <1>3
    <2>2. ASSUME NEW x \in T!Task, x # t, ledger[x].status = "absent", NEW u \in Shell, T!Of(u) = x
          PROVE  tpc'[u] = "create_open"
      BY <1>2, <2>2 DEF LInv, Making, t
    <2>3. ASSUME NEW u \in Shell, tpc'[u] \in {"create_open", "create_dump"}
          PROVE  /\ u \notin tstale' /\ recorded[T!Of(u)] = 0
                 /\ tpc'[u] = "create_open" => ledger'[T!Of(u)].status = "absent"
                 /\ \A w \in Shell : w # u /\ T!Of(w) = T!Of(u) => tpc'[w] = "lock"
      <3>1. CASE u = s
        BY <1>1, <1>2, <2>3, <3>1 DEF LInv, Making
      <3>2. CASE u # s
        <4>1. tpc[u] = tpc'[u] /\ lock = u /\ T!Of(u) \in T!Task
          BY <1>2, <2>3, <3>2 DEF LInv, Placed, Creating
        <4>2. T!Of(s) # T!Of(u)
          BY <1>1, <2>3, <3>2, <4>1 DEF LInv, Making
        <4>3. u \notin tstale'
          BY <1>1, <2>3, <4>1 DEF LInv, Making, T!Holding
        <4> QED
          BY <1>2, <1>3, <2>3, <4>1, <4>2, <4>3 DEF LInv, Making, t
      <3> QED
        BY <3>1, <3>2
    <2> QED
      BY <1>1, <1>2, <2>1, <2>2, <2>3 DEF LInv, Making
  <1>9. Counted'
    <2> SUFFICES ASSUME NEW x \in T!Task \ crossed'
                 PROVE  IF ledger'[x].status = "torn" THEN \E u \in Shell : T!Of(u)' = x /\ tpc'[u] \in Dumps
                                                      ELSE ledger'[x].blockers = recorded'[x]
      BY DEF Counted
    <2>1. CASE x = t
      BY <1>2, <1>3, <2>1 DEF Dumps, t
    <2>2. CASE x # t
      <3>1. x \in T!Task \ crossed /\ ledger'[x] = ledger[x] /\ recorded' = recorded
        BY <1>1, <1>3, <2>2
      <3>2. \A u \in Shell : T!Of(u) = x => tpc'[u] = tpc[u]
        BY <1>2, <2>2 DEF t
      <3> QED
        BY <1>2, <3>1, <3>2 DEF LInv, Counted
    <2> QED
      BY <2>1, <2>2
  <1>10. ASSUME NEW u \in Shell, T!Of(u)' \notin crossed' PROVE Knows(u)'
    <2>0. T!Of(u) \notin crossed /\ Knows(u) /\ T!Of(u)' = T!Of(u)
      BY <1>1, <1>2, <1>10 DEF LInv
    <2>1. CASE T!Of(u) # t
      <3>1. u # s /\ tpc'[u] = tpc[u] /\ (u \in tstale' <=> u \in tstale)
        BY <1>1, <1>2, <2>1 DEF t
      <3>2. \A w \in Shell : T!Of(w) = T!Of(u) => tpc'[w] = tpc[w]
        BY <1>2, <2>1 DEF t
      <3>3. tpc[u] # "idle" => ledger'[T!Of(u)] = ledger[T!Of(u)]
        BY <1>3, <2>1 DEF LInv, Placed
      <3> QED
        BY <1>1, <1>2, <2>0, <3>1, <3>2, <3>3 DEF Knows, Dumps
    <2>2. CASE T!Of(u) = t /\ u # s
      <3>1. tpc'[u] = tpc[u] /\ tpc[u] \notin Dumps
        BY <1>2, <1>7, <1>10, <2>0, <2>2
      <3>2. tpc[u] \in T!Holding => u \in tstale'
        BY <1>1, <2>2
      <3> QED
        BY <3>1, <3>2 DEF Knows, T!Holding
    <2>3. CASE u = s
      <3>1. s \notin tstale' /\ ledger'[T!Of(s)] = T!Torn /\ t = T!Of(s) /\ t \notin crossed'
        BY <1>2, <1>3, <1>6, <1>10, <2>3 DEF t
      <3>2. \A w \in Shell : T!Of(w)' = t /\ tpc'[w] \in Dumps => w = s
        BY <1>2, <1>7, <3>1
      <3>3. /\ from = "close_open" => tcall[s].ledger.blockers = recorded[t]
            /\ from = "blocked_open" => tcall[s].ledger.blockers = recorded[t] + 1
        BY <1>1, <1>6, <3>1 DEF Knows
      <3> QED
        BY <1>1, <1>2, <2>3, <3>1, <3>2, <3>3 DEF Knows
    <2> QED
      BY <2>1, <2>2, <2>3
  <1> QED
    BY <1>4, <1>5, <1>8, <1>9, <1>10 DEF LInv

\* Shell s writes the ledger new.
LEMMA PipeDump ==
    ASSUME LInv, NEW s \in Shell, tpc[s] \in Dumps,
           NEW new \in T!Ledger, new.status \in T!Readable, T!SetLedger(s, new),
           NEW l \in T!Label \ (Dumps \cup {"create_open", "gates", "close_open", "blocked_open", "lock"}), NEW c \in T!Call,
           tpc' = [tpc EXCEPT ![s] = l], tcall' = [tcall EXCEPT ![s] = c], lock' = lock,
           recorded' \in [T!Task -> 0 .. MaxBlocked],
           \A x \in T!Task : x # T!Of(s) => recorded'[x] = recorded[x],
           T!Of(s) \notin crossed => new.blockers = recorded'[T!Of(s)],
           l \in Creating \cup Closing => tpc[s] \in Creating \cup Closing,
           IF l = "idle" THEN c.task = T!NoTask ELSE c.task = T!Of(s)
    PROVE  LInv'
  <1> DEFINE t == T!Of(s)
  <1>1. /\ ledger' = [ledger EXCEPT ![t] = new]
        /\ tstale' = tstale \cup {u \in Shell \ {s} : tpc[u] \in T!Holding /\ T!Of(u) = t}
        /\ crossed' = (IF s \in tstale THEN crossed \cup {t} ELSE crossed)
    BY DEF T!SetLedger
  <1>2. /\ tpc'[s] = l /\ tcall'[s] = c
        /\ \A u \in Shell : u # s => tpc'[u] = tpc[u] /\ tcall'[u] = tcall[u]
    BY DEF LInv, PipeType
  <1>3. /\ T!Of(s)' = c.task /\ \A u \in Shell : u # s => T!Of(u)' = T!Of(u)
        /\ t \in T!Task /\ T!Of(s)' \in {t, T!NoTask} /\ T!NoTask \notin T!Task
    BY <1>2 DEF LInv, Placed, T!Of, Dumps, T!NoTask, T!Task
  <1>4. ledger'[t] = new /\ \A x \in T!Task : x # t => ledger'[x] = ledger[x]
    BY <1>1, <1>3 DEF LInv, PipeType
  <1>5. t \in crossed' \/ (t \notin crossed /\ Knows(s))
    BY <1>1 DEF LInv
  <1>6. T!Of(s) = t /\ crossed \subseteq crossed'
    BY <1>1
  <1>7. t \notin crossed => new.blockers = recorded'[t]
    OBVIOUS
  <1>8. \A x \in T!Task : x # t => recorded'[x] = recorded[x]
    OBVIOUS
  <1> HIDE DEF t
  <1>9. PipeType'
    BY <1>1 DEF LInv, PipeType
  <1>10. Placed'
    BY <1>2, <1>3 DEF LInv, Placed, Dumps
  <1>11. Making'
    <2>1. ASSUME NEW x \in T!Task, ledger'[x].status = "absent"
          PROVE  ledger'[x].blockers = 0 /\ recorded'[x] = 0 /\ \A u \in Shell : T!Of(u)' = x => tpc'[u] = "create_open"
      <3>1. x # t /\ ledger'[x] = ledger[x] /\ recorded'[x] = recorded[x]
        BY <1>4, <1>8, <2>1 DEF T!Readable
      <3>2. T!Of(s)' # x
        BY <1>3, <3>1
      <3> QED
        BY <1>2, <1>3, <2>1, <3>1, <3>2 DEF LInv, Making
    <2>2. ASSUME NEW u \in Shell, tpc'[u] \in {"create_open", "create_dump"}
          PROVE  /\ u \notin tstale' /\ recorded'[T!Of(u)'] = 0
                 /\ tpc'[u] = "create_open" => ledger'[T!Of(u)'].status = "absent"
                 /\ \A w \in Shell : w # u /\ T!Of(w)' = T!Of(u)' => tpc'[w] = "lock"
      <3>1. u # s /\ tpc[u] = tpc'[u] /\ T!Of(u)' = T!Of(u) /\ T!Of(u) \in T!Task
        BY <1>2, <1>3, <2>2 DEF LInv, Placed, Dumps
      <3>2. T!Of(u) # t
        BY <1>6, <2>2, <3>1 DEF LInv, Making, Dumps
      <3>3. T!Of(s)' # T!Of(u)
        BY <1>3, <3>1, <3>2
      <3>4. u \notin tstale'
        BY <1>1, <2>2, <3>1 DEF LInv, Making, T!Holding
      <3> QED
        BY <1>2, <1>3, <1>4, <1>8, <2>2, <3>1, <3>2, <3>3, <3>4 DEF LInv, Making
    <2> QED
      BY <2>1, <2>2 DEF Making
  <1>12. Counted'
    <2> SUFFICES ASSUME NEW x \in T!Task \ crossed'
                 PROVE  IF ledger'[x].status = "torn" THEN \E u \in Shell : T!Of(u)' = x /\ tpc'[u] \in Dumps
                                                      ELSE ledger'[x].blockers = recorded'[x]
      BY DEF Counted
    <2>1. CASE x = t
      BY <1>4, <1>6, <1>7, <2>1 DEF T!Readable
    <2>2. CASE x # t
      <3>1. x \in T!Task \ crossed /\ ledger'[x] = ledger[x] /\ recorded'[x] = recorded[x]
        BY <1>4, <1>6, <1>8, <2>2
      <3>2. \A u \in Shell : T!Of(u) = x => T!Of(u)' = x /\ tpc'[u] = tpc[u]
        BY <1>2, <1>3, <1>6, <2>2
      <3> QED
        BY <3>1, <3>2 DEF LInv, Counted
    <2> QED
      BY <2>1, <2>2
  <1>13. ASSUME NEW u \in Shell, T!Of(u)' \notin crossed' PROVE Knows(u)'
    <2>1. CASE u = s
      BY <1>2, <2>1 DEF Knows, Dumps
    <2>2. CASE u # s /\ T!Of(u) = t
      <3>1. tpc'[u] = tpc[u] /\ t \notin crossed' /\ T!Of(u)' = t
        BY <1>2, <1>3, <1>13, <2>2
      <3>2. tpc[u] \notin Dumps
        BY <1>5, <1>6, <2>2, <3>1 DEF Knows
      <3>3. tpc[u] \in T!Holding => u \in tstale'
        BY <1>1, <2>2, <1>6
      <3> QED
        BY <3>1, <3>2, <3>3 DEF Knows, T!Holding
    <2>3. CASE u # s /\ T!Of(u) # t
      <3>1. /\ tpc'[u] = tpc[u] /\ tcall'[u] = tcall[u] /\ (u \in tstale' <=> u \in tstale) /\ T!Of(u)' = T!Of(u)
            /\ T!Of(u) \notin crossed /\ Knows(u)
        BY <1>1, <1>2, <1>3, <1>6, <1>13, <2>3 DEF LInv
      <3>2. \A w \in Shell : T!Of(w)' = T!Of(u) /\ tpc'[w] \in Dumps => T!Of(w) = T!Of(u) /\ tpc[w] \in Dumps
        BY <1>2, <1>3, <2>3
      <3>3. tpc[u] # "idle" => ledger'[T!Of(u)] = ledger[T!Of(u)] /\ recorded'[T!Of(u)] = recorded[T!Of(u)]
        BY <1>4, <1>8, <2>3 DEF LInv, Placed
      <3> QED
        BY <3>1, <3>2, <3>3 DEF Knows, Dumps
    <2> QED
      BY <2>1, <2>2, <2>3
  <1> QED
    BY <1>9, <1>10, <1>11, <1>12, <1>13 DEF LInv

\* The number of a new task is one that no ledger has.
LEMMA NextFree ==
    ASSUME MaxTask \in Nat, T!next_openteam_seq \in T!Task
    PROVE  ledger[T!next_openteam_seq].status = "absent"
  <1> DEFINE S == {t \in T!Task : ledger[t].status # "absent"} \cup {0}
  <1>1. PICK x \in S : \A y \in S : y <= x
    <2>1. S \in SUBSET (0 .. MaxTask) /\ S # {}
      BY DEF T!Task
    <2> HIDE DEF S
    <2> QED
      BY <2>1, Greatest
  <1>2. T!Max(S) \in S /\ \A y \in S : y <= T!Max(S)
    BY <1>1 DEF T!Max
  <1>3. T!next_openteam_seq \notin S
    <2> DEFINE m == T!Max(S)
    <2>1. T!next_openteam_seq = 1 + m
      BY DEF T!next_openteam_seq
    <2>2. S \subseteq Nat
      BY DEF T!Task
    <2>3. m \in S /\ \A y \in S : y <= m
      BY <1>2
    <2> HIDE DEF S, m
    <2>4. m \in Nat /\ 1 + m \notin S
      BY <2>2, <2>3
    <2> QED
      BY <2>1, <2>4
  <1> QED
    BY <1>3

LEMMA PipeCalls ==
    ASSUME MaxBlocked \in Nat
    PROVE  /\ T!NoCall \in T!Call /\ T!NoCall.task = T!NoTask /\ T!NoLedger \in T!Ledger
           /\ \A t \in T!Task, b \in BOOLEAN :
                /\ [T!NoCall EXCEPT !.task = t, !.ships = b] \in T!Call
                /\ [T!NoCall EXCEPT !.task = t, !.ships = b].task = t
           /\ \A t \in T!Task : [T!NoCall EXCEPT !.task = t] \in T!Call /\ [T!NoCall EXCEPT !.task = t].task = t
  <1>1. T!NoLedger \in T!Ledger
    BY DEF T!NoLedger, T!Ledger, T!Status
  <1> QED
    BY <1>1 DEF T!NoCall, T!Call, T!NoTask

LEMMA PipeCallLedger ==
    ASSUME NEW c \in T!Call, NEW new \in T!Ledger
    PROVE  LET d == [c EXCEPT !.ledger = new]
           IN  d \in T!Call /\ d.task = c.task /\ d.ledger = new /\ d.ships = c.ships /\ d.after = c.after
  BY DEF T!Call

LEMMA PipeCreate ==
    ASSUME MaxTask \in Nat, MaxBlocked \in Nat, "free" \notin Shell, LInv, NEW s \in Shell, T!task_create(s)
    PROVE  LInv'
  <1> DEFINE t == T!next_openteam_seq
             c == [T!NoCall EXCEPT !.task = t]
  <1>1. t \in T!Task /\ ledger[t].status = "absent"
    BY NextFree DEF T!task_create
  <1>2. c \in T!Call /\ c.task = t
    BY <1>1, PipeCalls
  <1>3. /\ tpc[s] = "idle" /\ lock = "free" /\ lock' = s
        /\ tpc' = [tpc EXCEPT ![s] = "create_open"] /\ tcall' = [tcall EXCEPT ![s] = c]
        /\ tstale' = tstale \ {s} /\ UNCHANGED <<ledger, recorded, crossed>>
    BY DEF T!task_create, T!Goto, T!Free, T!disk
  <1> HIDE DEF t, c
  <1>4. /\ tpc'[s] = "create_open" /\ tcall'[s] = c
        /\ \A u \in Shell : u # s => tpc'[u] = tpc[u] /\ tcall'[u] = tcall[u] /\ (u \in tstale' <=> u \in tstale)
    BY <1>3 DEF LInv, PipeType
  <1>5. T!Of(s)' = t /\ \A u \in Shell : u # s => T!Of(u)' = T!Of(u)
    BY <1>2, <1>4 DEF T!Of
  <1>6. \A u \in Shell : tpc[u] \notin Creating \cup Closing
    BY <1>3 DEF LInv, Placed
  <1>7. \A u \in Shell : T!Of(u) # t
    BY <1>1, <1>6 DEF LInv, Making, Creating
  <1>8. PipeType'
    BY <1>2, <1>3 DEF LInv, PipeType, T!Label
  <1>9. Placed'
    BY <1>1, <1>3, <1>4, <1>5, <1>6 DEF LInv, Placed
  <1>10. Making'
    BY <1>1, <1>3, <1>4, <1>5, <1>6, <1>7 DEF LInv, Making, Creating
  <1>11. Counted'
    <2>1. \A u \in Shell : tpc[u] \in Dumps => tpc'[u] = tpc[u] /\ T!Of(u)' = T!Of(u)
      BY <1>3, <1>4, <1>5 DEF Dumps
    <2> QED
      BY <1>3, <2>1 DEF LInv, Counted
  <1>12. ASSUME NEW u \in Shell, T!Of(u)' \notin crossed' PROVE Knows(u)'
    <2>1. CASE u = s
      BY <1>4, <2>1 DEF Knows, Dumps
    <2>2. CASE u # s
      <3>1. Knows(u)
        BY <1>3, <1>5, <1>12, <2>2 DEF LInv
      <3>2. \A w \in Shell : T!Of(w)' = T!Of(u)' /\ tpc'[w] \in Dumps => T!Of(w) = T!Of(u) /\ tpc[w] \in Dumps
        BY <1>4, <1>5, <2>2 DEF Dumps
      <3> QED
        BY <1>3, <1>4, <1>5, <2>2, <3>1, <3>2 DEF Knows
    <2> QED
      BY <2>1, <2>2
  <1> QED
    BY <1>8, <1>9, <1>10, <1>11, <1>12 DEF LInv

LEMMA PipeSteps ==
    ASSUME MaxTask \in Nat, MaxBlocked \in Nat, "free" \notin Shell, LInv, NEW s \in Shell, T!Step(s)
    PROVE  LInv'
  <1> USE DEF T!Goto, T!disk, T!git, T!ghosts, T!Free
  <1>0. /\ tpc[s] \in T!Label /\ tcall[s] \in T!Call /\ tcall[s].ledger \in T!Ledger /\ tcall[s].task = T!Of(s)
        /\ tcall = [tcall EXCEPT ![s] = tcall[s]]
        /\ tpc[s] # "idle" => T!Of(s) \in T!Task /\ ledger[T!Of(s)] \in T!Ledger
        /\ tpc[s] \in Creating \cup Closing => lock = s
    BY DEF LInv, PipeType, Placed, T!Call, T!Of
  <1>a. ASSUME tpc[s] \notin Dumps, T!Ends(s), crossed' = crossed, tstale' = tstale, UNCHANGED <<ledger, recorded>>,
               lock' = lock \/ T!Release(s)
        PROVE  LInv'
    <2>1. tpc' = [tpc EXCEPT ![s] = "idle"] /\ tcall' = [tcall EXCEPT ![s] = T!NoCall]
      BY <1>a DEF T!Ends
    <2>2. \A u \in Shell : u # s /\ lock = u => lock' = u
      BY <1>a DEF T!Release
    <2> QED
      BY <1>a, <2>1, <2>2, PipeCalls, PipeQuiet DEF T!Label, Creating, Closing, Dumps
  <1>b. ASSUME NEW l \in {"create_metric", "close_metric", "close_append", "scan", "precheck", "add", "commit", "push", "blocked_read"},
               NEW c \in T!Call, c.task = T!Of(s), tpc[s] \notin {"idle", "create_open", "lock"} \cup Dumps,
               l \in Creating \cup Closing => tpc[s] \in Creating \cup Closing /\ lock' = lock,
               lock' = lock \/ T!Release(s), tpc' = [tpc EXCEPT ![s] = l], tcall' = [tcall EXCEPT ![s] = c],
               UNCHANGED <<ledger, recorded, crossed, tstale>>
        PROVE  LInv'
    <2>1. l \in T!Label \ (Dumps \cup {"create_open"}) /\ l \notin {"idle", "lock", "gates", "close_open", "blocked_open"}
      BY DEF T!Label, Dumps
    <2>2. \A u \in Shell : u # s /\ lock = u => lock' = u
      BY <1>b DEF T!Release
    <2> QED
      BY <1>0, <1>b, <2>1, <2>2, PipeQuiet
  <1>1. CASE T!task_create(s)
    BY <1>1, PipeCreate
  <1>2. CASE T!create_open(s)
    BY <1>2, PipeOpen DEF T!create_open
  <1>3. CASE T!create_dump(s)
    <2> DEFINE new == [status |-> "intake", blockers |-> 0]
    <2>1. new \in T!Ledger /\ new.status \in T!Readable /\ new.blockers = 0
      BY DEF T!Ledger, T!Status, T!Readable
    <2>2. /\ tpc[s] = "create_dump" /\ tpc' = [tpc EXCEPT ![s] = "create_logs"] /\ T!SetLedger(s, new)
          /\ UNCHANGED <<tcall, lock, recorded>>
      BY <1>3 DEF T!create_dump
    <2>3. recorded[T!Of(s)] = 0 /\ recorded \in [T!Task -> 0 .. MaxBlocked]
      BY <2>2 DEF LInv, Making, PipeType
    <2> HIDE DEF new
    <2> DEFINE c == tcall[s]
               l == "create_logs"
    <2>4. /\ c \in T!Call /\ tcall' = [tcall EXCEPT ![s] = c] /\ c.task = T!Of(s)
          /\ l \in T!Label \ (Dumps \cup {"create_open", "gates", "close_open", "blocked_open", "lock"}) /\ l # "idle"
          /\ tpc' = [tpc EXCEPT ![s] = l] /\ tpc[s] \in Dumps /\ tpc[s] \in Creating
      BY <1>0, <2>2 DEF T!Label, Dumps, Creating
    <2> HIDE DEF c, l
    <2>6. /\ recorded' \in [T!Task -> 0 .. MaxBlocked] /\ lock' = lock
          /\ \A x \in T!Task : x # T!Of(s) => recorded'[x] = recorded[x]
          /\ T!Of(s) \notin crossed => new.blockers = recorded'[T!Of(s)]
          /\ T!SetLedger(s, new)
      BY <2>1, <2>2, <2>3, <2>4
    <2> QED
      BY <2>1, <2>4, <2>6, PipeDump
  <1>4. CASE T!create_logs(s)
    <2>1. /\ tpc[s] = "create_logs" /\ tpc' = [tpc EXCEPT ![s] = "create_metric"]
          /\ UNCHANGED <<ledger, recorded, crossed, tstale, tcall, lock>>
      BY <1>4 DEF T!create_logs
    <2> QED
      BY <1>0, <1>b, <2>1 DEF Creating, Dumps
  <1>5. CASE T!create_metric(s)
    BY <1>5, <1>a DEF T!create_metric, Dumps
  <1>6. CASE T!task_close(s)
    <2>1. PICK t \in T!Task, b \in BOOLEAN :
            ledger[t].status # "absent" /\ tcall' = [tcall EXCEPT ![s] = [T!NoCall EXCEPT !.task = t, !.ships = b]]
      BY <1>6 DEF T!task_close
    <2> DEFINE c == [T!NoCall EXCEPT !.task = t, !.ships = b]
    <2>2. c \in T!Call /\ c.task = t /\ tcall' = [tcall EXCEPT ![s] = c]
      BY <2>1, PipeCalls
    <2>3. /\ tpc[s] = "idle" /\ tpc' = [tpc EXCEPT ![s] = "lock"] /\ tstale' = tstale \ {s}
          /\ UNCHANGED <<ledger, recorded, crossed, lock>>
      BY <1>6 DEF T!task_close
    <2> HIDE DEF c
    <2> QED
      BY <2>1, <2>2, <2>3, PipeQuiet DEF T!Label, Dumps, Creating, Closing
  <1>7. CASE T!acquire(s)
    <2>1. /\ tpc[s] = "lock" /\ lock = "free" /\ lock' = s /\ tpc' = [tpc EXCEPT ![s] = "close_read"]
          /\ UNCHANGED <<ledger, recorded, crossed, tstale, tcall>>
      BY <1>7 DEF T!acquire
    <2> QED
      BY <1>0, <2>1, PipeQuiet DEF T!Label, Dumps, Closing
  <1>8. CASE T!close_gives_up(s)
    BY <1>8, <1>a DEF T!close_gives_up, Dumps
  <1>9. CASE T!close_read(s)
    <2> DEFINE c == [tcall[s] EXCEPT !.ledger = ledger[T!Of(s)]]
    <2>1. /\ tpc[s] = "close_read" /\ ledger[T!Of(s)].status \in T!Readable /\ tpc' = [tpc EXCEPT ![s] = "gates"]
          /\ tcall' = [tcall EXCEPT ![s] = c] /\ tstale' = tstale \ {s}
          /\ UNCHANGED <<ledger, recorded, crossed, lock>>
      BY <1>9 DEF T!close_read, T!Read
    <2>2. c \in T!Call /\ c.task = T!Of(s) /\ c.ledger = ledger[T!Of(s)]
      BY <1>0, <2>1, PipeCallLedger
    <2> HIDE DEF c
    <2> QED
      BY <1>0, <2>1, <2>2, PipeQuiet DEF T!Label, Dumps, Creating, Closing
  <1>10. CASE T!gates_passed(s)
    <2>1. PICK l \in {"close_metric", "close_open"} : tpc' = [tpc EXCEPT ![s] = l]
      BY <1>10 DEF T!gates_passed
    <2>2. tpc[s] = "gates" /\ UNCHANGED <<ledger, recorded, crossed, tstale, tcall, lock>>
      BY <1>10 DEF T!gates_passed
    <2> QED
      BY <1>0, <2>1, <2>2, PipeQuiet DEF T!Label, Dumps, Creating, Closing
  <1>11. CASE T!gates_failed(s)
    BY <1>11, <1>a DEF T!gates_failed, Dumps
  <1>12. CASE T!close_open(s)
    BY <1>12, PipeOpen DEF T!close_open
  <1>13. CASE T!close_dump(s)
    <2> DEFINE new == [tcall[s].ledger EXCEPT !.status = "closed"]
    <2>1. new \in T!Ledger /\ new.status \in T!Readable /\ new.blockers = tcall[s].ledger.blockers
      BY <1>0 DEF T!Ledger, T!Status, T!Readable
    <2>2. /\ tpc[s] = "close_dump" /\ tpc' = [tpc EXCEPT ![s] = "close_metric"] /\ T!SetLedger(s, new)
          /\ UNCHANGED <<tcall, lock, recorded>>
      BY <1>13 DEF T!close_dump
    <2>3. T!Of(s) \notin crossed => tcall[s].ledger.blockers = recorded[T!Of(s)]
      BY <2>2 DEF LInv, Knows, Dumps
    <2>4. recorded \in [T!Task -> 0 .. MaxBlocked]
      BY DEF LInv, PipeType
    <2> HIDE DEF new
    <2> DEFINE c == tcall[s]
               l == "close_metric"
    <2>5. /\ c \in T!Call /\ tcall' = [tcall EXCEPT ![s] = c] /\ c.task = T!Of(s)
          /\ l \in T!Label \ (Dumps \cup {"create_open", "gates", "close_open", "blocked_open", "lock"}) /\ l # "idle"
          /\ tpc' = [tpc EXCEPT ![s] = l] /\ tpc[s] \in Dumps /\ tpc[s] \in Closing
      BY <1>0, <2>2 DEF T!Label, Dumps, Closing
    <2> HIDE DEF c, l
    <2>6. /\ recorded' \in [T!Task -> 0 .. MaxBlocked] /\ lock' = lock
          /\ \A x \in T!Task : x # T!Of(s) => recorded'[x] = recorded[x]
          /\ T!Of(s) \notin crossed => new.blockers = recorded'[T!Of(s)]
          /\ T!SetLedger(s, new)
      BY <2>1, <2>2, <2>3, <2>4, <2>5
    <2> QED
      BY <2>1, <2>4, <2>5, <2>6, PipeDump
  <1>14. ASSUME T!Closed(s), tpc[s] \in {"close_metric", "close_append"}, UNCHANGED <<ledger, recorded, crossed, tstale>>
         PROVE  LInv'
    <2>1. CASE tcall[s].ships
      <3> DEFINE c == [tcall[s] EXCEPT !.ledger = T!NoLedger]
      <3>1. c \in T!Call /\ c.task = T!Of(s)
        BY <1>0, PipeCalls, PipeCallLedger
      <3>2. tpc' = [tpc EXCEPT ![s] = "scan"] /\ tcall' = [tcall EXCEPT ![s] = c] /\ T!Release(s)
        BY <1>14, <2>1 DEF T!Closed
      <3> HIDE DEF c
      <3> QED
        BY <1>14, <1>b, <3>1, <3>2 DEF Creating, Closing, Dumps
    <2>2. CASE ~tcall[s].ships
      BY <1>14, <1>a, <2>2 DEF T!Closed, Dumps
    <2> QED
      BY <2>1, <2>2
  <1>15. CASE T!has_task_closed_event(s)
    <2>1. tpc[s] = "close_metric" /\ UNCHANGED <<ledger, recorded, crossed, tstale>>
      BY <1>15 DEF T!has_task_closed_event
    <2>2. CASE T!Closed(s)
      BY <1>14, <2>1, <2>2
    <2>3. CASE tpc' = [tpc EXCEPT ![s] = "close_append"] /\ UNCHANGED <<lock, tcall>>
      BY <1>0, <1>b, <2>1, <2>3 DEF Closing, Dumps
    <2> QED
      BY <1>15, <2>2, <2>3 DEF T!has_task_closed_event
  <1>16. CASE T!close_append(s)
    BY <1>14, <1>16 DEF T!close_append
  <1>17. ASSUME NEW a \in {"idle", "add"}, NEW b \in BOOLEAN, T!MarkBlocked(s, a, b), tpc[s] \in {"scan", "precheck", "push"},
                UNCHANGED <<ledger, recorded, crossed, tstale, lock>>
         PROVE  LInv'
    <2> DEFINE c == [tcall[s] EXCEPT !.after = a, !.broken = b]
    <2>1. c \in T!Call /\ c.task = T!Of(s)
      <3>1. tcall[s] \in T!Call /\ tcall[s].task = T!Of(s)
        BY <1>0
      <3>2. a \in {"idle", "add"} /\ b \in BOOLEAN
        BY <1>17
      <3> QED
        BY <3>1, <3>2 DEF T!Call
    <2>2. tpc' = [tpc EXCEPT ![s] = "blocked_read"] /\ tcall' = [tcall EXCEPT ![s] = c]
      BY <1>17 DEF T!MarkBlocked
    <2> HIDE DEF c
    <2> QED
      BY <1>17, <1>b, <2>1, <2>2 DEF Creating, Closing, Dumps
  <1>18. CASE T!secrets_scan(s)
    <2>1. tpc[s] = "scan" /\ UNCHANGED <<ledger, recorded, crossed, tstale, lock>>
      BY <1>18 DEF T!secrets_scan
    <2>2. CASE tpc' = [tpc EXCEPT ![s] = "precheck"] /\ UNCHANGED tcall
      BY <1>0, <1>b, <2>1, <2>2 DEF Creating, Closing, Dumps
    <2> QED
      BY <1>a, <1>17, <1>18, <2>1, <2>2 DEF T!secrets_scan, Dumps
  <1>19. CASE T!precheck(s)
    <2>1. tpc[s] = "precheck" /\ UNCHANGED <<ledger, recorded, crossed, tstale, lock>>
      BY <1>19 DEF T!precheck
    <2>2. CASE tpc' = [tpc EXCEPT ![s] = "add"] /\ UNCHANGED tcall
      BY <1>0, <1>b, <2>1, <2>2 DEF Creating, Closing, Dumps
    <2> QED
      BY <1>17, <1>19, <2>1, <2>2 DEF T!precheck
  <1>20. CASE T!git_add(s) \/ T!git_commit(s) \/ T!git_push(s)
    <2>1. tpc[s] \in {"add", "commit", "push"} /\ UNCHANGED <<ledger, recorded, crossed, tstale, lock>>
      BY <1>20 DEF T!git_add, T!git_commit, T!git_push
    <2>2. ASSUME NEW l \in {"commit", "push"}, tpc' = [tpc EXCEPT ![s] = l], tcall' = tcall PROVE LInv'
      BY <1>0, <1>b, <2>1, <2>2 DEF Creating, Closing, Dumps
    <2>3. ASSUME T!Ends(s) PROVE LInv'
      BY <1>a, <2>1, <2>3 DEF Dumps
    <2> QED
      BY <1>20, <2>2, <2>3 DEF T!git_add, T!git_commit, T!git_push
  <1>21. CASE T!git_fails(s)
    <2>1. tpc[s] \in {"commit", "push"} /\ UNCHANGED <<ledger, recorded, crossed, tstale, lock>>
      BY <1>21 DEF T!git_fails
    <2> QED
      BY <1>a, <1>17, <1>21, <2>1 DEF T!git_fails, Dumps
  <1>22. CASE T!blocked_read(s)
    <2>1. tpc[s] = "blocked_read" /\ UNCHANGED <<ledger, recorded, crossed, lock>>
      BY <1>22 DEF T!blocked_read
    <2>2. CASE ledger[T!Of(s)].status \in T!Readable /\ ledger[T!Of(s)].blockers < MaxBlocked
      <3> DEFINE new == [status |-> "blocked", blockers |-> ledger[T!Of(s)].blockers + 1]
                 c == [tcall[s] EXCEPT !.ledger = new]
      <3>1. new \in T!Ledger /\ new.status = "blocked" /\ new.blockers = ledger[T!Of(s)].blockers + 1
        <4>1. ledger[T!Of(s)].blockers \in 0 .. MaxBlocked
          BY <1>0, <2>1 DEF T!Ledger
        <4>2. ledger[T!Of(s)].blockers + 1 \in 0 .. MaxBlocked
          BY <2>2, <4>1
        <4> QED
          BY <4>2 DEF T!Ledger, T!Status
      <3>2. /\ tpc' = [tpc EXCEPT ![s] = "blocked_open"] /\ tcall' = [tcall EXCEPT ![s] = c] /\ tstale' = tstale \ {s}
        BY <1>22, <2>2 DEF T!blocked_read, T!Read
      <3> HIDE DEF new
      <3>3. c \in T!Call /\ c.task = T!Of(s) /\ c.ledger = new
        BY <1>0, <3>1, PipeCallLedger
      <3> HIDE DEF c
      <3> QED
        BY <1>0, <2>1, <2>2, <3>1, <3>2, <3>3, PipeQuiet DEF T!Label, Dumps, Creating, Closing
    <2>3. CASE T!Ends(s) /\ tstale' = tstale
      BY <1>a, <2>1, <2>3 DEF Dumps
    <2> QED
      BY <1>22, <2>2, <2>3 DEF T!blocked_read
  <1>23. CASE T!blocked_open(s)
    BY <1>23, PipeOpen DEF T!blocked_open
  <1>24. CASE T!blocked_dump(s)
    <2> DEFINE new == tcall[s].ledger
    <2>1. /\ tpc[s] = "blocked_dump" /\ T!SetLedger(s, new) /\ lock' = lock
          /\ recorded' = [recorded EXCEPT ![T!Of(s)] = IF recorded[T!Of(s)] < MaxBlocked THEN recorded[T!Of(s)] + 1
                                                       ELSE recorded[T!Of(s)]]
      BY <1>24 DEF T!blocked_dump
    <2>2. new \in T!Ledger /\ new.status \in T!Readable /\ new.blockers \in 0 .. MaxBlocked
      BY <1>0, <2>1 DEF LInv, Placed, T!Readable, T!Ledger
    <2>3. T!Of(s) \in T!Task /\ recorded \in [T!Task -> 0 .. MaxBlocked] /\ recorded[T!Of(s)] \in 0 .. MaxBlocked
      BY <1>0, <2>1 DEF LInv, PipeType
    <2>4. recorded' \in [T!Task -> 0 .. MaxBlocked] /\ \A x \in T!Task : x # T!Of(s) => recorded'[x] = recorded[x]
      BY <2>1, <2>3
    <2>5. T!Of(s) \notin crossed => new.blockers = recorded'[T!Of(s)]
      <3>1. T!Of(s) \notin crossed => new.blockers = recorded[T!Of(s)] + 1
        BY <2>1 DEF LInv, Knows, Dumps
      <3> QED
        BY <2>1, <2>2, <2>3, <3>1
    <2>6. PICK l \in {"idle", "add"}, c \in T!Call :
            /\ tpc' = [tpc EXCEPT ![s] = l] /\ tcall' = [tcall EXCEPT ![s] = c]
            /\ IF l = "idle" THEN c.task = T!NoTask ELSE c.task = T!Of(s)
      <3>1. CASE tcall[s].after = "idle"
        BY <1>24, <3>1, PipeCalls DEF T!blocked_dump, T!Ends
      <3>2. CASE tcall[s].after # "idle"
        <4> DEFINE c == [tcall[s] EXCEPT !.ledger = T!NoLedger]
        <4>1. c \in T!Call /\ c.task = T!Of(s)
          BY <1>0, PipeCalls, PipeCallLedger
        <4>2. tpc' = [tpc EXCEPT ![s] = "add"] /\ tcall' = [tcall EXCEPT ![s] = c]
          BY <1>24, <3>2 DEF T!blocked_dump
        <4> HIDE DEF c
        <4> QED
          BY <4>1, <4>2
      <3> QED
        BY <3>1, <3>2
    <2>7. /\ l \in T!Label \ (Dumps \cup {"create_open", "gates", "close_open", "blocked_open", "lock"})
          /\ l \notin Creating \cup Closing /\ tpc[s] \in Dumps
      BY <2>1 DEF T!Label, Dumps, Creating, Closing
    <2> HIDE DEF new
    <2> QED
      BY <2>1, <2>2, <2>4, <2>5, <2>6, <2>7, PipeDump
  <1>25. CASE T!shell_dies(s)
    <2>1. /\ tpc' = [tpc EXCEPT ![s] = "idle"] /\ tcall' = [tcall EXCEPT ![s] = T!NoCall] /\ T!Release(s)
          /\ crossed' = (IF tpc[s] \in Dumps THEN crossed \cup {T!Of(s)} ELSE crossed)
          /\ UNCHANGED <<ledger, recorded, tstale>>
      BY <1>25 DEF T!shell_dies, T!Ends, Dumps
    <2>2. \A u \in Shell : u # s /\ lock = u => lock' = u
      BY <2>1 DEF T!Release
    <2> QED
      BY <2>1, <2>2, PipeCalls, PipeQuiet DEF T!Label, Dumps, Creating, Closing
  <1> QED
    BY <1>1, <1>2, <1>3, <1>4, <1>5, <1>6, <1>7, <1>8, <1>9, <1>10, <1>11, <1>12, <1>13, <1>15, <1>16, <1>18, <1>19,
      <1>20, <1>21, <1>22, <1>23, <1>24, <1>25 DEF T!Step

\* A step of shell s as the tree sees it.
LEMMA TreeStep ==
    ASSUME PipeType, Checked, NEW s \in Shell, NEW l \in T!Label, NEW c \in T!Call,
           tpc' = [tpc EXCEPT ![s] = l], tcall' = [tcall EXCEPT ![s] = c],
           UNCHANGED <<tree, edited>>, gated \subseteq gated',
           l \in AfterClose => c.ships,
           ~edited => index' \in gated' /\ head' \in gated' /\ remote' \in gated',
           \/ WillStage(s) \/ tree \in gated' \/ ~c.ships
           \/ l \notin {"close_open", "close_dump", "close_metric", "close_append", "scan", "precheck", "add"} \cup Blocking
           \/ (l \in Blocking /\ c.after # "add")
    PROVE  Checked'
  <1>1. /\ tpc'[s] = l /\ tcall'[s] = c
        /\ \A u \in Shell : u # s => tpc'[u] = tpc[u] /\ tcall'[u] = tcall[u]
    BY DEF PipeType
  <1>2. \A u \in Shell : tpc'[u] \in AfterClose => tcall'[u].ships
    BY <1>1 DEF Checked
  <1>3. ASSUME ~edited, NEW u \in Shell, WillStage(u)' PROVE tree' \in gated'
    <2>1. CASE u = s
      BY <1>1, <1>3, <2>1 DEF WillStage, Checked, Blocking
    <2>2. CASE u # s
      BY <1>1, <1>3, <2>2 DEF WillStage, Checked
    <2> QED
      BY <2>1, <2>2
  <1> QED
    BY <1>2, <1>3 DEF Checked

LEMMA TreeNext ==
    ASSUME MaxBlocked \in Nat, PipeType, Placed, Checked, [T!Next]_(T!vars)
    PROVE  Checked'
  <1> USE DEF T!Goto, T!disk, T!git, T!ghosts
  <1> DEFINE Same == UNCHANGED <<tree, index, head, remote, gated, edited>>
  <1>0. \A s \in Shell : tcall[s] \in T!Call /\ tpc[s] \in T!Label /\ tcall = [tcall EXCEPT ![s] = tcall[s]]
    BY DEF PipeType
  <1>1. ASSUME NEW s \in Shell, T!Ends(s), UNCHANGED <<tree, gated, edited>>,
               ~edited => index' \in gated' /\ head' \in gated' /\ remote' \in gated'
        PROVE  Checked'
    BY <1>1, PipeCalls, TreeStep DEF T!Ends, T!Label, AfterClose, Blocking
  <1>2. ASSUME NEW s \in Shell, NEW l \in T!Label \ (AfterClose \cup {"close_open", "close_dump", "close_metric", "close_append"}),
               NEW c \in T!Call, tpc' = [tpc EXCEPT ![s] = l], tcall' = [tcall EXCEPT ![s] = c], Same
        PROVE  Checked'
    BY <1>2, TreeStep DEF Checked, AfterClose
  <1>3. ASSUME NEW s \in Shell, NEW l \in T!Label, NEW c \in T!Call,
               tpc' = [tpc EXCEPT ![s] = l], tcall' = [tcall EXCEPT ![s] = c], UNCHANGED <<tree, gated, edited>>,
               ~edited => index' \in gated' /\ head' \in gated' /\ remote' \in gated',
               l \in AfterClose => c.ships, c.ships => WillStage(s)
        PROVE  Checked'
    BY <1>3, TreeStep
  <1>4. ASSUME NEW s \in Shell, T!Closed(s), Same, tpc[s] \in {"close_metric", "close_append"} PROVE Checked'
    <2>1. CASE tcall[s].ships
      <3> DEFINE c == [tcall[s] EXCEPT !.ledger = T!NoLedger]
      <3>1. c \in T!Call /\ c.ships
        BY <1>0, <2>1, PipeCalls, PipeCallLedger
      <3>2. tpc' = [tpc EXCEPT ![s] = "scan"] /\ tcall' = [tcall EXCEPT ![s] = c] /\ WillStage(s)
        BY <1>4, <2>1 DEF T!Closed, WillStage
      <3> HIDE DEF c
      <3> QED
        BY <1>3, <1>4, <3>1, <3>2 DEF T!Label, Checked
    <2>2. CASE ~tcall[s].ships
      BY <1>1, <1>4, <2>2 DEF T!Closed, Checked
    <2> QED
      BY <2>1, <2>2
  <1>5. ASSUME NEW s \in Shell, NEW a \in {"idle", "add"}, NEW b \in BOOLEAN, T!MarkBlocked(s, a, b), Same,
               tpc[s] \in AfterClose, a = "add" => tpc[s] = "precheck"
        PROVE  Checked'
    <2> DEFINE c == [tcall[s] EXCEPT !.after = a, !.broken = b]
    <2>1. tcall[s] \in T!Call /\ a \in {"idle", "add"} /\ b \in BOOLEAN
      BY <1>0
    <2>2. c \in T!Call /\ c.ships = tcall[s].ships /\ c.after = a
      BY <2>1 DEF T!Call
    <2>3. tpc' = [tpc EXCEPT ![s] = "blocked_read"] /\ tcall' = [tcall EXCEPT ![s] = c]
      BY <1>5 DEF T!MarkBlocked
    <2>4. tcall[s].ships /\ (a = "add" => WillStage(s))
      BY <1>5 DEF Checked, WillStage
    <2> HIDE DEF c
    <2> QED
      BY <1>5, <2>2, <2>3, <2>4, TreeStep DEF T!Label, Blocking, Checked
  <1>6. ASSUME NEW s \in Shell,
               T!task_create(s) \/ T!create_open(s) \/ T!create_dump(s) \/ T!create_logs(s) \/ T!task_close(s)
                 \/ T!acquire(s) \/ T!close_read(s)
        PROVE  Checked'
    <2>1. Same
      BY <1>6 DEF T!task_create, T!create_open, T!create_dump, T!create_logs, T!acquire, T!task_close, T!close_read, T!open
    <2>2. PICK l \in {"create_open", "create_dump", "create_logs", "create_metric", "lock", "close_read", "gates"} :
            tpc' = [tpc EXCEPT ![s] = l]
      BY <1>6 DEF T!task_create, T!create_open, T!create_dump, T!create_logs, T!acquire, T!task_close, T!close_read, T!open
    <2>3. \E c \in T!Call : tcall' = [tcall EXCEPT ![s] = c]
      <3>1. CASE T!task_create(s)
        <4> DEFINE c == [T!NoCall EXCEPT !.task = T!next_openteam_seq]
        <4>1. c \in T!Call /\ tcall' = [tcall EXCEPT ![s] = c]
          BY <3>1, PipeCalls DEF T!task_create
        <4> QED
          BY <4>1
      <3>2. CASE T!task_close(s)
        <4>1. PICK t \in T!Task, b \in BOOLEAN : tcall' = [tcall EXCEPT ![s] = [T!NoCall EXCEPT !.task = t, !.ships = b]]
          BY <3>2 DEF T!task_close
        <4>2. [T!NoCall EXCEPT !.task = t, !.ships = b] \in T!Call
          BY PipeCalls
        <4> QED
          BY <4>1, <4>2
      <3>3. CASE T!close_read(s)
        <4> DEFINE c == [tcall[s] EXCEPT !.ledger = ledger[T!Of(s)]]
        <4>1. tcall' = [tcall EXCEPT ![s] = c] /\ ledger[T!Of(s)].status \in T!Readable
          BY <3>3 DEF T!close_read, T!Read
        <4>2. c \in T!Call
          <5>1. tcall[s].task \in {T!NoTask} \cup T!Task
            BY <1>0 DEF T!Call
          <5>2. CASE T!Of(s) \in T!Task
            BY <1>0, <5>2, PipeCallLedger DEF PipeType
          <5>3. CASE T!Of(s) = T!NoTask
            BY <3>3, <5>3 DEF Placed, Closing, T!close_read, T!NoTask, T!Task
          <5> QED
            BY <5>1, <5>2, <5>3 DEF T!Of
        <4> QED
          BY <4>1, <4>2
      <3> QED
        BY <1>0, <1>6, <3>1, <3>2, <3>3 DEF T!create_open, T!create_dump, T!create_logs, T!acquire, T!open
    <2>4. l \in T!Label \ (AfterClose \cup {"close_open", "close_dump", "close_metric", "close_append"})
      BY DEF T!Label, AfterClose, Blocking
    <2> QED
      BY <1>2, <2>1, <2>2, <2>3, <2>4
  <1>7. ASSUME NEW s \in Shell, T!create_metric(s) \/ T!close_gives_up(s) \/ T!gates_failed(s) \/ T!git_push(s) \/ T!shell_dies(s)
        PROVE  Checked'
    BY <1>1, <1>7 DEF T!create_metric, T!close_gives_up, T!gates_failed, T!git_push, T!shell_dies, Checked
  <1>8. ASSUME NEW s \in Shell, T!gates_passed(s) PROVE Checked'
    <2>1. PICK l \in {"close_metric", "close_open"} : tpc' = [tpc EXCEPT ![s] = l]
      BY <1>8 DEF T!gates_passed
    <2>2. l \in T!Label /\ l \notin AfterClose
      BY DEF T!Label, AfterClose, Blocking
    <2>3. gated' = gated \cup {tree} /\ UNCHANGED <<tree, index, head, remote, edited, tcall>>
      BY <1>8 DEF T!gates_passed
    <2> QED
      BY <1>0, <2>1, <2>2, <2>3, TreeStep DEF Checked
  <1>9. ASSUME NEW s \in Shell, T!close_open(s) \/ T!close_dump(s) PROVE Checked'
    <2>1. Same /\ UNCHANGED tcall /\ tpc[s] \in {"close_open", "close_dump"}
      BY <1>9 DEF T!close_open, T!close_dump, T!open
    <2>2. PICK l \in {"close_dump", "close_metric"} : tpc' = [tpc EXCEPT ![s] = l]
      BY <1>9 DEF T!close_open, T!close_dump, T!open
    <2>3. l \in T!Label /\ l \notin AfterClose
      BY DEF T!Label, AfterClose, Blocking
    <2> QED
      BY <1>0, <1>3, <2>1, <2>2, <2>3 DEF WillStage, Checked
  <1>10. ASSUME NEW s \in Shell, T!has_task_closed_event(s) \/ T!close_append(s) PROVE Checked'
    <2>1. Same /\ tpc[s] \in {"close_metric", "close_append"}
      BY <1>10 DEF T!has_task_closed_event, T!close_append
    <2>2. CASE tpc' = [tpc EXCEPT ![s] = "close_append"] /\ UNCHANGED tcall
      <3> DEFINE l == "close_append"
      <3>1. l \in T!Label /\ l \notin AfterClose /\ tpc' = [tpc EXCEPT ![s] = l]
        BY <2>2 DEF T!Label, AfterClose, Blocking
      <3>2. tcall[s].ships => WillStage(s)
        BY <2>1 DEF WillStage
      <3> HIDE DEF l
      <3> QED
        BY <1>0, <1>3, <2>1, <2>2, <3>1, <3>2 DEF Checked
    <2> QED
      BY <1>4, <1>10, <2>1, <2>2 DEF T!has_task_closed_event, T!close_append
  <1>11. ASSUME NEW s \in Shell, T!secrets_scan(s) \/ T!precheck(s) PROVE Checked'
    <2>1. Same /\ tpc[s] \in {"scan", "precheck"}
      BY <1>11 DEF T!secrets_scan, T!precheck
    <2>2. tpc[s] \in AfterClose /\ tcall[s].ships
      BY <2>1 DEF AfterClose, Checked
    <2>3. ASSUME NEW l \in {"precheck", "add"}, tpc' = [tpc EXCEPT ![s] = l], UNCHANGED tcall PROVE Checked'
      BY <1>0, <1>3, <2>1, <2>2, <2>3 DEF WillStage, T!Label, Checked
    <2>4. ASSUME T!Ends(s) PROVE Checked'
      BY <1>1, <2>1, <2>4 DEF Checked
    <2> QED
      BY <1>5, <1>11, <2>1, <2>2, <2>3, <2>4 DEF T!secrets_scan, T!precheck
  <1>12. ASSUME NEW s \in Shell, T!git_add(s) PROVE Checked'
    <2>1. tpc[s] = "add" /\ index' = tree /\ UNCHANGED <<tree, head, remote, gated, edited>>
      BY <1>12 DEF T!git_add
    <2>2. tcall[s].ships /\ WillStage(s)
      BY <2>1 DEF Checked, AfterClose, WillStage
    <2>3. ~edited => index' \in gated' /\ head' \in gated' /\ remote' \in gated'
      BY <2>1, <2>2 DEF Checked
    <2>4. ASSUME tpc' = [tpc EXCEPT ![s] = "commit"], UNCHANGED tcall PROVE Checked'
      BY <1>0, <1>3, <2>1, <2>2, <2>3, <2>4 DEF T!Label
    <2> QED
      BY <1>1, <1>12, <2>1, <2>3, <2>4 DEF T!git_add
  <1>13. ASSUME NEW s \in Shell, T!git_commit(s) PROVE Checked'
    <2>1. tpc[s] = "commit" /\ head' = index /\ UNCHANGED <<tree, index, remote, gated, edited>>
      BY <1>13 DEF T!git_commit
    <2>2. tcall[s].ships
      BY <2>1 DEF Checked, AfterClose
    <2>3. ~edited => index' \in gated' /\ head' \in gated' /\ remote' \in gated'
      BY <2>1 DEF Checked
    <2>4. ASSUME tpc' = [tpc EXCEPT ![s] = "push"], UNCHANGED tcall PROVE Checked'
      BY <1>0, <2>1, <2>2, <2>3, <2>4, TreeStep DEF T!Label, Blocking
    <2> QED
      BY <1>1, <1>13, <2>1, <2>3, <2>4 DEF T!git_commit
  <1>14. ASSUME NEW s \in Shell, T!git_fails(s) PROVE Checked'
    <2>1. Same /\ tpc[s] \in {"commit", "push"} /\ tpc[s] \in AfterClose
      BY <1>14 DEF T!git_fails, AfterClose
    <2>2. ASSUME T!Ends(s) PROVE Checked'
      BY <1>1, <2>1, <2>2 DEF Checked
    <2> QED
      BY <1>5, <1>14, <2>1, <2>2 DEF T!git_fails
  <1>15. ASSUME NEW s \in Shell, NEW l \in {"blocked_open", "blocked_dump"}, NEW new \in T!Ledger, tpc[s] \in Blocking, Same,
                tpc' = [tpc EXCEPT ![s] = l],
                tcall' = tcall \/ tcall' = [tcall EXCEPT ![s] = [tcall[s] EXCEPT !.ledger = new]]
         PROVE  Checked'
    <2>1. PICK c \in T!Call : tcall' = [tcall EXCEPT ![s] = c] /\ c.ships = tcall[s].ships /\ c.after = tcall[s].after
      <3>1. CASE tcall' = tcall
        <4>1. tcall[s] \in T!Call /\ tcall' = [tcall EXCEPT ![s] = tcall[s]]
          BY <1>0, <3>1
        <4> QED
          BY <4>1
      <3>2. CASE tcall' = [tcall EXCEPT ![s] = [tcall[s] EXCEPT !.ledger = new]]
        BY <1>0, <3>2, PipeCallLedger
      <3> QED
        BY <1>15, <3>1, <3>2
    <2>2. c.ships
      BY <1>15, <2>1 DEF Checked, AfterClose
    <2>3. WillStage(s) \/ c.after # "add"
      BY <1>15, <2>1, <2>2 DEF WillStage
    <2> QED
      BY <1>15, <2>1, <2>2, <2>3, TreeStep DEF T!Label, Blocking, Checked
  <1>16. ASSUME NEW s \in Shell, T!blocked_read(s) PROVE Checked'
    <2>1. Same /\ tpc[s] = "blocked_read"
      BY <1>16 DEF T!blocked_read
    <2>2. CASE T!Ends(s)
      BY <1>1, <2>1, <2>2 DEF Checked
    <2>3. CASE ~T!Ends(s)
      <3> DEFINE new == [status |-> "blocked", blockers |-> ledger[T!Of(s)].blockers + 1]
      <3>1. /\ ledger[T!Of(s)].blockers < MaxBlocked
            /\ tpc' = [tpc EXCEPT ![s] = "blocked_open"] /\ tcall' = [tcall EXCEPT ![s] = [tcall[s] EXCEPT !.ledger = new]]
        BY <1>16, <2>3 DEF T!blocked_read, T!Read
      <3>2. T!Of(s) \in T!Task
        BY <2>1 DEF Placed
      <3>3. ledger[T!Of(s)].blockers \in 0 .. MaxBlocked
        BY <3>2 DEF PipeType, T!Ledger
      <3>4. ledger[T!Of(s)].blockers + 1 \in 0 .. MaxBlocked
        BY <3>1, <3>3
      <3>5. new \in T!Ledger
        BY <3>4 DEF T!Ledger, T!Status
      <3> HIDE DEF new
      <3> QED
        BY <1>15, <2>1, <3>1, <3>5 DEF Blocking
    <2> QED
      BY <2>2, <2>3
  <1>17. ASSUME NEW s \in Shell, T!blocked_open(s) PROVE Checked'
    BY <1>15, <1>17, PipeCalls DEF T!blocked_open, T!open, Blocking
  <1>18. ASSUME NEW s \in Shell, T!blocked_dump(s) PROVE Checked'
    <2>1. Same /\ tpc[s] = "blocked_dump"
      BY <1>18 DEF T!blocked_dump
    <2>2. CASE tcall[s].after = "idle"
      BY <1>1, <1>18, <2>1, <2>2 DEF T!blocked_dump, Checked
    <2>3. CASE tcall[s].after # "idle"
      <3> DEFINE c == [tcall[s] EXCEPT !.ledger = T!NoLedger]
      <3>1. c \in T!Call /\ c.ships = tcall[s].ships
        BY <1>0, PipeCalls, PipeCallLedger
      <3>2. tpc' = [tpc EXCEPT ![s] = "add"] /\ tcall' = [tcall EXCEPT ![s] = c]
        BY <1>18, <2>3 DEF T!blocked_dump
      <3>3. tcall[s].ships /\ WillStage(s)
        BY <1>0, <2>1, <2>3 DEF Checked, AfterClose, Blocking, WillStage, T!Call
      <3> HIDE DEF c
      <3> QED
        BY <1>3, <2>1, <3>1, <3>2, <3>3 DEF T!Label, Checked
    <2> QED
      BY <2>2, <2>3
  <1>19. CASE T!edit
    <2>1. /\ UNCHANGED <<index, head, remote, tpc, tcall, gated>>
          /\ edited' = (edited \/ \E s \in Shell : tcall[s].ships /\ tpc[s] \in T!Shipping)
      BY <1>19 DEF T!edit
    <2>2. \A s \in Shell : WillStage(s) => tcall[s].ships /\ tpc[s] \in T!Shipping
      BY DEF WillStage, T!Shipping, Blocking
    <2>3. \A s \in Shell : WillStage(s)' <=> WillStage(s)
      BY <2>1 DEF WillStage
    <2> QED
      BY <2>1, <2>2, <2>3 DEF Checked
  <1>20. CASE UNCHANGED T!vars
    BY <1>20 DEF T!vars, Checked, WillStage
  <1> QED
    BY <1>6, <1>7, <1>8, <1>9, <1>10, <1>11, <1>12, <1>13, <1>14, <1>16, <1>17, <1>18, <1>19, <1>20 DEF T!Next, T!Step

LEMMA PipelineNext ==
    ASSUME MaxTask \in Nat, MaxBlocked \in Nat, "free" \notin Shell, TInv, [T!Next]_(T!vars)
    PROVE  TInv'
  <1>1. Checked'
    BY TreeNext DEF TInv, LInv
  <1>2. LInv'
    <2>1. CASE \E s \in Shell : T!Step(s)
      BY <2>1, PipeSteps DEF TInv
    <2>2. CASE T!edit \/ UNCHANGED T!vars
      <3>1. UNCHANGED <<ledger, lock, tpc, tcall, tstale, crossed, recorded>>
        BY <2>2 DEF T!edit, T!vars, T!disk, T!ghosts
      <3> QED
        BY <3>1 DEF TInv, LInv, PipeType, Placed, Making, Counted, Knows, T!Of
    <2> QED
      BY <2>1, <2>2 DEF T!Next
  <1> QED
    BY <1>1, <1>2 DEF TInv

\* However many shells create, close, ship and block tasks at once, whatever fails and
\* whoever edits: a ledger that no stale or dead shell has written keeps every blocker
\* recorded for its task, and what is pushed has passed a close, unless somebody edited
\* a ship's tree on the way.
THEOREM LedgersKept ==
    ASSUME MaxTask \in Nat, MaxBlocked \in Nat, "free" \notin Shell
    PROVE  T!Spec => []LedgerHolds
  <1>1. T!Init => TInv
    BY PipelineInit
  <1>2. TInv /\ [T!Next]_(T!vars) => TInv'
    BY PipelineNext
  <1>3. TInv => LedgerHolds
    BY DEF TInv, LInv, Counted, Checked, Dumps, LedgerHolds, T!LedgerHolds, T!BlockersKept, T!PushedWasGated
  <1> QED
    BY <1>1, <1>2, <1>3, PTL DEF T!Spec

------------------------------------------------------------------------------
(* TaskStore.  The copies of a task differ only where a write was          *)
(* disturbed, and a listing tells the truth of what nothing disturbed.     *)
(* The copies are tied together by what a process has in hand: a load that *)
(* no write crossed holds the text of the file (Reads), and a write that   *)
(* no load crossed holds what it has stored (Writes).  A listing may rely  *)
(* on a task until somebody disturbs it (Calm, Lists).                     *)

Reads ==
    \A p \in K!Proc : kpc[p] = "upsert" /\ p \notin kcrossed =>
      have[p] = kfile[kat[p]] /\ kfile[kat[p]] \in K!Status /\ ~K!Writing(kat[p])

Writes ==
    kpc[Worker] \in {"stored", "emptied"} =>
      /\ kat[Worker] \in disturbed /\ have[Worker] \in K!Status
      /\ Worker \notin kcrossed => store[kat[Worker]] = have[Worker]

Calm == \A r \in Reader : calm[r] \cap disturbed = {}

Once == \A r \in Reader : \A d, e \in out[r] : d[1] = e[1] => d = e

Listing == {"glob", "next", "upsert", "loaded", "done"}

Lists ==
    \A r \in Reader : \A t \in calm[r] : kpc[r] \in Listing /\ kfile[t] \in K!Status =>
      /\ <<t, kfile[t]>> \in out[r] <=> filter[r] \in {"any", kfile[t]}
      /\ kpc[r] \in {"upsert", "loaded"} /\ kat[r] = t => have[r] = kfile[t]

------------------------------------------------------------------------------
(* Types.                                                                  *)

StoreLabel == {"idle", "upsert", "loaded", "stored", "emptied", "glob", "next", "done"}

LEMMA ParsedType ==
    ASSUME K!TypeOK, NEW t \in StoredTask
    PROVE  K!Parsed(t) \in K!Status \cup {K!NoStatus}
  BY DEF K!TypeOK, K!Parsed, K!Content

LEMMA LoadTypes ==
    ASSUME K!TypeOK, NEW p \in K!Proc, NEW t \in StoredTask, K!_load_yaml(p, t)
    PROVE  /\ kat' \in [K!Proc -> StoredTask] /\ have' \in [K!Proc -> K!Status \cup {K!NoStatus}]
           /\ kpc' \in [K!Proc -> StoreLabel] /\ kcrossed' \subseteq K!Proc
  <1>1. Worker \in K!Proc
    BY DEF K!Proc
  <1>2. PICK l \in {"upsert", "loaded"} : kpc' = [kpc EXCEPT ![p] = l]
    BY DEF K!_load_yaml, K!Goto
  <1> QED
    BY <1>1, <1>2, ParsedType DEF K!_load_yaml, K!TypeOK, StoreLabel

LEMMA StoreInitTypes ==
    ASSUME StoredTask # {}, K!Init
    PROVE  K!TypeOK
  <1>1. (CHOOSE t \in StoredTask : TRUE) \in StoredTask
    OBVIOUS
  <1> QED
    BY <1>1 DEF K!Init, K!TypeOK, K!Content

LEMMA StoreNextTypes ==
    ASSUME K!TypeOK, [K!Next]_(K!vars)
    PROVE  K!TypeOK'
  <1>0. Worker \in K!Proc /\ Reader \subseteq K!Proc
    BY DEF K!Proc
  <1>1. ASSUME NEW t \in StoredTask, K!take(t) PROVE K!TypeOK'
    <2>1. K!_load_yaml(Worker, t)
      BY <1>1 DEF K!take
    <2> QED
      BY <1>0, <1>1, <2>1, LoadTypes DEF K!take, K!listing, K!TypeOK, StoreLabel
  <1>2. CASE K!not_a_task
    BY <1>0, <1>2 DEF K!not_a_task, K!listing, K!Goto, K!TypeOK
  <1>3. CASE K!_write_yaml
    <2>1. PICK s \in K!Status : /\ store' = [store EXCEPT ![kat[Worker]] = s]
                                /\ have' = [have EXCEPT ![Worker] = s]
      BY <1>3 DEF K!_write_yaml
    <2>2. kcrossed' \subseteq K!Proc
      BY <1>0, <1>3 DEF K!_write_yaml, K!Loading, K!TypeOK
    <2>3. disturbed' \subseteq StoredTask /\ calm' \in [Reader -> SUBSET StoredTask]
      BY <1>0, <1>3 DEF K!_write_yaml, K!Disturb, K!TypeOK
    <2> QED
      BY <1>0, <1>3, <2>1, <2>2, <2>3 DEF K!_write_yaml, K!Goto, K!TypeOK
  <1>4. CASE K!empty_file
    BY <1>0, <1>4 DEF K!empty_file, K!listing, K!Goto, K!TypeOK, K!Content
  <1>5. CASE K!fill_file
    <2>1. kfile' \in [StoredTask -> K!Content]
      BY <1>0, <1>5 DEF K!fill_file, K!TypeOK, K!Content
    <2>2. disturbed' \subseteq StoredTask
      BY <1>5 DEF K!fill_file, K!TypeOK
    <2> QED
      BY <1>0, <1>5, <2>1, <2>2 DEF K!fill_file, K!listing, K!Goto, K!TypeOK
  <1>6. ASSUME NEW r \in Reader, K!list_delivery_tasks(r) PROVE K!TypeOK'
    <2>1. PICK f \in {"any", "todo"} :
            /\ filter' = [filter EXCEPT ![r] = f]
            /\ out' = [out EXCEPT ![r] =
                 {<<t, store[t]>> :
                    t \in {t \in StoredTask : store[t] # K!NoStatus /\ f \in {"any", store[t]}}}]
      BY <1>6 DEF K!list_delivery_tasks
    <2>2. {<<t, store[t]>> : t \in {t \in StoredTask : store[t] # K!NoStatus /\ f \in {"any", store[t]}}}
            \in SUBSET (StoredTask \X K!Status)
      BY DEF K!TypeOK
    <2>3. out' \in [Reader -> SUBSET (StoredTask \X K!Status)]
      BY <2>1, <2>2 DEF K!TypeOK
    <2> QED
      BY <1>0, <1>6, <2>1, <2>3 DEF K!list_delivery_tasks, K!Goto, K!TypeOK
  <1>7. ASSUME NEW r \in Reader, K!glob(r) PROVE K!TypeOK'
    BY <1>0, <1>7 DEF K!glob, K!Goto, K!TypeOK
  <1>8. ASSUME NEW r \in Reader, K!load_next(r) PROVE K!TypeOK'
    <2>1. PICK t \in ktodo[r] : K!_load_yaml(r, t) /\ ktodo' = [ktodo EXCEPT ![r] = @ \ {t}]
      BY <1>8 DEF K!load_next
    <2>2. t \in StoredTask
      BY DEF K!TypeOK
    <2> QED
      BY <1>0, <1>8, <2>1, <2>2, LoadTypes DEF K!load_next, K!TypeOK, StoreLabel
  <1>9. ASSUME NEW r \in Reader, K!tell(r) PROVE K!TypeOK'
    <2>1. \/ out' = out
          \/ /\ K!Match(r, have[r])
             /\ out' = [out EXCEPT ![r] = @ \cup {<<kat[r], have[r]>>}]
      BY <1>9 DEF K!tell, K!TypeOK
    <2>2. K!Match(r, have[r]) => <<kat[r], have[r]>> \in StoredTask \X K!Status
      BY <1>0 DEF K!Match, K!TypeOK
    <2>3. out' \in [Reader -> SUBSET (StoredTask \X K!Status)]
      BY <2>1, <2>2 DEF K!TypeOK
    <2> QED
      BY <1>0, <1>9, <2>3 DEF K!tell, K!Goto, K!TypeOK
  <1>10. ASSUME NEW r \in Reader, K!answer(r) PROVE K!TypeOK'
    BY <1>0, <1>10 DEF K!answer, K!listing, K!Goto, K!TypeOK
  <1>11. ASSUME NEW p \in K!Proc, K!stored_what_it_read(p) PROVE K!TypeOK'
    <2>1. kat[p] \in StoredTask /\ have[p] \in K!Status \cup {K!NoStatus}
      BY DEF K!TypeOK
    <2>2. disturbed' \subseteq StoredTask /\ calm' \in [Reader -> SUBSET StoredTask] /\ kcrossed' \subseteq K!Proc
      BY <1>0, <1>11, <2>1 DEF K!stored_what_it_read, K!Disturb, K!TypeOK
    <2> QED
      BY <1>11, <2>1, <2>2 DEF K!stored_what_it_read, K!upsert_delivery_task, K!Goto, K!TypeOK
  <1>12. CASE K!crash
    <2>1. kfile' \in [StoredTask -> K!Content]
      BY <1>12 DEF K!crash, K!TypeOK, K!Content
    <2> QED
      BY <1>12, <2>1 DEF K!crash, K!listing, K!TypeOK
  <1>13. CASE UNCHANGED K!vars
    BY <1>13 DEF K!vars, K!TypeOK
  <1> QED
    BY <1>1, <1>2, <1>3, <1>4, <1>5, <1>6, <1>7, <1>8, <1>9, <1>10, <1>11, <1>12, <1>13 DEF K!Next

------------------------------------------------------------------------------
(* What a process has in hand.                                             *)

\* What a load does, for whoever uses it.
LEMMA LoadReads ==
    ASSUME K!TypeOK, NEW p \in K!Proc, NEW t \in StoredTask, K!_load_yaml(p, t)
    PROVE  /\ kat'[p] = t /\ (\A q \in K!Proc \ {p} : kat'[q] = kat[q] /\ have'[q] = have[q] /\ kpc'[q] = kpc[q])
           /\ kpc'[p] \in {"upsert", "loaded"}
           /\ kpc'[p] = "upsert" => kfile[t] \in K!Status
           /\ kfile[t] \in K!Status => have'[p] = kfile[t]
           /\ kcrossed \ {p} \subseteq kcrossed'
           /\ K!Writing(t) => p \in kcrossed'
  <1>1. kat' = [kat EXCEPT ![p] = t] /\ have' = [have EXCEPT ![p] = K!Parsed(t)]
    BY DEF K!_load_yaml
  <1>2. kpc' = [kpc EXCEPT ![p] = IF kfile[t] \in K!Status THEN "upsert" ELSE "loaded"]
    BY DEF K!_load_yaml, K!Goto
  <1>3. kcrossed \ {p} \subseteq kcrossed' /\ (K!Writing(t) => p \in kcrossed')
    BY DEF K!_load_yaml
  <1>4. kfile[t] \in K!Status => K!Parsed(t) = kfile[t]
    BY DEF K!Parsed
  <1> QED
    BY <1>1, <1>2, <1>3, <1>4 DEF K!TypeOK

LEMMA NextReads ==
    ASSUME Worker \notin Reader, K!TypeOK, Reads, [K!Next]_(K!vars)
    PROVE  Reads'
  <1>0. Worker \in K!Proc /\ Reader \subseteq K!Proc
    BY DEF K!Proc
  <1> SUFFICES ASSUME NEW q \in K!Proc, kpc'[q] = "upsert", q \notin kcrossed'
               PROVE  (have[q] = kfile[kat[q]] /\ kfile[kat[q]] \in K!Status /\ ~K!Writing(kat[q]))'
    BY DEF Reads
  <1>1. ASSUME NEW t \in StoredTask, K!take(t) PROVE (have[q] = kfile[kat[q]] /\ kfile[kat[q]] \in K!Status /\ ~K!Writing(kat[q]))'
    <2>1. K!_load_yaml(Worker, t) /\ kfile' = kfile
      BY <1>1 DEF K!take
    <2>2. ~K!Writing(kat[q])'
      BY <1>0, <2>1, LoadReads DEF K!Writing
    <2>3. CASE q = Worker
      BY <1>0, <2>1, <2>2, <2>3, LoadReads
    <2>4. CASE q # Worker
      BY <1>0, <2>1, <2>2, <2>4, LoadReads DEF Reads
    <2> QED
      BY <2>3, <2>4
  <1>2. CASE K!not_a_task
    BY <1>0, <1>2 DEF K!not_a_task, K!listing, K!Goto, K!TypeOK, Reads, K!Writing
  <1>3. CASE K!_write_yaml
    <2>1. PICK s \in K!Status : have' = [have EXCEPT ![Worker] = s]
      BY <1>3 DEF K!_write_yaml
    <2>2. /\ kpc' = [kpc EXCEPT ![Worker] = "stored"] /\ kfile' = kfile /\ kat' = kat
          /\ kcrossed' = (kcrossed \ {Worker}) \cup K!Loading(kat[Worker])
                           \cup (IF K!Loading(kat[Worker]) = {} THEN {} ELSE {Worker})
      BY <1>3 DEF K!_write_yaml, K!Goto
    <2>3. q # Worker /\ kpc[q] = "upsert" /\ have'[q] = have[q]
      BY <1>0, <2>1, <2>2 DEF K!TypeOK
    <2>4. q \notin kcrossed /\ kat[q] # kat[Worker]
      BY <2>2, <2>3 DEF K!Loading
    <2> QED
      BY <2>2, <2>3, <2>4 DEF Reads, K!Writing
  <1>4. CASE K!empty_file
    <2>1. kpc[q] = "upsert" /\ q \notin kcrossed /\ kat[q] # kat[Worker]
      BY <1>0, <1>4 DEF K!empty_file, K!listing, K!Goto, K!TypeOK, Reads, K!Writing
    <2> QED
      BY <1>0, <1>4, <2>1 DEF K!empty_file, K!listing, K!Goto, K!TypeOK, Reads, K!Writing
  <1>5. CASE K!fill_file
    <2>1. kpc[q] = "upsert" /\ q \notin kcrossed /\ kat[q] # kat[Worker]
      BY <1>0, <1>5 DEF K!fill_file, K!listing, K!Goto, K!TypeOK, Reads, K!Writing
    <2> QED
      BY <1>0, <1>5, <2>1 DEF K!fill_file, K!listing, K!Goto, K!TypeOK, Reads, K!Writing
  <1>6. ASSUME NEW r \in Reader, K!list_delivery_tasks(r) \/ K!glob(r) \/ K!tell(r) \/ K!answer(r)
        PROVE  (have[q] = kfile[kat[q]] /\ kfile[kat[q]] \in K!Status /\ ~K!Writing(kat[q]))'
    <2>1. \E l \in {"glob", "next", "done"} : kpc' = [kpc EXCEPT ![r] = l]
      BY <1>6 DEF K!list_delivery_tasks, K!glob, K!tell, K!answer, K!Goto
    <2>2. UNCHANGED <<kfile, kat, have, kcrossed>>
      BY <1>6 DEF K!list_delivery_tasks, K!glob, K!tell, K!answer
    <2> QED
      BY <1>0, <2>1, <2>2 DEF K!TypeOK, Reads, K!Writing
  <1>7. ASSUME NEW r \in Reader, K!load_next(r)
        PROVE  (have[q] = kfile[kat[q]] /\ kfile[kat[q]] \in K!Status /\ ~K!Writing(kat[q]))'
    <2>1. PICK t \in ktodo[r] : K!_load_yaml(r, t)
      BY <1>7 DEF K!load_next
    <2>2. t \in StoredTask /\ kfile' = kfile /\ r \in K!Proc /\ r # Worker
      BY <1>0, <1>7 DEF K!TypeOK, K!load_next
    <2>3. kat'[Worker] = kat[Worker] /\ kpc'[Worker] = kpc[Worker]
      BY <1>0, <2>1, <2>2, LoadReads
    <2>4. CASE q = r
      BY <2>1, <2>2, <2>3, <2>4, LoadReads DEF K!Writing
    <2>5. CASE q # r
      BY <2>1, <2>2, <2>3, <2>5, LoadReads DEF Reads, K!Writing
    <2> QED
      BY <2>4, <2>5
  <1>8. ASSUME NEW p \in K!Proc, K!stored_what_it_read(p)
        PROVE  (have[q] = kfile[kat[q]] /\ kfile[kat[q]] \in K!Status /\ ~K!Writing(kat[q]))'
    <2>1. kpc' = [kpc EXCEPT ![p] = "loaded"] /\ UNCHANGED <<kfile, kat, have>> /\ kcrossed \subseteq kcrossed'
      BY <1>8 DEF K!stored_what_it_read, K!Goto
    <2> QED
      BY <1>0, <2>1 DEF K!TypeOK, Reads, K!Writing
  <1>9. CASE K!crash
    BY <1>9 DEF K!crash
  <1>10. CASE UNCHANGED K!vars
    BY <1>10 DEF K!vars, Reads, K!Writing
  <1> QED
    BY <1>1, <1>2, <1>3, <1>4, <1>5, <1>6, <1>7, <1>8, <1>9, <1>10 DEF K!Next

LEMMA NextWrites ==
    ASSUME Worker \notin Reader, K!TypeOK, Reads, Writes, [K!Next]_(K!vars)
    PROVE  Writes'
  <1>0. Worker \in K!Proc /\ Reader \subseteq K!Proc
    BY DEF K!Proc
  <1>1. ASSUME NEW t \in StoredTask, K!take(t) PROVE Writes'
    BY <1>0, <1>1, LoadReads DEF K!take, Writes
  <1>2. CASE K!not_a_task \/ K!fill_file
    BY <1>0, <1>2 DEF K!not_a_task, K!fill_file, K!Goto, K!TypeOK, Writes
  <1>3. CASE K!_write_yaml
    <2>1. PICK s \in K!Status : /\ store' = [store EXCEPT ![kat[Worker]] = s]
                                /\ have' = [have EXCEPT ![Worker] = s]
      BY <1>3 DEF K!_write_yaml
    <2> QED
      BY <1>0, <1>3, <2>1 DEF K!_write_yaml, K!Disturb, K!TypeOK, Writes
  <1>4. CASE K!empty_file
    BY <1>0, <1>4 DEF K!empty_file, K!Goto, K!listing, K!TypeOK, Writes
  <1>5. ASSUME NEW r \in Reader, K!list_delivery_tasks(r) \/ K!glob(r) \/ K!tell(r) \/ K!answer(r)
        PROVE  Writes'
    <2>1. \E l \in {"glob", "next", "done"} : kpc' = [kpc EXCEPT ![r] = l]
      BY <1>5 DEF K!list_delivery_tasks, K!glob, K!tell, K!answer, K!Goto
    <2>2. UNCHANGED <<store, kat, have, kcrossed, disturbed>>
      BY <1>5 DEF K!list_delivery_tasks, K!glob, K!tell, K!answer, K!listing
    <2> QED
      BY <1>0, <2>1, <2>2 DEF K!TypeOK, Writes
  <1>6. ASSUME NEW r \in Reader, K!load_next(r) PROVE Writes'
    <2>1. PICK t \in ktodo[r] : K!_load_yaml(r, t)
      BY <1>6 DEF K!load_next
    <2>2. t \in StoredTask /\ r \in K!Proc /\ r # Worker /\ store' = store /\ disturbed' = disturbed
      BY <1>0, <1>6 DEF K!TypeOK, K!load_next
    <2>3. /\ kat'[Worker] = kat[Worker] /\ kpc'[Worker] = kpc[Worker] /\ have'[Worker] = have[Worker]
          /\ Worker \in kcrossed => Worker \in kcrossed'
      BY <1>0, <2>1, <2>2, LoadReads
    <2> QED
      BY <2>2, <2>3 DEF Writes
  <1>7. ASSUME NEW p \in K!Proc, K!stored_what_it_read(p) PROVE Writes'
    <2>1. /\ kpc[p] = "upsert" /\ kpc' = [kpc EXCEPT ![p] = "loaded"] /\ UNCHANGED <<kat, have>>
          /\ store' = [store EXCEPT ![kat[p]] = have[p]]
          /\ kcrossed \subseteq kcrossed' /\ (K!Writing(kat[p]) => Worker \in kcrossed')
      BY <1>7 DEF K!stored_what_it_read, K!Goto, K!upsert_delivery_task
    <2> SUFFICES ASSUME kpc[Worker] \in {"stored", "emptied"}
                 PROVE  Writes'
      BY <1>0, <2>1 DEF Writes, K!TypeOK
    <2>2. kat[Worker] \in disturbed'
      BY <1>7 DEF K!stored_what_it_read, K!Disturb, Reads, Writes, K!Writing
    <2>3. kat[p] # kat[Worker] => store'[kat[Worker]] = store[kat[Worker]]
      BY <1>0, <2>1 DEF K!TypeOK
    <2> QED
      BY <1>0, <2>1, <2>2, <2>3 DEF Writes, K!Writing
  <1>8. CASE K!crash
    BY <1>0, <1>8 DEF K!crash, Writes
  <1>9. CASE UNCHANGED K!vars
    BY <1>9 DEF K!vars, Writes
  <1> QED
    BY <1>1, <1>2, <1>3, <1>4, <1>5, <1>6, <1>7, <1>8, <1>9 DEF K!Next

\* The copies.
LEMMA NextFollows ==
    ASSUME Worker \notin Reader, K!TypeOK, Reads, Writes, K!StoreFollowsFile, [K!Next]_(K!vars)
    PROVE  K!StoreFollowsFile'
  <1>0. Worker \in K!Proc /\ Reader \subseteq K!Proc
    BY DEF K!Proc
  <1>1. CASE UNCHANGED <<kfile, store, disturbed>>
    BY <1>1 DEF K!StoreFollowsFile
  <1>2. CASE K!_write_yaml
    <2>1. PICK s \in K!Status : store' = [store EXCEPT ![kat[Worker]] = s]
      BY <1>2 DEF K!_write_yaml
    <2> QED
      BY <1>0, <1>2, <2>1 DEF K!_write_yaml, K!Disturb, K!TypeOK, K!StoreFollowsFile
  <1>3. CASE K!empty_file
    BY <1>0, <1>3 DEF K!empty_file, K!TypeOK, K!StoreFollowsFile, K!Status
  <1>4. CASE K!fill_file
    <2>1. kat[Worker] \in StoredTask /\ kfile' = [kfile EXCEPT ![kat[Worker]] = have[Worker]] /\ store' = store
      BY <1>0, <1>4 DEF K!fill_file, K!TypeOK
    <2>2. Worker \in kcrossed => kat[Worker] \in disturbed'
      BY <1>4 DEF K!fill_file, Writes
    <2>3. Worker \notin kcrossed => store[kat[Worker]] = have[Worker]
      BY <1>4 DEF K!fill_file, Writes
    <2>4. disturbed \ {kat[Worker]} \subseteq disturbed'
      BY <1>4 DEF K!fill_file
    <2> QED
      BY <2>1, <2>2, <2>3, <2>4 DEF K!StoreFollowsFile, K!TypeOK
  <1>5. ASSUME NEW p \in K!Proc, K!stored_what_it_read(p) PROVE K!StoreFollowsFile'
    <2>1. /\ kpc[p] = "upsert" /\ kat[p] \in StoredTask /\ kfile' = kfile
          /\ store' = [store EXCEPT ![kat[p]] = have[p]]
      BY <1>5 DEF K!stored_what_it_read, K!upsert_delivery_task, K!TypeOK
    <2>2. p \in kcrossed => kat[p] \in disturbed'
      BY <1>5 DEF K!stored_what_it_read, K!Disturb
    <2>3. p \notin kcrossed => have[p] = kfile[kat[p]]
      BY <2>1 DEF Reads
    <2>4. disturbed \ {kat[p]} \subseteq disturbed'
      BY <1>5 DEF K!stored_what_it_read, K!Disturb
    <2> QED
      BY <2>1, <2>2, <2>3, <2>4 DEF K!StoreFollowsFile, K!TypeOK
  <1>6. CASE K!crash
    <2>1. store' = store /\ disturbed' = disturbed
      BY <1>6 DEF K!crash
    <2>2. \A t \in StoredTask : kfile'[t] = kfile[t] \/ kfile'[t] \notin K!Status
      BY <1>0, <1>6 DEF K!crash, K!TypeOK, K!Status
    <2> QED
      BY <2>1, <2>2 DEF K!StoreFollowsFile
  <1>7. UNCHANGED <<kfile, store, disturbed>> \/ K!_write_yaml \/ K!empty_file \/ K!fill_file
        \/ (\E p \in K!Proc : K!stored_what_it_read(p)) \/ K!crash
    BY DEF K!Next, K!vars, K!take, K!not_a_task, K!list_delivery_tasks, K!glob, K!load_next, K!tell, K!answer
  <1> QED
    BY <1>1, <1>2, <1>3, <1>4, <1>5, <1>6, <1>7

------------------------------------------------------------------------------
(* What a listing may rely on.                                             *)

LEMMA NextCalm ==
    ASSUME K!TypeOK, Calm, [K!Next]_(K!vars)
    PROVE  Calm'
  <1>1. CASE UNCHANGED <<calm, disturbed>>
    BY <1>1 DEF Calm
  <1>2. ASSUME NEW t \in StoredTask, K!Disturb(t) PROVE Calm'
    BY <1>2 DEF K!Disturb, Calm, K!TypeOK
  <1>3. CASE calm' = calm /\ disturbed' \subseteq disturbed
    BY <1>3 DEF Calm
  <1>4. ASSUME NEW r \in Reader, K!list_delivery_tasks(r) PROVE Calm'
    BY <1>4 DEF K!list_delivery_tasks, Calm, K!TypeOK
  <1>5. CASE K!_write_yaml
    <2>1. kat[Worker] \in StoredTask
      BY DEF K!TypeOK, K!Proc
    <2> QED
      BY <1>2, <1>5, <2>1 DEF K!_write_yaml
  <1>6. ASSUME NEW p \in K!Proc, K!stored_what_it_read(p) PROVE Calm'
    <2>1. kat[p] \in StoredTask
      BY DEF K!TypeOK
    <2> QED
      BY <1>2, <1>3, <1>6, <2>1 DEF K!stored_what_it_read
  <1>7. CASE K!fill_file
    BY <1>3, <1>7 DEF K!fill_file, K!listing
  <1>8. UNCHANGED <<calm, disturbed>> \/ K!_write_yaml \/ K!fill_file
        \/ (\E p \in K!Proc : K!stored_what_it_read(p)) \/ (\E r \in Reader : K!list_delivery_tasks(r))
    BY DEF K!Next, K!vars, K!listing, K!take, K!not_a_task, K!empty_file, K!glob, K!load_next, K!tell, K!answer, K!crash
  <1> QED
    BY <1>1, <1>4, <1>5, <1>6, <1>7, <1>8

LEMMA NextOnce ==
    ASSUME K!TypeOK, Once, [K!Next]_(K!vars)
    PROVE  Once'
  <1>1. CASE out' = out
    BY <1>1 DEF Once
  <1>2. ASSUME NEW r \in Reader, K!list_delivery_tasks(r) PROVE Once'
    <2>1. PICK f \in {"any", "todo"} :
            out' = [out EXCEPT ![r] =
                 {<<t, store[t]>> :
                    t \in {t \in StoredTask : store[t] # K!NoStatus /\ f \in {"any", store[t]}}}]
      BY <1>2 DEF K!list_delivery_tasks
    <2> QED
      BY <2>1 DEF Once, K!TypeOK
  <1>3. ASSUME NEW r \in Reader, K!tell(r) PROVE Once'
    <2>1. \/ out' = out
          \/ /\ kat[r] \notin K!seen_task_ids(r)
             /\ out' = [out EXCEPT ![r] = @ \cup {<<kat[r], have[r]>>}]
      BY <1>3 DEF K!tell, K!TypeOK
    <2>2. CASE kat[r] \notin K!seen_task_ids(r)
               /\ out' = [out EXCEPT ![r] = @ \cup {<<kat[r], have[r]>>}]
      <3>1. \A e \in out[r] : e[1] # kat[r]
        BY <2>2 DEF K!seen_task_ids
      <3>2. \A q \in Reader : q # r => out'[q] = out[q]
        BY <2>2 DEF K!TypeOK
      <3>3. out'[r] = out[r] \cup {<<kat[r], have[r]>>}
        BY <2>2 DEF K!TypeOK
      <3> QED
        BY <3>1, <3>2, <3>3 DEF Once
    <2> QED
      BY <1>1, <2>1, <2>2
  <1>4. out' = out \/ (\E r \in Reader : K!list_delivery_tasks(r) \/ K!tell(r))
    BY DEF K!Next, K!vars, K!listing, K!take, K!not_a_task, K!_write_yaml, K!empty_file, K!fill_file,
           K!glob, K!load_next, K!answer, K!stored_what_it_read, K!crash
  <1> QED
    BY <1>1, <1>2, <1>3, <1>4

\* The file of a task nobody disturbs stays as it is, or stops being a document.
LEMMA CalmFiles ==
    ASSUME K!TypeOK, Writes, Calm, [K!Next]_(K!vars), NEW r \in Reader, NEW t \in calm[r]
    PROVE  kfile'[t] = kfile[t]
  <1>1. t \in StoredTask /\ t \notin disturbed
    BY DEF Calm, K!TypeOK
  <1>2. CASE K!empty_file \/ K!fill_file
    <2>1. kat[Worker] \in disturbed
      BY <1>2 DEF K!empty_file, K!fill_file, Writes
    <2> QED
      BY <1>1, <1>2, <2>1 DEF K!empty_file, K!fill_file, K!TypeOK
  <1>3. CASE K!crash
    <2>1. kpc[Worker] = "emptied" => kat[Worker] \in disturbed
      BY DEF Writes
    <2> QED
      BY <1>1, <1>3, <2>1 DEF K!crash, K!TypeOK
  <1>4. kfile' = kfile \/ K!empty_file \/ K!fill_file \/ K!crash
    BY DEF K!Next, K!vars, K!take, K!not_a_task, K!_write_yaml, K!list_delivery_tasks, K!glob, K!load_next,
           K!tell, K!answer, K!stored_what_it_read
  <1> QED
    BY <1>2, <1>3, <1>4

Told(r, t) ==
    kpc[r] \in Listing /\ kfile[t] \in K!Status =>
      /\ <<t, kfile[t]>> \in out[r] <=> filter[r] \in {"any", kfile[t]}
      /\ kpc[r] \in {"upsert", "loaded"} /\ kat[r] = t => have[r] = kfile[t]

LEMMA NextLists ==
    ASSUME Worker \notin Reader, K!TypeOK, Writes, Calm, K!StoreFollowsFile, Lists, [K!Next]_(K!vars)
    PROVE  Lists'
  <1>0. Worker \in K!Proc /\ Reader \subseteq K!Proc
    BY DEF K!Proc
  <1> SUFFICES ASSUME NEW r \in Reader, NEW t \in calm'[r]
               PROVE  Told(r, t)'
    BY DEF Lists, Told
  <1> DEFINE Same == /\ t \in calm[r] /\ kfile'[t] = kfile[t]
                     /\ UNCHANGED <<out[r], filter[r], kpc[r], kat[r], have[r]>>
  <1>1. CASE Same
    BY <1>1 DEF Lists, Told
  <1>2. ASSUME calm'[r] \subseteq calm[r] PROVE t \in calm[r] /\ kfile'[t] = kfile[t] /\ Told(r, t)
    BY <1>2, CalmFiles DEF Lists, Told
  <1>3. ASSUME NEW u \in StoredTask, K!take(u) PROVE Told(r, t)'
    <2>1. K!_load_yaml(Worker, u) /\ UNCHANGED K!listing
      BY <1>3 DEF K!take
    <2>2. calm'[r] \subseteq calm[r] /\ out'[r] = out[r] /\ filter'[r] = filter[r]
      BY <2>1 DEF K!listing
    <2>3. UNCHANGED <<kpc[r], kat[r], have[r]>>
      BY <1>0, <2>1, LoadReads
    <2> QED
      BY <1>1, <1>2, <2>2, <2>3
  <1>4. CASE K!not_a_task \/ K!empty_file \/ K!fill_file
    <2>1. calm'[r] \subseteq calm[r] /\ out'[r] = out[r] /\ filter'[r] = filter[r]
      BY <1>4 DEF K!not_a_task, K!empty_file, K!fill_file, K!listing
    <2>2. UNCHANGED <<kpc[r], kat[r], have[r]>>
      BY <1>0, <1>4 DEF K!not_a_task, K!empty_file, K!fill_file, K!Goto, K!TypeOK
    <2> QED
      BY <1>1, <1>2, <2>1, <2>2
  <1>5. CASE K!_write_yaml
    <2>1. calm'[r] \subseteq calm[r] /\ out'[r] = out[r] /\ filter'[r] = filter[r]
      BY <1>5 DEF K!_write_yaml, K!Disturb, K!TypeOK
    <2>2. UNCHANGED <<kpc[r], kat[r]>>
      BY <1>0, <1>5 DEF K!_write_yaml, K!Goto, K!TypeOK
    <2>3. have'[r] = have[r]
      BY <1>0, <1>5 DEF K!_write_yaml, K!TypeOK
    <2> QED
      BY <1>1, <1>2, <2>1, <2>2, <2>3
  <1>6. ASSUME NEW q \in Reader, K!list_delivery_tasks(q) PROVE Told(r, t)'
    <2>1. UNCHANGED <<kfile, store, kat, have, disturbed>>
      BY <1>6 DEF K!list_delivery_tasks
    <2>2. CASE q # r
      <3>1. calm'[r] = calm[r] /\ out'[r] = out[r] /\ filter'[r] = filter[r] /\ kpc'[r] = kpc[r]
        BY <1>0, <1>6, <2>2 DEF K!list_delivery_tasks, K!Goto, K!TypeOK
      <3> QED
        BY <1>1, <1>2, <2>1, <3>1
    <2>3. CASE q = r
      <3>1. PICK f \in {"any", "todo"} :
              /\ filter' = [filter EXCEPT ![r] = f]
              /\ out' = [out EXCEPT ![r] =
                   {<<u, store[u]>> :
                      u \in {u \in StoredTask : store[u] # K!NoStatus /\ f \in {"any", store[u]}}}]
        BY <1>6, <2>3 DEF K!list_delivery_tasks
      <3>2. t \in StoredTask /\ t \notin disturbed
        BY <1>6, <2>3 DEF K!list_delivery_tasks, K!TypeOK
      <3>3. kfile[t] \in K!Status => store[t] = kfile[t] /\ store[t] # K!NoStatus
        BY <3>2 DEF K!StoreFollowsFile, K!Status, K!NoStatus
      <3>4. filter'[r] = f /\ (\A x : x \in out'[r] <=> \E u \in StoredTask :
                x = <<u, store[u]>> /\ store[u] # K!NoStatus /\ f \in {"any", store[u]})
        BY <3>1 DEF K!TypeOK
      <3>5. kfile[t] \in K!Status => (<<t, kfile[t]>> \in out'[r] <=> f \in {"any", kfile[t]})
        BY <3>2, <3>3, <3>4
      <3>6. kpc'[r] = "glob"
        BY <1>0, <1>6, <2>3 DEF K!list_delivery_tasks, K!Goto, K!TypeOK
      <3> QED
        BY <2>1, <3>4, <3>5, <3>6 DEF Told
    <2> QED
      BY <2>2, <2>3
  <1>7. ASSUME NEW q \in Reader, K!glob(q) \/ K!answer(q) PROVE Told(r, t)'
    <2>1. UNCHANGED <<kfile, kat, have, filter, out, calm>>
      BY <1>7 DEF K!glob, K!answer, K!listing
    <2>2. kpc'[r] = kpc[r] \/ (kpc[r] = "glob" /\ kpc'[r] = "next") \/ (kpc[r] = "next" /\ kpc'[r] = "done")
      BY <1>0, <1>7 DEF K!glob, K!answer, K!Goto, K!TypeOK
    <2> QED
      BY <1>2, <2>1, <2>2 DEF Told, Listing
  <1>8. ASSUME NEW q \in Reader, K!load_next(q) PROVE Told(r, t)'
    <2>1. PICK u \in ktodo[q] : K!_load_yaml(q, u)
      BY <1>8 DEF K!load_next
    <2>2. u \in StoredTask /\ UNCHANGED <<kfile, filter, out, calm>> /\ kpc[q] = "next"
      BY <1>8 DEF K!TypeOK, K!load_next
    <2>3. CASE q # r
      <3>1. UNCHANGED <<kpc[r], kat[r], have[r]>>
        BY <1>0, <2>1, <2>2, <2>3, LoadReads
      <3> QED
        BY <1>1, <1>2, <2>2, <3>1
    <2>4. CASE q = r
      <3>1. kat'[r] = u /\ (kfile[u] \in K!Status => have'[r] = kfile[u])
        BY <1>0, <2>1, <2>2, <2>4, LoadReads
      <3>2. Told(r, t) /\ kpc[r] \in Listing
        BY <1>2, <2>2, <2>4 DEF Listing
      <3> QED
        BY <2>2, <3>1, <3>2 DEF Told
    <2> QED
      BY <2>3, <2>4
  <1>9. ASSUME NEW q \in Reader, K!tell(q) PROVE Told(r, t)'
    <2>1. UNCHANGED <<kfile, kat, have, filter, calm>> /\ kpc[q] = "loaded"
      BY <1>9 DEF K!tell
    <2>2. CASE q # r
      <3>1. kpc'[r] = kpc[r] /\ out'[r] = out[r]
        BY <1>0, <1>9, <2>2 DEF K!tell, K!Goto, K!TypeOK
      <3> QED
        BY <1>1, <1>2, <2>1, <3>1
    <2>3. CASE q = r
      <3>1. kpc'[r] = "next"
        BY <1>0, <1>9, <2>3 DEF K!tell, K!Goto, K!TypeOK
      <3>2. \/ out'[r] = out[r]
            \/ /\ K!Match(r, have[r])
               /\ out'[r] = out[r] \cup {<<kat[r], have[r]>>}
        BY <1>9, <2>3 DEF K!tell, K!TypeOK
      <3>3. Told(r, t) /\ kpc[r] \in Listing
        BY <1>2, <2>1, <2>3 DEF Listing
      <3>4. kfile[t] \in K!Status => (<<t, kfile[t]>> \in out'[r] <=> <<t, kfile[t]>> \in out[r])
        <4>1. SUFFICES ASSUME kfile[t] \in K!Status, K!Match(r, have[r]), <<t, kfile[t]>> = <<kat[r], have[r]>>
                       PROVE  <<t, kfile[t]>> \in out[r]
          BY <3>2
        <4> QED
          BY <3>3, <4>1 DEF Told, K!Match
      <3> QED
        BY <2>1, <3>1, <3>3, <3>4 DEF Told
    <2> QED
      BY <2>2, <2>3
  <1>10. ASSUME NEW p \in K!Proc, K!stored_what_it_read(p) PROVE Told(r, t)'
    <2>1. UNCHANGED <<kfile, kat, have, filter, out>>
      BY <1>10 DEF K!stored_what_it_read
    <2>2. calm'[r] \subseteq calm[r]
      BY <1>10 DEF K!stored_what_it_read, K!Disturb, K!TypeOK
    <2>3. kpc'[r] = kpc[r] \/ (kpc[r] = "upsert" /\ kpc'[r] = "loaded")
      BY <1>0, <1>10 DEF K!stored_what_it_read, K!Goto, K!TypeOK
    <2> QED
      BY <1>2, <2>1, <2>2, <2>3 DEF Told, Listing
  <1>11. CASE K!crash
    BY <1>0, <1>11 DEF K!crash, Told, Listing
  <1>12. CASE UNCHANGED K!vars
    BY <1>1, <1>2, <1>12 DEF K!vars
  <1> QED
    BY <1>3, <1>4, <1>5, <1>6, <1>7, <1>8, <1>9, <1>10, <1>11, <1>12 DEF K!Next

------------------------------------------------------------------------------
KInv == K!TypeOK /\ Reads /\ Writes /\ K!StoreFollowsFile /\ Calm /\ Once /\ Lists

LEMMA InitHolds ==
    ASSUME StoredTask # {}, K!Init
    PROVE  KInv
  <1>1. K!TypeOK
    BY StoreInitTypes
  <1>2. Reads /\ Writes /\ K!StoreFollowsFile
    BY DEF K!Init, Reads, Writes, K!StoreFollowsFile, K!Proc, K!Status, K!NoStatus
  <1>3. Calm /\ Once /\ Lists
    BY DEF K!Init, Calm, Once, Lists
  <1> QED
    BY <1>1, <1>2, <1>3 DEF KInv

LEMMA NextHolds ==
    ASSUME Worker \notin Reader, KInv, [K!Next]_(K!vars)
    PROVE  KInv'
  BY StoreNextTypes, NextReads, NextWrites, NextFollows, NextCalm, NextOnce, NextLists DEF KInv

\* Every variable keeps its type.
THEOREM StoreTypeCorrect ==
    ASSUME StoredTask # {}
    PROVE  K!Spec => []K!TypeOK
  <1>1. K!Init => K!TypeOK
    BY StoreInitTypes
  <1>2. K!TypeOK /\ [K!Next]_(K!vars) => K!TypeOK'
    BY StoreNextTypes
  <1> QED
    BY <1>1, <1>2, PTL DEF K!Spec

\* Whoever reads while a worker writes and the process stops anywhere: the document
\* of a task equals its file unless a write was disturbed, and a listing tells once
\* and truly what it was asked of every task that nothing disturbed.
THEOREM TasksAreToldTruly ==
    ASSUME StoredTask # {}, Worker \notin Reader
    PROVE  K!Spec => []TasksAreTold
  <1>1. K!Init => KInv
    BY InitHolds
  <1>2. KInv /\ [K!Next]_(K!vars) => KInv'
    BY NextHolds
  <1>3. KInv => TasksAreTold
    BY DEF KInv, TasksAreTold, K!TasksAreTold, K!ListingsTell, Once, Lists, Listing
  <1> QED
    BY <1>1, <1>2, <1>3, PTL DEF K!Spec

------------------------------------------------------------------------------
(* Recovery.  GatesStand speaks of the task a recovery has taken; it       *)
(* follows from what the recovery still has to take: its copy of a ledger  *)
(* is the ledger itself as long as that has not changed (Listed), and so   *)
(* is the last scan's (Scanned).  OneGuardian needs what a recovery that   *)
(* is about to register knows of the others (Registering),                 *)
(* CuredIsNotMissing what a row says that nobody has touched since it was  *)
(* written (Cured).                                                        *)

Taken == {"row", "look", "register", "coding"}

\* A ledger that a recovery listed is as it was, unless it changed.
Listed ==
    \A r \in Resumer :
      /\ rpc[r] \in {"idle", "rows"} => DOMAIN seen[r] = {}
      /\ \A t \in DOMAIN seen[r] \ changed[r] : seen[r][t] = docs[t] /\ R!Open(docs[t])

Free(doc) == R!Open(doc) /\ doc.state # "blocked" /\ ~doc.pm

\* What the scan has not to show again, it shows.
Scanned == \A t \in fresh : Free(docs[t]) => t \in snapshot

TakenIsFree ==
    \A r \in Resumer : rpc[r] \in Taken /\ rat[r] \notin changed[r] => Free(docs[rat[r]])

Registers(r, t) == rpc[r] = "register" /\ rat[r] = t

Registering ==
    \A t \in StoredTask, r \in Resumer : Registers(r, t) =>
      /\ guardians[t] > 0 => t \in rraced
      /\ \A q \in Resumer \ {r} : Registers(q, t) => t \in rraced

Cured ==
    /\ \A t \in cured : rows[t].state = "RUNNING" /\ rows[t].here
    /\ rpc[R!Status] = "rows" => \A t \in owed : <<t, TRUE>> \in shown

------------------------------------------------------------------------------
(* Types.                                                                  *)

RecoveryLabel == {"idle", "next", "row", "look", "register", "coding", "rows"}

(* A recovery only lists tasks that there are.                             *)
LEMMA SeenTasks ==
    ASSUME R!TypeOK, NEW r \in Resumer
    PROVE  DOMAIN seen[r] \subseteq StoredTask
  <1>1. PICK S \in SUBSET StoredTask : seen[r] \in [S -> R!Ledger]
    BY DEF R!TypeOK
  <1> QED
    BY <1>1

LEMMA RecoveryInitTypes == StoredTask # {} /\ R!Init => R!TypeOK
  <1> SUFFICES ASSUME StoredTask # {}, R!Init PROVE R!TypeOK
    OBVIOUS
  <1>1. R!NoTask \in StoredTask
    BY DEF R!NoTask
  <1>2. R!NoLedger \in R!Ledger /\ \A t \in StoredTask : [state |-> "doing", pm |-> FALSE] \in R!Ledger
    BY DEF R!NoLedger, R!Ledger, R!TaskState
  <1>3. docs \in [StoredTask -> R!Ledger]
    BY <1>2 DEF R!Init
  <1>4. rows \in [StoredTask -> [state : R!RunState, here : BOOLEAN]]
    BY DEF R!Init, R!RunState
  <1>5. R!Nothing \in [{} -> R!Ledger]
    BY DEF R!Nothing
  <1>6. seen \in [Resumer -> UNION {[S -> R!Ledger] : S \in SUBSET StoredTask}]
    BY <1>5 DEF R!Init
  <1> QED
    BY <1>1, <1>3, <1>4, <1>6 DEF R!Init, R!TypeOK

Copies == UNION {[S -> R!Ledger] : S \in SUBSET StoredTask}

(* A copy of the ledgers of some tasks.                                    *)
LEMMA EnterCopies == \A S \in SUBSET StoredTask : \A f \in [S -> R!Ledger] : f \in Copies
  BY DEF Copies

LEMMA RecoveryNextTypes ==
    ASSUME StoredTask # {}, R!TypeOK, [R!Next]_(R!vars)
    PROVE  R!TypeOK'
  <1> USE DEF R!TypeOK, Copies
  <1>0. R!NoTask \in StoredTask
    BY DEF R!NoTask
  <1>1. ASSUME NEW t \in StoredTask, R!v1_tasks_new(t) PROVE R!TypeOK'
    <2>1. [state |-> "intake", pm |-> FALSE] \in R!Ledger
      BY DEF R!Ledger, R!TaskState
    <2>2. docs' \in [StoredTask -> R!Ledger]
      BY <1>1, <2>1 DEF R!v1_tasks_new
    <2>3. changed' \in [Resumer -> SUBSET StoredTask] /\ fresh' \subseteq StoredTask /\ snapshot' \subseteq StoredTask
      BY <1>1 DEF R!v1_tasks_new, R!Changed
    <2> QED
      BY <1>1, <2>2, <2>3 DEF R!v1_tasks_new, R!Changed, R!requests, R!page
  <1>2. ASSUME NEW t \in StoredTask, R!edit(t) PROVE R!TypeOK'
    <2>1. PICK doc \in R!Ledger : docs' = [docs EXCEPT ![t] = doc]
      BY <1>2 DEF R!edit, R!Ledger, R!TaskState
    <2>2. docs' \in [StoredTask -> R!Ledger]
      BY <2>1
    <2>3. changed' \in [Resumer -> SUBSET StoredTask] /\ fresh' \subseteq StoredTask /\ snapshot' \subseteq StoredTask
      BY <1>2 DEF R!edit, R!Changed
    <2> QED
      BY <1>2, <2>2, <2>3 DEF R!edit, R!Changed, R!requests, R!page
  <1>3. ASSUME NEW t \in StoredTask, R!other_run(t) PROVE R!TypeOK'
    <2>1. PICK s \in R!RunState, b \in BOOLEAN : R!set_run(t, s, b)
      <3>1. rows[t].here \in BOOLEAN
        OBVIOUS
      <3> QED
        BY <1>3, <3>1 DEF R!other_run, R!v1_run_start, R!RunState
    <2>2. rows' \in [StoredTask -> [state : R!RunState, here : BOOLEAN]]
      BY <2>1 DEF R!set_run
    <2> QED
      BY <1>3, <2>2 DEF R!other_run, R!requests, R!page
  <1>4. CASE R!read_runs
    <2>1. shown' \subseteq StoredTask \X BOOLEAN
      <3>1. \A t \in StoredTask : rows[t].here \in BOOLEAN
        OBVIOUS
      <3>2. \A t \in StoredTask : <<t, rows[t].here>> \in StoredTask \X BOOLEAN
        BY <3>1
      <3>3. \A t \in StoredTask : <<t, TRUE>> \in StoredTask \X BOOLEAN
        OBVIOUS
      <3>4. shown' = R!list_runs
        BY <1>4 DEF R!read_runs
      <3> QED
        BY <3>2, <3>3, <3>4 DEF R!list_runs
    <2>2. rpc' \in [Resumer \cup {R!Status} -> RecoveryLabel]
      BY <1>4 DEF R!read_runs, R!Goto, RecoveryLabel
    <2> QED
      BY <1>4, <2>1, <2>2 DEF R!read_runs, R!requests, R!counters, RecoveryLabel
  <1>5. CASE R!v1_status
    <2>1. rpc' \in [Resumer \cup {R!Status} -> RecoveryLabel]
      BY <1>5 DEF R!v1_status, R!Goto, RecoveryLabel
    <2> QED
      BY <1>5, <2>1 DEF R!v1_status, R!requests, R!counters, RecoveryLabel
  <1>6. CASE R!v1_recovery_scan
    BY <1>6 DEF R!v1_recovery_scan, R!requests, R!page, R!counters
  <1>7. ASSUME NEW r \in Resumer, R!v1_recovery_resume(r) PROVE R!TypeOK'
    <2>1. PICK target \in SUBSET StoredTask : seen' = [seen EXCEPT ![r] = [t \in target |-> docs[t]]]
      <3> DEFINE open == {t \in R!_load_tasks_summary : R!Open(docs[t])}
      <3>1. open \subseteq StoredTask
        BY DEF R!_load_tasks_summary
      <3>2. {open} \cup {{t} : t \in open} \subseteq SUBSET StoredTask
        BY <3>1
      <3>3. \E target \in {open} \cup {{t} : t \in open} :
              seen' = [seen EXCEPT ![r] = [t \in target |-> docs[t]]]
        BY <1>7 DEF R!v1_recovery_resume
      <3> HIDE DEF open
      <3> QED
        BY <3>2, <3>3
    <2>2. [t \in target |-> docs[t]] \in [target -> R!Ledger]
      OBVIOUS
    <2>3. seen' \in [Resumer -> Copies]
      BY <2>1, <2>2, EnterCopies
    <2>4. rpc' \in [Resumer \cup {R!Status} -> RecoveryLabel]
      BY <1>7 DEF R!v1_recovery_resume, R!Goto, RecoveryLabel
    <2> QED
      BY <1>7, <2>3, <2>4 DEF R!v1_recovery_resume, R!page, RecoveryLabel
  <1>8. ASSUME NEW r \in Resumer, R!resume_next(r) PROVE R!TypeOK'
    <2>1. PICK t \in DOMAIN seen[r] :
            /\ seen' = [seen EXCEPT ![r] = [u \in DOMAIN seen[r] \ {t} |-> seen[r][u]]]
            /\ rat' = [rat EXCEPT ![r] = t]
            /\ rlocks' \in {rlocks, rlocks \cup {t}}
            /\ coding' \in {coding, [coding EXCEPT ![t] = "RUNNING"]}
            /\ R!Goto(r, "next") \/ R!Goto(r, "row") \/ R!Goto(r, "coding")
      BY <1>8 DEF R!resume_next
    <2>2. PICK S \in SUBSET StoredTask : seen[r] \in [S -> R!Ledger]
      OBVIOUS
    <2>3. /\ t \in StoredTask /\ S \ {t} \in SUBSET StoredTask
          /\ [u \in S \ {t} |-> seen[r][u]] \in [S \ {t} -> R!Ledger]
      BY <2>1, <2>2
    <2>4. seen' \in [Resumer -> Copies]
      <3>1. seen' = [seen EXCEPT ![r] = [u \in S \ {t} |-> seen[r][u]]]
        BY <2>1, <2>2
      <3> QED
        BY <2>3, <3>1, EnterCopies
    <2>5. rpc' \in [Resumer \cup {R!Status} -> RecoveryLabel]
      BY <2>1 DEF R!Goto, RecoveryLabel
    <2>6. /\ rat' \in [Resumer -> StoredTask] /\ rlocks' \subseteq StoredTask
          /\ coding' \in [StoredTask -> {"absent", "RUNNING", "DONE"}]
      BY <2>1, <2>3
    <2> QED
      BY <1>8, <2>4, <2>5, <2>6 DEF R!resume_next, R!page, R!counters, RecoveryLabel
  <1>9. ASSUME NEW r \in Resumer, R!_run_team_coding_iteration(r) \/ R!look(r) PROVE R!TypeOK'
    <2>1. rat[r] \in StoredTask
      OBVIOUS
    <2>2. rpc' \in [Resumer \cup {R!Status} -> RecoveryLabel]
      BY <1>9 DEF R!_run_team_coding_iteration, R!look, R!Goto, RecoveryLabel
    <2>3. CASE R!_run_team_coding_iteration(r)
      BY <2>1, <2>2, <2>3 DEF R!_run_team_coding_iteration, R!requests, R!page, R!counters, RecoveryLabel
    <2>4. CASE R!look(r)
      BY <2>1, <2>2, <2>4 DEF R!look, R!requests, R!page, R!counters, RecoveryLabel
    <2> QED
      BY <1>9, <2>3, <2>4
  <1>13. ASSUME NEW r \in Resumer, R!write_row(r) PROVE R!TypeOK'
    <2>1. rat[r] \in StoredTask
      OBVIOUS
    <2>2. rpc' \in [Resumer \cup {R!Status} -> RecoveryLabel]
      BY <1>13 DEF R!write_row, R!Goto, RecoveryLabel
    <2>3. rows' \in [StoredTask -> [state : R!RunState, here : BOOLEAN]]
      BY <1>13, <2>1 DEF R!write_row, R!set_run, R!RunState
    <2> QED
      BY <1>13, <2>1, <2>2, <2>3 DEF R!write_row, R!requests, R!page, R!counters, RecoveryLabel
  <1>14. ASSUME NEW r \in Resumer, R!register_agent(r) PROVE R!TypeOK'
    <2>1. rpc' \in [Resumer \cup {R!Status} -> RecoveryLabel]
      BY <1>14 DEF R!register_agent, R!Goto, RecoveryLabel
    <2>2. guardians' \in [StoredTask -> Nat]
      BY <1>14 DEF R!register_agent
    <2> QED
      BY <1>14, <2>1, <2>2 DEF R!register_agent, R!requests, R!page, R!counters, RecoveryLabel
  <1>10. ASSUME NEW r \in Resumer, R!resume_done(r) PROVE R!TypeOK'
    <2>1. rpc' \in [Resumer \cup {R!Status} -> RecoveryLabel]
      BY <1>10 DEF R!resume_done, R!Goto, RecoveryLabel
    <2> QED
      BY <1>0, <1>10, <2>1 DEF R!resume_done, R!page, R!counters, RecoveryLabel
  <1>11. CASE R!crash
    <2>1. R!Nothing \in [{} -> R!Ledger]
      BY DEF R!Nothing
    <2>2. seen' \in [Resumer -> Copies]
      BY <1>11, <2>1, EnterCopies DEF R!crash
    <2> QED
      BY <1>0, <1>11, <2>2 DEF R!crash
  <1>12. CASE UNCHANGED R!vars
    BY <1>12 DEF R!vars, R!requests, R!page, R!counters
  <1> QED
    BY <1>1, <1>2, <1>3, <1>4, <1>5, <1>6, <1>7, <1>8, <1>9, <1>10, <1>11, <1>12, <1>13,
       <1>14 DEF R!Next

------------------------------------------------------------------------------
(* What a recovery takes.                                                  *)

(* The gates of the recovery let pass what is free, and of the open ones   *)
(* the scan names the same.                                                *)
LEMMA GatesLetPass ==
    ASSUME NEW doc \in R!Ledger, R!Open(doc), R!_gates_for_task(doc) = {}
    PROVE  Free(doc)
  BY DEF R!_gates_for_task, R!Open, Free

LEMMA ScanShows ==
    ASSUME NEW doc \in R!Ledger, Free(doc)
    PROVE  R!Open(doc) /\ R!gates_of_scan(doc) = {}
  BY DEF R!gates_of_scan, Free

\* Whoever changes a ledger, every request under way will know.
LEMMA ChangeIsKnown ==
    ASSUME R!TypeOK, NEW t \in StoredTask, R!Changed(t), NEW doc \in R!Ledger,
           docs' = [docs EXCEPT ![t] = doc], Listed, Scanned, TakenIsFree
    PROVE  Listed' /\ Scanned' /\ TakenIsFree'
  <1>1. \A u \in StoredTask \ {t} : docs'[u] = docs[u]
    BY DEF R!TypeOK
  <1>2. /\ rpc' = rpc /\ seen' = seen /\ rat' = rat
        /\ fresh' = fresh \ {t} /\ snapshot' = snapshot \ {t}
        /\ \A r \in Resumer : changed'[r] = IF rpc[r] = "idle" THEN {} ELSE changed[r] \cup {t}
    BY DEF R!Changed, R!requests
  <1>3. Listed'
    <2> SUFFICES ASSUME NEW r \in Resumer
                 PROVE /\ rpc[r] \in {"idle", "rows"} => DOMAIN seen[r] = {}
                       /\ \A u \in DOMAIN seen[r] \ changed'[r] :
                             seen[r][u] = docs'[u] /\ R!Open(docs'[u])
      BY <1>2 DEF Listed
    <2>1. rpc[r] \in {"idle", "rows"} => DOMAIN seen[r] = {}
      BY DEF Listed
    <2>2. ASSUME NEW u \in DOMAIN seen[r] \ changed'[r]
          PROVE  seen[r][u] = docs'[u] /\ R!Open(docs'[u])
      <3>1. u \in StoredTask \ {t} /\ u \notin changed[r]
        BY <1>2, <2>1, <2>2, SeenTasks
      <3> QED
        BY <1>1, <3>1 DEF Listed
    <2> QED
      BY <2>1, <2>2
  <1>4. Scanned'
    BY <1>1, <1>2 DEF Scanned, R!TypeOK
  <1>5. TakenIsFree'
    <2> SUFFICES ASSUME NEW r \in Resumer, rpc[r] \in Taken, rat[r] \notin changed'[r]
                 PROVE  Free(docs'[rat[r]])
      BY <1>2 DEF TakenIsFree
    <2>1. rat[r] # t /\ rat[r] \notin changed[r]
      BY <1>2 DEF Taken
    <2> QED
      BY <1>1, <2>1 DEF TakenIsFree, R!TypeOK
  <1> QED
    BY <1>3, <1>4, <1>5

\* A step of r that leaves the copies of other requests, and all ledgers.
LEMMA TakeNext ==
    ASSUME R!TypeOK, Listed, TakenIsFree, NEW r \in Resumer, R!resume_next(r)
    PROVE  Listed' /\ TakenIsFree'
  <1>1. PICK t \in DOMAIN seen[r] :
          /\ seen' = [seen EXCEPT ![r] = [u \in DOMAIN seen[r] \ {t} |-> seen[r][u]]]
          /\ rat' = [rat EXCEPT ![r] = t]
          /\ \/ R!Goto(r, "next")
             \/ R!_gates_for_task(seen[r][t]) = {} /\ (R!Goto(r, "row") \/ R!Goto(r, "coding"))
    BY DEF R!resume_next
  <1>2. rpc[r] = "next" /\ docs' = docs /\ changed' = changed
    BY DEF R!resume_next, R!counters, R!page
  <1>3. /\ t \in StoredTask /\ rat'[r] = t
        /\ DOMAIN seen'[r] = DOMAIN seen[r] \ {t}
        /\ \A u \in DOMAIN seen'[r] : seen'[r][u] = seen[r][u]
        /\ rpc'[r] \in {"next", "row", "coding"}
    BY <1>1, SeenTasks DEF R!TypeOK, R!Goto
  <1>4. \A q \in Resumer \ {r} : rpc'[q] = rpc[q] /\ seen'[q] = seen[q] /\ rat'[q] = rat[q]
    BY <1>1 DEF R!TypeOK, R!Goto
  <1>5. Listed'
    BY <1>2, <1>3, <1>4 DEF Listed
  <1>6. t \notin changed[r] /\ rpc'[r] # "next" => Free(docs[t])
    <2> SUFFICES ASSUME t \notin changed[r], rpc'[r] # "next" PROVE Free(docs[t])
      OBVIOUS
    <2>1. seen[r][t] = docs[t] /\ R!Open(docs[t])
      BY DEF Listed
    <2>2. R!_gates_for_task(seen[r][t]) = {}
      BY <1>1 DEF R!Goto, R!TypeOK
    <2> QED
      BY <1>3, <2>1, <2>2, GatesLetPass DEF R!TypeOK
  <1>7. TakenIsFree'
    BY <1>2, <1>3, <1>4, <1>6 DEF TakenIsFree, Taken
  <1> QED
    BY <1>5, <1>7

(* A recovery starts from the ledgers as they are.                         *)
LEMMA ListAll ==
    ASSUME R!TypeOK, Listed, TakenIsFree, NEW r \in Resumer, R!v1_recovery_resume(r)
    PROVE  Listed' /\ TakenIsFree'
  <1> DEFINE open == {t \in R!_load_tasks_summary : R!Open(docs[t])}
  <1>1. PICK target \in {open} \cup {{t} : t \in open} :
          seen' = [seen EXCEPT ![r] = [t \in target |-> docs[t]]]
    BY DEF R!v1_recovery_resume
  <1>2. \A t \in target : R!Open(docs[t])
    OBVIOUS
  <1>3. /\ rpc' = [rpc EXCEPT ![r] = "next"] /\ changed' = [changed EXCEPT ![r] = {}]
        /\ docs' = docs /\ rat' = rat
    BY DEF R!v1_recovery_resume, R!Goto
  <1>4. /\ seen'[r] = [t \in target |-> docs[t]] /\ rpc'[r] = "next"
        /\ \A q \in Resumer \ {r} : rpc'[q] = rpc[q] /\ seen'[q] = seen[q] /\ changed'[q] = changed[q]
    BY <1>1, <1>3 DEF R!TypeOK
  <1>5. Listed'
    BY <1>2, <1>3, <1>4 DEF Listed
  <1>6. TakenIsFree'
    BY <1>3, <1>4 DEF TakenIsFree, Taken
  <1> QED
    BY <1>5, <1>6

(* The steps of a recovery that takes nothing, and of everybody else.      *)
LEMMA NothingTaken ==
    ASSUME R!TypeOK, Listed, TakenIsFree, docs' = docs,
           \A r \in Resumer :
             \/ /\ rpc'[r] = rpc[r] /\ rat'[r] = rat[r]
                /\ seen'[r] = seen[r] /\ changed'[r] = changed[r]
             \/ /\ rpc[r] \in Taken /\ rpc'[r] \in Taken /\ rat'[r] = rat[r]
                /\ seen'[r] = seen[r] /\ changed'[r] = changed[r]
             \/ rpc'[r] = "next" /\ seen'[r] = seen[r] /\ changed'[r] = changed[r]
             \/ rpc'[r] \in {"idle", "rows"} /\ DOMAIN seen'[r] = {}
    PROVE  Listed' /\ TakenIsFree'
  <1>1. Listed'
    BY DEF Listed, Taken
  <1>2. TakenIsFree'
    BY DEF TakenIsFree, Taken
  <1> QED
    BY <1>1, <1>2

LEMMA NextListed ==
    ASSUME R!TypeOK, Listed, Scanned, TakenIsFree, [R!Next]_(R!vars)
    PROVE  Listed' /\ Scanned' /\ TakenIsFree'
  <1>1. ASSUME NEW t \in StoredTask, R!v1_tasks_new(t) PROVE Listed' /\ Scanned' /\ TakenIsFree'
    <2>1. [state |-> "intake", pm |-> FALSE] \in R!Ledger
      BY DEF R!Ledger, R!TaskState
    <2> QED
      BY <1>1, <2>1, ChangeIsKnown DEF R!v1_tasks_new
  <1>2. ASSUME NEW t \in StoredTask, R!edit(t) PROVE Listed' /\ Scanned' /\ TakenIsFree'
    <2>1. PICK doc \in R!Ledger : docs' = [docs EXCEPT ![t] = doc]
      BY <1>2 DEF R!edit, R!Ledger, R!TaskState
    <2> QED
      BY <1>2, <2>1, ChangeIsKnown DEF R!edit
  <1>3. CASE R!v1_recovery_scan
    <2>1. Scanned'
      BY <1>3, ScanShows DEF R!v1_recovery_scan, Scanned, R!TypeOK
    <2>2. /\ docs' = docs
          /\ \A r \in Resumer : /\ rpc'[r] = rpc[r] /\ rat'[r] = rat[r]
                                /\ seen'[r] = seen[r] /\ changed'[r] = changed[r]
      BY <1>3 DEF R!v1_recovery_scan, R!requests
    <2> QED
      BY <2>1, <2>2, NothingTaken
  <1>4. ASSUME docs' = docs, fresh' = fresh, snapshot' = snapshot PROVE Scanned'
    BY <1>4 DEF Scanned
  <1>5. ASSUME NEW r \in Resumer, R!v1_recovery_resume(r) PROVE Listed' /\ Scanned' /\ TakenIsFree'
    BY <1>4, <1>5, ListAll DEF R!v1_recovery_resume
  <1>6. ASSUME NEW r \in Resumer, R!resume_next(r) PROVE Listed' /\ Scanned' /\ TakenIsFree'
    BY <1>4, <1>6, TakeNext DEF R!resume_next
  <1>7. ASSUME NEW t \in StoredTask, R!other_run(t) PROVE Listed' /\ Scanned' /\ TakenIsFree'
    <2>1. /\ docs' = docs /\ fresh' = fresh /\ snapshot' = snapshot
          /\ rpc' = rpc /\ rat' = rat /\ seen' = seen /\ changed' = changed
      BY <1>7 DEF R!other_run, R!requests
    <2> QED
      BY <1>4, <2>1, NothingTaken
  <1>8. CASE R!read_runs \/ R!v1_status
    <2>1. /\ docs' = docs /\ fresh' = fresh /\ snapshot' = snapshot
          /\ rat' = rat /\ seen' = seen /\ changed' = changed
          /\ rpc[R!Status] \in {"idle", "rows"}
          /\ rpc' = [rpc EXCEPT ![R!Status] = "idle"] \/ rpc' = [rpc EXCEPT ![R!Status] = "rows"]
      BY <1>8 DEF R!read_runs, R!v1_status, R!requests, R!Goto
    <2>2. \A r \in Resumer :
            rpc'[r] = rpc[r] \/ (rpc'[r] \in {"idle", "rows"} /\ DOMAIN seen'[r] = {})
      BY <2>1 DEF R!TypeOK, Listed
    <2> QED
      BY <1>4, <2>1, <2>2, NothingTaken
  <1>9. ASSUME NEW r \in Resumer,
               \/ R!_run_team_coding_iteration(r) \/ R!write_row(r) \/ R!look(r) \/ R!register_agent(r)
        PROVE  Listed' /\ Scanned' /\ TakenIsFree'
    <2>1. /\ docs' = docs /\ fresh' = fresh /\ snapshot' = snapshot
          /\ rat' = rat /\ seen' = seen /\ changed' = changed
      BY <1>9 DEF R!_run_team_coding_iteration, R!write_row, R!look, R!register_agent, R!requests
    <2>2. PICK label \in Taken \cup {"next"} : rpc' = [rpc EXCEPT ![r] = label]
      BY <1>9 DEF R!_run_team_coding_iteration, R!write_row, R!look, R!register_agent, R!Goto, Taken
    <2>3. rpc[r] \in Taken
      BY <1>9 DEF R!_run_team_coding_iteration, R!write_row, R!look, R!register_agent, Taken
    <2>4. rpc'[r] = label /\ \A q \in Resumer \ {r} : rpc'[q] = rpc[q]
      BY <2>2 DEF R!TypeOK
    <2> QED
      BY <1>4, <2>1, <2>2, <2>3, <2>4, NothingTaken
  <1>10. ASSUME NEW r \in Resumer, R!resume_done(r) PROVE Listed' /\ Scanned' /\ TakenIsFree'
    <2>1. /\ docs' = docs /\ fresh' = fresh /\ snapshot' = snapshot /\ seen' = seen
          /\ rpc' = [rpc EXCEPT ![r] = "idle"] /\ DOMAIN seen[r] = {}
          /\ rat' = [rat EXCEPT ![r] = R!NoTask] /\ changed' = [changed EXCEPT ![r] = {}]
      BY <1>10 DEF R!resume_done, R!Goto
    <2>2. /\ rpc'[r] = "idle"
          /\ \A q \in Resumer \ {r} : rpc'[q] = rpc[q] /\ rat'[q] = rat[q] /\ changed'[q] = changed[q]
      BY <2>1 DEF R!TypeOK
    <2> QED
      BY <1>4, <2>1, <2>2, NothingTaken
  <1>11. CASE R!crash
    <2>1. /\ docs' = docs /\ fresh' = fresh /\ snapshot' = snapshot
          /\ \A r \in Resumer : rpc'[r] = "idle" /\ seen'[r] = R!Nothing
      BY <1>11 DEF R!crash
    <2>2. DOMAIN R!Nothing = {}
      BY DEF R!Nothing
    <2> QED
      BY <1>4, <2>1, <2>2, NothingTaken
  <1>12. CASE UNCHANGED R!vars
    BY <1>4, <1>12, NothingTaken DEF R!vars
  <1> QED
    BY <1>1, <1>2, <1>3, <1>5, <1>6, <1>7, <1>8, <1>9, <1>10, <1>11, <1>12 DEF R!Next

------------------------------------------------------------------------------
(* Guardians.                                                              *)

(* Who takes another task, or none, does not register one.                 *)
LEMMA OthersRegister ==
    ASSUME Registering, guardians' = guardians, rraced' = rraced,
           \A r \in Resumer, t \in StoredTask : Registers(r, t)' => Registers(r, t)
    PROVE  Registering'
  BY DEF Registering

LEMMA NextRegistering ==
    ASSUME R!TypeOK, Registering, [R!Next]_(R!vars)
    PROVE  Registering'
  <1>1. CASE \E t \in StoredTask : R!v1_tasks_new(t) \/ R!edit(t) \/ R!other_run(t)
    BY <1>1, OthersRegister
    DEF R!v1_tasks_new, R!edit, R!other_run, R!Changed, R!requests, Registers
  <1>2. CASE R!read_runs \/ R!v1_status
    <2>1. /\ rat' = rat /\ guardians' = guardians /\ rraced' = rraced
          /\ rpc' = [rpc EXCEPT ![R!Status] = "idle"] \/ rpc' = [rpc EXCEPT ![R!Status] = "rows"]
      BY <1>2 DEF R!read_runs, R!v1_status, R!requests, R!Goto
    <2> QED
      BY <2>1, OthersRegister DEF Registers, R!TypeOK
  <1>3. CASE R!v1_recovery_scan \/ UNCHANGED R!vars
    BY <1>3, OthersRegister DEF R!v1_recovery_scan, R!requests, R!vars, Registers
  <1>4. ASSUME NEW r \in Resumer,
               \/ R!v1_recovery_resume(r) \/ R!resume_next(r) \/ R!_run_team_coding_iteration(r)
               \/ R!write_row(r) \/ R!resume_done(r)
        PROVE  Registering'
    <2>1. /\ guardians' = guardians /\ rraced' = rraced
          /\ \E l \in RecoveryLabel \ {"register"} : rpc' = [rpc EXCEPT ![r] = l]
          /\ \A q \in Resumer \ {r} : rat'[q] = rat[q]
      BY <1>4 DEF R!v1_recovery_resume, R!resume_next, R!_run_team_coding_iteration, R!write_row,
                  R!resume_done, R!requests, R!counters, R!page, R!Goto, RecoveryLabel, R!TypeOK
    <2> QED
      BY <2>1, OthersRegister DEF Registers, R!TypeOK
  <1>5. ASSUME NEW r \in Resumer, R!look(r) PROVE Registering'
    <2>1. /\ guardians' = guardians /\ rat' = rat /\ rpc[r] = "look"
          /\ rpc' = [rpc EXCEPT ![r] = IF guardians[rat[r]] > 0 THEN "next" ELSE "register"]
          /\ rraced' = IF \E q \in Resumer \ {r} : Registers(q, rat[r])
                      THEN rraced \cup {rat[r]} ELSE rraced
      BY <1>5 DEF R!look, R!requests, R!Goto, Registers
    <2>2. \A q \in Resumer \ {r} : rpc'[q] = rpc[q]
      BY <2>1 DEF R!TypeOK
    <2>3. rpc'[r] = "register" => ~(guardians[rat[r]] > 0)
      BY <2>1 DEF R!TypeOK
    <2> QED
      BY <2>1, <2>2, <2>3 DEF Registering, Registers
  <1>6. ASSUME NEW r \in Resumer, R!register_agent(r) PROVE Registering'
    <2>1. /\ rat' = rat /\ rraced' = rraced /\ Registers(r, rat[r])
          /\ rpc' = [rpc EXCEPT ![r] = "next"]
          /\ guardians' = [guardians EXCEPT ![rat[r]] = @ + 1]
      BY <1>6 DEF R!register_agent, R!requests, R!Goto, Registers
    <2>2. /\ rpc'[r] = "next"
          /\ \A q \in Resumer \ {r} : rpc'[q] = rpc[q]
          /\ \A t \in StoredTask \ {rat[r]} : guardians'[t] = guardians[t]
      BY <2>1 DEF R!TypeOK
    <2>3. \A q \in Resumer, t \in StoredTask : Registers(q, t)' => q # r /\ Registers(q, t)
      BY <2>1, <2>2 DEF Registers
    <2>4. rat[r] \in StoredTask
      BY DEF R!TypeOK
    <2>5. \A q \in Resumer : Registers(q, rat[r])' => rat[r] \in rraced
      BY <2>1, <2>3, <2>4 DEF Registering
    <2> QED
      BY <2>1, <2>2, <2>3, <2>5 DEF Registering
  <1>7. CASE R!crash
    BY <1>7 DEF R!crash, Registering, Registers
  <1> QED
    BY <1>1, <1>2, <1>3, <1>4, <1>5, <1>6, <1>7 DEF R!Next

(* A second guardian is registered only by the second of two recoveries    *)
(* that saw none.                                                          *)
LEMMA NextOneGuardian ==
    ASSUME R!TypeOK, Registering, R!OneGuardian, [R!Next]_(R!vars)
    PROVE  R!OneGuardian'
  <1>1. ASSUME NEW r \in Resumer, R!register_agent(r) PROVE R!OneGuardian'
    <2>1. /\ Registers(r, rat[r]) /\ rraced' = rraced /\ rat[r] \in StoredTask
          /\ guardians' = [guardians EXCEPT ![rat[r]] = @ + 1]
      BY <1>1 DEF R!register_agent, Registers, R!TypeOK
    <2>2. /\ guardians'[rat[r]] = guardians[rat[r]] + 1 /\ guardians[rat[r]] \in Nat
          /\ \A t \in StoredTask \ {rat[r]} : guardians'[t] = guardians[t]
      BY <2>1 DEF R!TypeOK
    <2>3. guardians'[rat[r]] > 1 => guardians[rat[r]] > 0
      BY <2>2
    <2>4. guardians'[rat[r]] > 1 => rat[r] \in rraced
      BY <2>1, <2>3 DEF Registering
    <2> QED
      BY <2>1, <2>2, <2>4 DEF R!OneGuardian
  <1>2. CASE guardians' = guardians /\ rraced \subseteq rraced'
    BY <1>2 DEF R!OneGuardian
  <1>3. \/ \E r \in Resumer : R!register_agent(r)
        \/ guardians' = guardians /\ rraced \subseteq rraced'
    BY DEF R!Next, R!v1_tasks_new, R!edit, R!other_run, R!Changed, R!read_runs, R!v1_status, R!v1_recovery_scan,
           R!v1_recovery_resume, R!resume_next, R!_run_team_coding_iteration, R!write_row, R!look,
           R!resume_done, R!crash, R!vars
  <1> QED
    BY <1>1, <1>2, <1>3

------------------------------------------------------------------------------
(* Rows.                                                                   *)

LEMMA NextCured ==
    ASSUME R!TypeOK, Cured, [R!Next]_(R!vars)
    PROVE  Cured'
  <1>1. ASSUME NEW t \in StoredTask, R!other_run(t) PROVE Cured'
    <2>1. /\ cured' = cured \ {t} /\ rpc' = rpc /\ shown' = shown /\ owed' = owed
          /\ \E s, b : rows' = [rows EXCEPT ![t] = [state |-> s, here |-> b]]
      BY <1>1 DEF R!other_run, R!v1_run_start, R!set_run, R!page
    <2>2. \A u \in StoredTask \ {t} : rows'[u] = rows[u]
      BY <2>1 DEF R!TypeOK
    <2> QED
      BY <2>1, <2>2 DEF Cured, R!TypeOK
  <1>2. ASSUME NEW r \in Resumer, R!write_row(r) PROVE Cured'
    <2>1. /\ cured' = cured \cup {rat[r]} /\ shown' = shown /\ owed' = owed
          /\ rows' = [rows EXCEPT ![rat[r]] = [state |-> "RUNNING", here |-> TRUE]]
          /\ rpc' = [rpc EXCEPT ![r] = "look"]
      BY <1>2 DEF R!write_row, R!set_run, R!page, R!Goto
    <2>2. /\ rat[r] \in StoredTask
          /\ rows'[rat[r]].state = "RUNNING" /\ rows'[rat[r]].here
          /\ \A u \in StoredTask \ {rat[r]} : rows'[u] = rows[u]
      BY <2>1 DEF R!TypeOK
    <2>3. rpc'[R!Status] = "rows" => rpc[R!Status] = "rows"
      BY <2>1 DEF R!TypeOK
    <2> QED
      BY <2>1, <2>2, <2>3 DEF Cured, R!TypeOK
  <1>3. CASE R!read_runs
    <2>1. shown' = R!list_runs /\ owed' = cured /\ cured' = cured /\ rows' = rows
      BY <1>3 DEF R!read_runs
    <2>2. \A t \in cured : t \in StoredTask /\ rows[t].state = "RUNNING" /\ rows[t].here = TRUE
      <3>1. \A t \in StoredTask : rows[t].here \in BOOLEAN
        BY DEF R!TypeOK
      <3> QED
        BY <3>1 DEF Cured, R!TypeOK
    <2>3. \A t \in cured : <<t, TRUE>> \in R!list_runs
      <3> SUFFICES ASSUME NEW t \in cured PROVE <<t, TRUE>> \in R!list_runs
        OBVIOUS
      <3>1. t \in {u \in StoredTask : rows[u].state \in R!_RUN_STATE_ACTIVE}
        BY <2>2 DEF R!_RUN_STATE_ACTIVE
      <3>2. <<t, TRUE>> = <<t, rows[t].here>>
        BY <2>2
      <3> QED
        BY <3>1, <3>2, Zenon DEF R!list_runs
    <2> QED
      BY <2>1, <2>3 DEF Cured
  <1>4. CASE /\ rows' = rows /\ cured' = cured /\ shown' = shown /\ owed' = owed
             /\ rpc'[R!Status] = "rows" => rpc[R!Status] = "rows"
    BY <1>4 DEF Cured
  <1>5. CASE R!v1_status \/ R!crash
    <2>1. rows' = rows /\ cured' = cured /\ rpc'[R!Status] # "rows"
      BY <1>5 DEF R!v1_status, R!crash, R!Goto, R!TypeOK
    <2> QED
      BY <2>1 DEF Cured
  <1>6. CASE \E t \in StoredTask : R!v1_tasks_new(t) \/ R!edit(t)
    BY <1>4, <1>6 DEF R!v1_tasks_new, R!edit, R!Changed, R!page
  <1>7. CASE R!v1_recovery_scan \/ UNCHANGED R!vars
    BY <1>4, <1>7 DEF R!v1_recovery_scan, R!page, R!vars
  <1>8. ASSUME NEW r \in Resumer,
               \/ R!v1_recovery_resume(r) \/ R!resume_next(r) \/ R!_run_team_coding_iteration(r)
               \/ R!look(r) \/ R!register_agent(r) \/ R!resume_done(r)
        PROVE  Cured'
    <2>1. /\ rows' = rows /\ cured' = cured /\ shown' = shown /\ owed' = owed
          /\ \E l \in RecoveryLabel \ {"rows"} : rpc' = [rpc EXCEPT ![r] = l]
      BY <1>8 DEF R!v1_recovery_resume, R!resume_next, R!_run_team_coding_iteration, R!look,
                  R!register_agent, R!resume_done, R!page, R!Goto, RecoveryLabel
    <2> QED
      BY <1>4, <2>1 DEF R!TypeOK
  <1> QED
    BY <1>1, <1>2, <1>3, <1>5, <1>6, <1>7, <1>8 DEF R!Next

------------------------------------------------------------------------------
(* The theorems.                                                           *)

RInv ==
    /\ R!TypeOK /\ Listed /\ Scanned /\ TakenIsFree /\ Registering /\ R!OneGuardian /\ Cured

LEMMA InitIInv ==
    ASSUME StoredTask # {}, R!Init
    PROVE  RInv
  <1>1. R!TypeOK
    BY RecoveryInitTypes
  <1>2. \A r \in Resumer : DOMAIN seen[r] = {} /\ rpc[r] = "idle"
    BY DEF R!Init, R!Nothing
  <1>3. Listed /\ Scanned /\ TakenIsFree /\ Registering
    BY <1>2 DEF R!Init, Listed, Scanned, TakenIsFree, Taken, Registering, Registers
  <1>4. R!OneGuardian /\ Cured
    BY DEF R!Init, R!OneGuardian, Cured
  <1> QED
    BY <1>1, <1>3, <1>4 DEF RInv

LEMMA NextIInv ==
    ASSUME StoredTask # {}, RInv, [R!Next]_(R!vars)
    PROVE  RInv'
  BY RecoveryNextTypes, NextListed, NextRegistering, NextOneGuardian, NextCured DEF RInv

LEMMA Promised ==
    ASSUME RInv
    PROVE  R!RecoveryHolds
  <1>1. R!GatesStand
    <2> SUFFICES ASSUME NEW r \in Resumer, rpc[r] \in Taken, rat[r] \notin changed[r]
                 PROVE  /\ docs[rat[r]].state \notin {"absent", "blocked", "closed"}
                        /\ ~docs[rat[r]].pm
                        /\ rat[r] \in fresh => rat[r] \in snapshot
      BY DEF R!GatesStand, Taken
    <2>1. Free(docs[rat[r]])
      BY DEF RInv, TakenIsFree
    <2>2. rat[r] \in fresh => rat[r] \in snapshot
      BY <2>1 DEF RInv, Scanned
    <2> QED
      BY <2>1, <2>2 DEF Free, R!Open
  <1>2. R!CuredIsNotMissing
    <2> SUFFICES ASSUME rpc[R!Status] = "rows", NEW t \in owed,
                        t \in R!_task_run_sync_summary.missing
                 PROVE  FALSE
      BY DEF R!CuredIsNotMissing
    <2>1. <<t, TRUE>> \notin shown
      BY DEF R!_task_run_sync_summary
    <2> QED
      BY <2>1 DEF RInv, Cured
  <1> QED
    BY <1>1, <1>2 DEF RInv, R!RecoveryHolds

(* Tasks, rows, agents and requests keep their types.                      *)
THEOREM RecoveryTypeCorrect == ASSUME StoredTask # {} PROVE R!Spec => []R!TypeOK
  <1>1. R!Init => RInv
    BY InitIInv
  <1>2. RInv /\ [R!Next]_(R!vars) => RInv'
    BY NextIInv
  <1>3. RInv => R!TypeOK
    BY DEF RInv
  <1> QED
    BY <1>1, <1>2, <1>3, PTL DEF R!Spec

(* However recoveries overlap, stop or come late: what they take up was    *)
(* open and waited for nobody, a second guardian stems from two that saw   *)
(* none, and what they cured is not reported as missing.                   *)
THEOREM RecoveryIsSafe == ASSUME StoredTask # {} PROVE R!Spec => []RecoveryHolds
  <1>1. R!Init => RInv
    BY InitIInv
  <1>2. RInv /\ [R!Next]_(R!vars) => RInv'
    BY NextIInv
  <1>3. RInv => RecoveryHolds
    BY Promised DEF RecoveryHolds
  <1> QED
    BY <1>1, <1>2, <1>3, PTL DEF R!Spec

------------------------------------------------------------------------------
(* AutoUpdate.  A pull takes the local image to the published one, and a   *)
(* restart takes the container to what is the local image by then: so the  *)
(* three stand in one order, however checks overlap and whenever a watcher *)
(* is killed with a command under way.                                     *)

InOrder == running <= tag /\ tag <= published

UpdateInv == U!TypeOK /\ InOrder

LEMMA UpdateInit ==
    ASSUME MaxImage \in Nat \ {0}, MaxOutages \in Nat, U!Init
    PROVE  UpdateInv
  <1>1. published = 1 /\ tag \in {0, 1} /\ running = tag /\ 1 \in U!Image
    BY DEF U!Init, U!NoImage, U!Image
  <1>2. /\ watching = {} /\ wpidfile = U!None /\ starting = {} /\ active = FALSE /\ ufaults \in 0 .. MaxOutages
        /\ upc = [w \in Watcher |-> "sleep"] /\ previous = [w \in Watcher |-> U!NoImage]
    BY DEF U!Init
  <1>3. upc \in [Watcher -> U!Label] /\ previous \in [Watcher -> {U!NoImage} \cup U!Image]
    BY <1>2 DEF U!Label
  <1>4. published \in U!Image /\ tag \in {U!NoImage} \cup U!Image /\ running \in {U!NoImage} \cup U!Image
    BY <1>1 DEF U!NoImage
  <1>5. U!TypeOK
    BY <1>2, <1>3, <1>4 DEF U!TypeOK
  <1> QED
    BY <1>1, <1>5 DEF UpdateInv, InOrder

\* A watcher's death: the docker command it has under way may still come through.
LEMMA WatcherDies ==
    ASSUME UpdateInv, NEW w, w \in Watcher, U!Dies(w)
    PROVE  /\ UNCHANGED <<published, ufaults>> /\ watching' \subseteq watching
           /\ tag' \in {tag, published} /\ running' \in {running, tag} /\ active' \in BOOLEAN
           /\ tag' # tag => running' = running
           /\ upc' \in [Watcher -> U!Label] /\ previous' \in [Watcher -> {U!NoImage} \cup U!Image]
  <1>1. UNCHANGED <<published, ufaults>> /\ watching' \subseteq watching /\ tag' \in {tag, published}
    BY DEF U!Dies
  <1>2. running' \in {running, tag} /\ active' \in BOOLEAN /\ (tag' # tag => running' = running)
    BY DEF U!Dies, U!At, UpdateInv, U!TypeOK
  <1>3. upc' \in [Watcher -> U!Label] /\ previous' \in [Watcher -> {U!NoImage} \cup U!Image]
    BY DEF U!Dies, U!Ends, U!Goto, UpdateInv, U!TypeOK, U!Label
  <1> QED
    BY <1>1, <1>2, <1>3

\* What every step does to the three images.
Forward ==
    \/ UNCHANGED <<published, tag, running>>
    \/ tag' = published /\ UNCHANGED <<published, running>>
    \/ running' = tag /\ UNCHANGED <<published, tag>>
    \/ published' = published + 1 /\ UNCHANGED <<tag, running>>

LEMMA ImagesMove ==
    ASSUME MaxImage \in Nat \ {0}, MaxOutages \in Nat, UpdateInv, [U!Next]_(U!vars)
    PROVE  U!TypeOK' /\ Forward
  <1>0. U!TypeOK /\ InOrder
    BY DEF UpdateInv
  <1>1. ASSUME NEW w \in Watcher,
               \/ U!wake(w) \/ U!query_active_run_count(w) \/ U!local_image_id(w) \/ U!pull(w)
               \/ U!inspect(w) \/ U!up(w) \/ U!pull_failed(w) \/ U!restart_failed(w)
        PROVE  U!TypeOK' /\ Forward
    <2>1. upc' \in [Watcher -> U!Label] /\ previous' \in [Watcher -> {U!NoImage} \cup U!Image]
      BY <1>0, <1>1 DEF U!wake, U!query_active_run_count, U!local_image_id, U!pull, U!inspect, U!up,
           U!pull_failed, U!restart_failed, U!Ends, U!Goto, U!Label, U!TypeOK
    <2>2. ufaults' \in 0 .. MaxOutages
      BY <1>0, <1>1 DEF U!wake, U!query_active_run_count, U!local_image_id, U!pull, U!inspect, U!up,
           U!pull_failed, U!restart_failed, U!Fails, U!TypeOK
    <2>3. UNCHANGED <<watching, wpidfile, starting>> /\ active' \in BOOLEAN /\ Forward
      BY <1>0, <1>1 DEF U!wake, U!query_active_run_count, U!local_image_id, U!pull, U!inspect, U!up,
           U!pull_failed, U!restart_failed, U!watchers, U!TypeOK, Forward
    <2>4. published' = published
      BY <1>1 DEF U!wake, U!query_active_run_count, U!local_image_id, U!pull, U!inspect, U!up,
           U!pull_failed, U!restart_failed
    <2> QED
      BY <1>0, <2>1, <2>2, <2>3, <2>4 DEF U!TypeOK, Forward
  <1>2. ASSUME NEW w \in Watcher, U!start(w) \/ U!start_noted(w) \/ U!start_dies(w) PROVE U!TypeOK' /\ Forward
    BY <1>0, <1>2 DEF U!start, U!start_noted, U!start_dies, U!TypeOK, Forward
  <1>3. ASSUME NEW w \in Watcher, U!watcher_dies(w) PROVE U!TypeOK' /\ Forward
    <2>1. U!Dies(w) /\ UNCHANGED <<wpidfile, starting>>
      BY <1>3 DEF U!watcher_dies
    <2> QED
      BY <1>0, <2>1, WatcherDies DEF U!TypeOK, Forward
  <1>4. CASE U!stop
    <2>1. wpidfile' = U!None /\ starting' = starting
      BY <1>4 DEF U!stop
    <2>2. CASE wpidfile \in watching
      <3>1. wpidfile \in Watcher
        BY <1>0, <2>2 DEF U!TypeOK
      <3>2. U!Dies(wpidfile)
        BY <1>4, <2>2, Zenon DEF U!stop
      <3>3. /\ UNCHANGED <<published, ufaults>> /\ watching' \subseteq watching
            /\ tag' \in {tag, published} /\ running' \in {running, tag} /\ active' \in BOOLEAN
            /\ tag' # tag => running' = running
            /\ upc' \in [Watcher -> U!Label] /\ previous' \in [Watcher -> {U!NoImage} \cup U!Image]
        BY <3>1, <3>2, WatcherDies
      <3> QED
        BY <1>0, <2>1, <3>3 DEF U!TypeOK, Forward
    <2>3. CASE wpidfile \notin watching
      <3>1. UNCHANGED <<published, tag, running, active, watching, upc, previous, ufaults>>
        BY <1>4, <2>3, Zenon DEF U!stop
      <3> QED
        BY <1>0, <2>1, <3>1 DEF U!TypeOK, Forward
    <2> QED
      BY <2>2, <2>3
  <1>5. CASE U!status \/ U!run_begins \/ U!run_ends
    <2>1. /\ UNCHANGED <<published, tag, running, watching, starting, upc, previous, ufaults>>
          /\ wpidfile' \in {wpidfile, U!None} /\ active' \in {active, TRUE, FALSE}
      BY <1>5 DEF U!status, U!run_begins, U!run_ends, U!watchers
    <2> QED
      BY <1>0, <2>1 DEF U!TypeOK, Forward
  <1>6. CASE U!publish
    <2>1. /\ published < MaxImage /\ published' = published + 1
          /\ UNCHANGED <<tag, running, active, watching, wpidfile, starting, upc, previous, ufaults>>
      BY <1>6 DEF U!publish, U!watchers
    <2>2. published \in U!Image
      BY <1>0 DEF U!TypeOK
    <2>3. published' \in U!Image
      BY <2>1, <2>2 DEF U!Image
    <2> QED
      BY <1>0, <2>1, <2>3 DEF U!TypeOK, Forward
  <1>7. CASE UNCHANGED U!vars
    BY <1>0, <1>7 DEF U!vars, U!TypeOK, Forward
  <1> QED
    BY <1>1, <1>2, <1>3, <1>4, <1>5, <1>6, <1>7 DEF U!Next, U!Checks

\* They stay in order.
LEMMA UpdateNext ==
    ASSUME MaxImage \in Nat \ {0}, MaxOutages \in Nat, UpdateInv, [U!Next]_(U!vars)
    PROVE  /\ UpdateInv'
           /\ running <= running' /\ tag <= tag' /\ running' <= tag'
  <1>1. U!TypeOK' /\ Forward
    BY ImagesMove
  <1>2. published \in Nat /\ tag \in Nat /\ running \in Nat /\ running <= tag /\ tag <= published
    BY DEF UpdateInv, InOrder, U!TypeOK, U!Image, U!NoImage
  <1> QED
    BY <1>1, <1>2 DEF UpdateInv, InOrder, Forward

\* However checks, starts and stops of watchers overlap, whatever fails and whenever a
\* watcher is killed: neither the local image nor the container goes back to an older
\* image, and the container runs none that was not pulled.
NeverOlder == [][running <= running' /\ tag <= tag' /\ running' <= tag']_uvars

THEOREM UpdatesGoForward ==
    ASSUME MaxImage \in Nat \ {0}, MaxOutages \in Nat
    PROVE  U!Spec => NeverOlder
  <1>1. U!Init => UpdateInv
    BY UpdateInit
  <1>2. UpdateInv /\ [U!Next]_(U!vars) => UpdateInv'
    BY UpdateNext
  <1>3. UpdateInv /\ [U!Next]_(U!vars) => [running <= running' /\ tag <= tag' /\ running' <= tag']_uvars
    BY UpdateNext
  <1> QED
    BY <1>1, <1>2, <1>3, PTL DEF U!Spec, NeverOlder

\* The images, the watchers and their pid file keep their types.
THEOREM UpdateTyped ==
    ASSUME MaxImage \in Nat \ {0}, MaxOutages \in Nat
    PROVE  U!Spec => []U!TypeOK
  <1>1. U!Init => UpdateInv
    BY UpdateInit
  <1>2. UpdateInv /\ [U!Next]_(U!vars) => UpdateInv'
    BY UpdateNext
  <1>3. UpdateInv => U!TypeOK
    BY DEF UpdateInv
  <1> QED
    BY <1>1, <1>2, <1>3, PTL DEF U!Spec
==============================================================================
