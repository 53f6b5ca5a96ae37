-------------------------- MODULE Lifecycle_proofs --------------------------
(***************************************************************************)
(* Proofs about Lifecycle, for any command line, whatever the limits and   *)
(* however often SIGINT arrives.                                           *)
(***************************************************************************)
EXTENDS Lifecycle, FiniteSetTheorems, TLAPS

-----------------------------------------------------------------------------
(***************************************************************************)
(* The arguments of the child.                                             *)
(***************************************************************************)

\* The letters that begin a word are no neighbours, so there are at most half
\* as many words as characters, rounded up.
LEMMA WordsAreFew ==
  ASSUME NEW p \in Programs
  PROVE  /\ Words(p) \in Nat
         /\ 2 * Words(p) <= Len(p) + 1
<1> DEFINE n == Len(p)
           W == {i \in DOMAIN p : p[i] # Space /\ (i = 1 \/ p[i-1] = Space)}
           V == {i + 1 : i \in W}
<1>1. n \in Nat /\ DOMAIN p = 1..n
  BY LifeAssumption
<1>2. W \subseteq 1..(n + 1) /\ V \subseteq 1..(n + 1)
  BY <1>1
<1>3. W \cap V = {}
  BY <1>1
<1>4. IsFiniteSet(1..(n + 1)) /\ Cardinality(1..(n + 1)) = n + 1
  BY <1>1, FS_Interval
<1>5. IsFiniteSet(W) /\ IsFiniteSet(V)
  BY <1>2, <1>4, FS_Subset
<1>6. Cardinality(W) = Cardinality(V)
  <2> DEFINE f == [i \in W |-> i + 1]
  <2>1. f \in Bijection(W, V)
    <3>1. \A i \in W : i \in Int
      BY <1>2
    <3> HIDE DEF W
    <3>2. f \in [W -> V]
      OBVIOUS
    <3>3. \A i, j \in W : f[i] = f[j] => i = j
      BY <3>1
    <3>4. \A v \in V : \E i \in W : f[i] = v
      OBVIOUS
    <3> QED BY <3>2, <3>3, <3>4 DEF Bijection, Injection, Surjection, IsInjective
  <2>2. ExistsBijection(W, V)
    BY <2>1 DEF ExistsBijection
  <2> QED BY <1>5, <2>2, FS_Bijection
<1>7. Cardinality(W \cup V) = Cardinality(W) + Cardinality(V) - Cardinality(W \cap V)
  BY <1>5, FS_Union
<1>8. Cardinality(W \cup V) <= n + 1
  BY <1>2, <1>4, FS_Subset
<1>9. Cardinality(W \cap V) = 0
  BY <1>3, FS_EmptySet
<1>10. Cardinality(W) \in Nat
  BY <1>5, FS_CardinalityType
<1> HIDE DEF W, V, n
<1>11. 2 * Cardinality(W) <= n + 1
  BY <1>1, <1>6, <1>7, <1>8, <1>9, <1>10
<1> QED BY <1>10, <1>11 DEF Words, W, n

\* The NULL is stored where a word could have been, at most.
LEMMA ArgCountType ==
  ASSUME NEW p \in Programs
  PROVE  ArgCount(p) \in Nat /\ ArgCount(p) <= Words(p)
BY WordsAreFew, LifeAssumption DEF ArgCount

-----------------------------------------------------------------------------
(***************************************************************************)
(* The inductive invariant.                                                *)
(***************************************************************************)

\* A new process.
LEMMA IInvInit == Init => IInv
<1> SUFFICES ASSUME Init PROVE IInv
  OBVIOUS
<1> USE DEF Init
<1>1. TypeOK
  <2>1. /\ link \in {"none", "attached", "detached"}
        /\ target \in {"none", "forked", "wrote", "program", "zombie", "reaped", "reused"}
        /\ pipe \in [data : {"empty", "pid"}, writers : SUBSET {"main", "child"}]
        /\ jammed \in SUBSET Handlers /\ misuse \in SUBSET {"use", "double"}
    OBVIOUS
  <2>2. sigints \in 0..MaxSigints
    BY LifeAssumption
  <2> QED BY <2>1, <2>2 DEF TypeOK
<1>2. CleanupStopsMain /\ HandlersCounted /\ FreedByCleanup /\ CalmMeansSetUp
  BY DEF CleanupStopsMain, HandlersCounted, FreedByCleanup, CalmMeansSetUp,
         Begun, One, Cleanups, Handlers
<1>3. PipeTells /\ AttachComesFirst
  BY DEF PipeTells, AttachComesFirst, Threads
<1>4. CalmStopIsClean /\ TracesTheChild
  BY DEF CalmStopIsClean, TracesTheChild
<1> QED BY <1>1, <1>2, <1>3, <1>4 DEF IInv

\* A step of main that begins no cleanup: none has begun, so the skeleton is
\* whole and every part of the invariant that speaks of cleanups is void.
LEMMA MainIsAlone ==
  ASSUME IInv, running, cleanup["main"] = "off", main # "cleanup"
  PROVE  /\ \A c \in Cleanups : ~Begun(c)
         /\ object # "freed"
<1>1. \A c \in Cleanups : ~Begun(c)
  BY DEF IInv, CleanupStopsMain, Begun
<1> QED BY <1>1 DEF IInv, FreedByCleanup, Begun

\* The steps of main that succeed, and its end.
LEMMA IInvMain ==
  ASSUME IInv,
         \/ SetUp \/ LoadSkeleton \/ TakePid \/ Spawn \/ ReadPid \/ StoreIdentifier
         \/ Attach \/ CreateStack \/ CreateSyscall \/ MainEnds
  PROVE  IInv'
<1> USE DEF IInv, MainAt, mainVars, skelVars, cleanupVars, targetVars
<1> DEFINE Step == \/ SetUp \/ LoadSkeleton \/ TakePid \/ Spawn \/ ReadPid
                   \/ StoreIdentifier \/ Attach \/ CreateStack \/ CreateSyscall
                   \/ MainEnds
<1>1. running /\ cleanup["main"] = "off" /\ main # "cleanup" /\ main' # "cleanup"
  BY DEF SetUp, LoadSkeleton, TakePid, Spawn, ReadPid, StoreIdentifier, Attach,
         CreateStack, CreateSyscall, MainEnds
<1>2. (\A c \in Cleanups : ~Begun(c)) /\ object # "freed"
  BY <1>1, MainIsAlone
<1>3. UNCHANGED <<cleanup, jammed, calm, sigints, misuse, args>> /\ object' # "freed"
  BY <1>2 DEF SetUp, LoadSkeleton, TakePid, Spawn, ReadPid, StoreIdentifier, Attach,
         CreateStack, CreateSyscall, MainEnds
<1>4. CleanupStopsMain' /\ HandlersCounted' /\ FreedByCleanup' /\ CalmMeansSetUp'
  BY <1>1, <1>2, <1>3 DEF CleanupStopsMain, HandlersCounted, FreedByCleanup,
                          CalmMeansSetUp, Begun, One
<1>5. CalmStopIsClean'
  BY <1>3 DEF CalmStopIsClean, Interrupts
<1>6. CASE SetUp
  <2>1. TypeOK'
    BY <1>6 DEF SetUp, TypeOK, Threads
  <2>2. PipeTells' /\ TracesTheChild'
    BY <1>6 DEF SetUp, PipeTells, TracesTheChild, TypeOK
  <2>3. AttachComesFirst'
    BY <1>6 DEF SetUp, AttachComesFirst, TypeOK, Threads
  <2> QED BY <1>4, <1>5, <2>1, <2>2, <2>3
<1>7. CASE LoadSkeleton
  <2>1. TypeOK'
    BY <1>7 DEF LoadSkeleton, TypeOK, Threads
  <2>2. PipeTells' /\ TracesTheChild'
    BY <1>7 DEF LoadSkeleton, PipeTells, TracesTheChild, TypeOK
  <2>3. AttachComesFirst'
    BY <1>7 DEF LoadSkeleton, AttachComesFirst, TypeOK, Threads
  <2> QED BY <1>4, <1>5, <2>1, <2>2, <2>3
<1>8. CASE TakePid
  <2>1. TypeOK'
    BY <1>8 DEF TakePid, TypeOK, Threads
  <2>2. PipeTells' /\ TracesTheChild'
    BY <1>8 DEF TakePid, PipeTells, TracesTheChild, TypeOK
  <2>3. AttachComesFirst'
    BY <1>8 DEF TakePid, AttachComesFirst, TypeOK, Threads
  <2> QED BY <1>4, <1>5, <2>1, <2>2, <2>3
<1>9. CASE Spawn
  <2>1. ArgCount(args.program) \in Nat
    BY <1>9, ArgCountType DEF Spawn, TypeOK, Args
  <2>2. TypeOK'
    BY <1>9, <2>1 DEF Spawn, TypeOK
  <2>3. PipeTells' /\ TracesTheChild' /\ AttachComesFirst'
    BY <1>9 DEF Spawn, PipeTells, TracesTheChild, AttachComesFirst, TypeOK
  <2> QED BY <1>4, <1>5, <2>2, <2>3
<1>10. CASE ReadPid
  <2>1. TypeOK'
    BY <1>10 DEF ReadPid, TypeOK, Threads
  <2>2. PipeTells' /\ TracesTheChild'
    BY <1>10 DEF ReadPid, PipeTells, TracesTheChild, TypeOK
  <2>3. AttachComesFirst'
    BY <1>10 DEF ReadPid, AttachComesFirst, TypeOK, Threads
  <2> QED BY <1>4, <1>5, <2>1, <2>2, <2>3
<1>11. CASE StoreIdentifier
  <2>1. TypeOK'
    BY <1>11 DEF StoreIdentifier, TypeOK, Threads
  <2>2. PipeTells' /\ TracesTheChild'
    BY <1>11 DEF StoreIdentifier, PipeTells, TracesTheChild, TypeOK
  <2>3. AttachComesFirst'
    BY <1>11 DEF StoreIdentifier, AttachComesFirst, TypeOK, Threads
  <2> QED BY <1>4, <1>5, <2>1, <2>2, <2>3
<1>12. CASE Attach
  <2>1. TypeOK'
    BY <1>12 DEF Attach, TypeOK, Threads
  <2>2. PipeTells' /\ TracesTheChild'
    BY <1>12 DEF Attach, PipeTells, TracesTheChild, TypeOK
  <2>3. AttachComesFirst'
    BY <1>12 DEF Attach, AttachComesFirst, TypeOK, Threads
  <2> QED BY <1>4, <1>5, <2>1, <2>2, <2>3
<1>13. CASE CreateStack
  <2>1. TypeOK'
    BY <1>13 DEF CreateStack, TypeOK, Threads
  <2>2. PipeTells' /\ TracesTheChild'
    BY <1>13 DEF CreateStack, PipeTells, TracesTheChild, TypeOK
  <2>3. AttachComesFirst'
    BY <1>13 DEF CreateStack, AttachComesFirst, TypeOK, Threads
  <2> QED BY <1>4, <1>5, <2>1, <2>2, <2>3
<1>14. CASE CreateSyscall
  <2>1. TypeOK'
    BY <1>14 DEF CreateSyscall, TypeOK, Threads
  <2>2. PipeTells' /\ TracesTheChild'
    BY <1>14 DEF CreateSyscall, PipeTells, TracesTheChild, TypeOK
  <2>3. AttachComesFirst'
    BY <1>14 DEF CreateSyscall, AttachComesFirst, TypeOK, Threads
  <2> QED BY <1>4, <1>5, <2>1, <2>2, <2>3
<1>15. CASE MainEnds
  <2>1. link' \in {"none", "attached", "detached"} /\ (link' = "none" <=> link = "none")
    BY <1>15 DEF MainEnds, EndProcess, Detached, TypeOK
  <2>2. running' \in BOOLEAN
    BY <1>15 DEF MainEnds, EndProcess
  <2>3. UNCHANGED <<args, main, skel, object, tracers, cleanup, jammed, target, pipe,
                    pid, argc, sigints, misuse, calm>>
    BY <1>15 DEF MainEnds
  <2>4. TypeOK'
    BY <2>1, <2>2, <2>3 DEF TypeOK
  <2>5. PipeTells' /\ TracesTheChild'
    BY <2>3 DEF PipeTells, TracesTheChild
  <2>6. AttachComesFirst'
    BY <2>1, <2>3 DEF AttachComesFirst
  <2> QED BY <1>4, <1>5, <2>4, <2>5, <2>6
<1> QED BY <1>6, <1>7, <1>8, <1>9, <1>10, <1>11, <1>12, <1>13, <1>14, <1>15

\* A step of main fails: its own cleanup begins, the first.
LEMMA IInvMainFails ==
  ASSUME IInv, MainFails
  PROVE  IInv'
<1> USE DEF IInv, MainFails, MainAt, MayFail, Begin, skelVars, targetVars
<1>1. main # "cleanup"
  OBVIOUS
<1>2. (\A c \in Cleanups : ~Begun(c)) /\ object # "freed"
  BY <1>1, MainIsAlone
<1>3. TypeOK'
  BY DEF TypeOK, Cleanups
<1>4. CleanupStopsMain' /\ HandlersCounted' /\ FreedByCleanup'
  BY <1>2 DEF CleanupStopsMain, HandlersCounted, FreedByCleanup, Begun, One,
              Cleanups, Handlers, TypeOK
<1>5. CalmMeansSetUp'
  BY DEF CalmMeansSetUp, SettingUp
<1>6. CalmStopIsClean'
  <2>1. "double" \notin misuse
    BY <1>2 DEF CalmStopIsClean, Interrupts, HandlersCounted, Begun, One, Cleanups,
                Handlers, TypeOK
  <2> QED BY <2>1 DEF CalmStopIsClean
<1>7. PipeTells' /\ TracesTheChild' /\ AttachComesFirst'
  BY DEF PipeTells, TracesTheChild, AttachComesFirst, TypeOK
<1> QED BY <1>3, <1>4, <1>5, <1>6, <1>7

\* The tracer threads: they begin to set up nowhere here, and one that still uses
\* the skeleton after a cleanup began was setting up when it did.
LEMMA IInvTracer ==
  ASSUME IInv, Tracer
  PROVE  IInv'
<1> USE DEF IInv, ThreadAt, mainVars, skelVars, cleanupVars, targetVars
<1>1. /\ UNCHANGED <<mainVars, skel, object, cleanupVars, targetVars>>
      /\ link' \in {link, Detached}
      /\ running' \in BOOLEAN
  BY DEF Tracer, StackUses, StackGivesUp, SyscallUses, SyscallExits, PollFails,
         EndProcess, TypeOK
<1>2. /\ tracers' \in [Threads -> {"none", "setup", "buffers", "poll", "ended"}]
      /\ \A t \in Threads : /\ (tracers[t] = "none") <=> (tracers'[t] = "none")
                            /\ ~SettingUp(t) => ~SettingUp(t)'
  BY DEF Tracer, StackUses, StackGivesUp, SyscallUses, SyscallExits, PollFails,
         SettingUp, TypeOK, Threads
<1>3. misuse' = misuse \/ /\ misuse' = misuse \cup {"use"}
                          /\ object = "freed"
                          /\ \E t \in Threads : SettingUp(t)
  BY DEF Tracer, StackUses, StackGivesUp, SyscallUses, SyscallExits, PollFails,
         UseSkeleton, SettingUp, Threads
<1>4. TypeOK'
  <2>1. link' \in {"none", "attached", "detached"}
    BY <1>1 DEF TypeOK, Detached
  <2>2. misuse' \in SUBSET {"use", "double"}
    BY <1>3 DEF TypeOK
  <2> QED BY <1>1, <1>2, <2>1, <2>2 DEF TypeOK
<1>5. CleanupStopsMain' /\ HandlersCounted' /\ FreedByCleanup'
  BY <1>1 DEF CleanupStopsMain, HandlersCounted, FreedByCleanup, Begun, One
<1>6. CalmMeansSetUp'
  BY <1>1, <1>2 DEF CalmMeansSetUp, Begun
<1>7. CalmStopIsClean'
  <2>1. misuse' # misuse => ~calm
    BY <1>3 DEF CalmMeansSetUp, FreedByCleanup, Begun
  <2> QED BY <1>1, <1>3, <2>1 DEF CalmStopIsClean, Interrupts
<1>8. PipeTells' /\ TracesTheChild'
  BY <1>1 DEF PipeTells, TracesTheChild
<1>9. AttachComesFirst'
  <2>1. link' = "none" <=> link = "none"
    BY <1>1 DEF Detached
  <2>2. (link = "none" \/ link # "none") /\ (link' = "none" => link' = link)
    BY <2>1
  <2> QED BY <1>1, <1>2, <2>1, <2>2 DEF AttachComesFirst, Threads
<1> QED BY <1>4, <1>5, <1>6, <1>7, <1>8, <1>9

\* SIGINT begins a cleanup in a thread that had none.
LEMMA IInvSigint ==
  ASSUME IInv, NEW t \in Handlers, Sigint(t)
  PROVE  IInv'
<1> USE DEF IInv, Sigint, Begin, mainVars, skelVars, targetVars
<1>1. TypeOK'
  <2>1. sigints' \in 0..MaxSigints
    BY LifeAssumption DEF TypeOK
  <2>2. jammed' \in SUBSET Handlers
    BY DEF TypeOK
  <2>3. cleanup' \in [Cleanups -> {"off", "test", "destroy", "clear", "sleep", "stuck"}]
    BY DEF TypeOK
  <2> QED BY <2>1, <2>2, <2>3 DEF TypeOK
<1>2. CleanupStopsMain'
  BY DEF CleanupStopsMain, Begun, Cleanups, Handlers, TypeOK
<1>3. HandlersCounted'
  BY DEF HandlersCounted, One, Begun, Cleanups, Handlers, TypeOK
<1>4. FreedByCleanup'
  BY DEF FreedByCleanup, Cleanups, Handlers, TypeOK
<1>5. CalmMeansSetUp'
  BY DEF CalmMeansSetUp, SettingUp
<1>6. CalmStopIsClean'
  BY DEF CalmStopIsClean, Interrupts, Cleanups, Handlers, TypeOK
<1>7. PipeTells' /\ TracesTheChild' /\ AttachComesFirst'
  BY DEF PipeTells, TracesTheChild, AttachComesFirst
<1> QED BY <1>1, <1>2, <1>3, <1>4, <1>5, <1>6, <1>7

\* A second free takes a second cleanup, the one that freed first.
LEMMA TwoCleanups ==
  ASSUME IInv, NEW c \in Cleanups, cleanup[c] = "destroy", object = "freed"
  PROVE  Interrupts > 1
<1>1. PICK d \in Cleanups : d # c /\ Begun(d)
  BY DEF IInv, FreedByCleanup, Begun
<1> QED BY <1>1 DEF IInv, HandlersCounted, One, Interrupts, Begun, Cleanups, Handlers

\* The steps of cleanup.
LEMMA IInvCleanup ==
  ASSUME IInv, NEW c \in Cleanups, Cleanup(c)
  PROVE  IInv'
<1> USE DEF IInv, CleanupAt, mainVars, skelVars, targetVars, cleanupVars
<1>1. /\ UNCHANGED <<mainVars, targetVars, tracers, jammed, calm, sigints>>
      /\ link' \in {link, Detached}
      /\ skel' \in BOOLEAN /\ running' \in BOOLEAN
  BY DEF Cleanup, Test, Destroy, Clear, Exit, Stick, EndProcess, TypeOK
<1>2. /\ cleanup[c] # "off"
      /\ \/ cleanup' = cleanup
         \/ \E p \in {"destroy", "clear", "sleep", "stuck"} :
              cleanup' = [cleanup EXCEPT ![c] = p]
  BY DEF Cleanup, Test, Destroy, Clear, Exit, Stick
<1>3. \A d \in Cleanups : Begun(d)' <=> Begun(d)
  BY <1>2 DEF Begun, TypeOK
<1>4. /\ object' \in {"none", "live", "freed"}
      /\ misuse' = misuse \/ (misuse' = misuse \cup {"double"} /\ Interrupts > 1)
  BY TwoCleanups DEF Cleanup, Test, Destroy, Clear, Exit, Stick, TypeOK
<1>5. TypeOK'
  <2>1. link' \in {"none", "attached", "detached"}
    BY <1>1 DEF TypeOK, Detached
  <2>2. misuse' \in SUBSET {"use", "double"}
    BY <1>4 DEF TypeOK
  <2>3. cleanup' \in [Cleanups -> {"off", "test", "destroy", "clear", "sleep", "stuck"}]
    BY <1>2 DEF TypeOK
  <2> QED BY <1>1, <1>4, <2>1, <2>2, <2>3 DEF TypeOK
<1>6. CleanupStopsMain' /\ HandlersCounted' /\ CalmMeansSetUp'
  BY <1>1, <1>3 DEF CleanupStopsMain, HandlersCounted, CalmMeansSetUp, One,
                    SettingUp, Cleanups, Handlers
<1>7. FreedByCleanup'
  BY DEF FreedByCleanup, Cleanup, Test, Destroy, Clear, Exit, Stick, TypeOK
<1>8. CalmStopIsClean'
  <2>1. Interrupts' = Interrupts
    BY <1>1, <1>3 DEF Interrupts, Begun, Cleanups
  <2> QED BY <1>1, <1>4, <2>1 DEF CalmStopIsClean
<1>9. PipeTells' /\ TracesTheChild'
  BY <1>1 DEF PipeTells, TracesTheChild
<1>10. AttachComesFirst'
  <2>1. link' = "none" <=> link = "none"
    BY <1>1 DEF Detached
  <2> QED BY <1>1, <2>1 DEF AttachComesFirst
<1> QED BY <1>5, <1>6, <1>7, <1>8, <1>9, <1>10

\* The child, or the process that -P names.
LEMMA IInvTarget ==
  ASSUME IInv, Target
  PROVE  IInv'
<1> USE DEF IInv, otherVars, mainVars, skelVars, cleanupVars
<1>1. UNCHANGED <<mainVars, skelVars, cleanupVars, tracers, running>>
  BY DEF Target, ChildWrites, ChildExecs, TargetDies, TargetReaped, PidReused
<1>2. TypeOK'
  BY DEF Target, ChildWrites, ChildExecs, TargetDies, TargetReaped, PidReused, TypeOK
<1>3. CleanupStopsMain' /\ HandlersCounted' /\ FreedByCleanup' /\ CalmMeansSetUp'
  BY <1>1 DEF CleanupStopsMain, HandlersCounted, FreedByCleanup, CalmMeansSetUp,
              Begun, One, SettingUp
<1>4. CalmStopIsClean' /\ AttachComesFirst'
  BY <1>1 DEF CalmStopIsClean, Interrupts, AttachComesFirst
<1>5. PipeTells'
  BY DEF PipeTells, Target, ChildWrites, ChildExecs, TargetDies, TargetReaped,
         PidReused, TypeOK
<1>6. TracesTheChild'
  BY DEF PipeTells, TracesTheChild, Target, ChildWrites, ChildExecs, TargetDies,
         TargetReaped, PidReused, TypeOK
<1> QED BY <1>2, <1>3, <1>4, <1>5, <1>6

\* Killed, or nothing at all.
LEMMA IInvKilled ==
  ASSUME IInv, Killed \/ UNCHANGED vars
  PROVE  IInv'
<1> USE DEF IInv, Killed, EndProcess, vars, mainVars, cleanupVars, targetVars
<1>1. /\ UNCHANGED <<mainVars, skel, object, misuse, cleanupVars, targetVars, tracers>>
      /\ link' \in {link, Detached} /\ running' \in BOOLEAN
  BY DEF TypeOK
<1>2. TypeOK'
  BY <1>1 DEF TypeOK, Detached
<1>3. CleanupStopsMain' /\ HandlersCounted' /\ FreedByCleanup' /\ CalmMeansSetUp'
  BY <1>1 DEF CleanupStopsMain, HandlersCounted, FreedByCleanup, CalmMeansSetUp,
              Begun, One, SettingUp
<1>4. CalmStopIsClean' /\ PipeTells' /\ TracesTheChild'
  BY <1>1 DEF CalmStopIsClean, Interrupts, PipeTells, TracesTheChild
<1>5. AttachComesFirst'
  <2>1. link' = "none" <=> link = "none"
    BY <1>1 DEF Detached
  <2> QED BY <1>1, <2>1 DEF AttachComesFirst
<1> QED BY <1>2, <1>3, <1>4, <1>5

\* The invariant holds, whatever fails and wherever SIGINT arrives.
THEOREM LifeInvariance == Spec => []IInv
<1>1. IInv /\ [Next]_vars => IInv'
  BY IInvMain, IInvMainFails, IInvTracer, IInvSigint, IInvCleanup, IInvTarget,
     IInvKilled DEF Next, Main
<1> QED BY IInvInit, <1>1, PTL DEF Spec

\* A SIGINT leaves its handler's call of cleanup behind for good, so three is the most
\* the process can take and a bound of three cuts no behaviour off: as long as there
\* is a thread to take a signal, the guard of Sigint on MaxSigints = 3 holds.
THEOREM SigintsBounded ==
  Spec => [](sigints <= 3 /\ \A t \in Handlers : cleanup[t] = "off" => sigints < 3)
<1>1. IInv => sigints <= 3 /\ \A t \in Handlers : cleanup[t] = "off" => sigints < 3
  BY DEF IInv, HandlersCounted, One, Begun, Handlers
<1> QED BY <1>1, LifeInvariance, PTL

\* Every variable keeps its type.
THEOREM LifeTypeCorrect == Spec => []TypeOK
<1>1. IInv => TypeOK
  BY DEF IInv
<1> QED BY <1>1, LifeInvariance, PTL

\* One SIGINT that finds the threads polling frees the skeleton once, and nothing
\* uses it afterwards.
THEOREM StopIsClean == Spec => []CalmStopIsClean
<1>1. IInv => CalmStopIsClean
  BY DEF IInv
<1> QED BY <1>1, LifeInvariance, PTL

\* The pid of a spawned program is the child's for as long as ePtracer runs.
THEOREM TracesChild == Spec => []TracesTheChild
<1>1. IInv => TracesTheChild
  BY DEF IInv
<1> QED BY <1>1, LifeInvariance, PTL

\* With the limits of the source, 100 characters and 100 arguments, the array of
\* arguments never overflows.
THEOREM ArgvInBounds ==
  ASSUME MaxStr + 1 < 2 * MaxArgs
  PROVE  Spec => []ArgvFits
<1>1. Init => ArgvFits
  BY LifeAssumption DEF Init, ArgvFits
<1>2. IInv /\ ArgvFits /\ [Next]_vars => ArgvFits'
  <2> SUFFICES ASSUME IInv, ArgvFits, [Next]_vars PROVE ArgvFits'
    OBVIOUS
  <2>1. CASE Spawn
    <3>1. args.program \in Programs /\ Len(args.program) <= MaxStr
      BY <2>1 DEF Spawn, IInv, TypeOK, Args
    <3>2. /\ ArgCount(args.program) \in Nat /\ Words(args.program) \in Nat
          /\ ArgCount(args.program) <= Words(args.program)
          /\ 2 * Words(args.program) <= Len(args.program) + 1
      BY <3>1, ArgCountType, WordsAreFew
    <3>3. Len(args.program) \in Nat
      BY <3>1, LifeAssumption
    <3> QED BY <2>1, <3>1, <3>2, <3>3, LifeAssumption DEF Spawn, ArgvFits
  <2>2. argc' = argc \/ Spawn
    BY DEF Next, Main, SetUp, LoadSkeleton, TakePid, ReadPid, StoreIdentifier, Attach,
           CreateStack, CreateSyscall, MainFails, MainEnds, Tracer, StackUses,
           StackGivesUp, SyscallUses, SyscallExits, PollFails, Sigint, Cleanup, Test,
           Destroy, Clear, Exit, Stick, Killed, Target, ChildWrites, ChildExecs,
           TargetDies, TargetReaped, PidReused, otherVars, mainVars, vars
  <2> QED BY <2>1, <2>2 DEF ArgvFits
<1> QED BY <1>1, <1>2, LifeInvariance, PTL DEF Spec

-----------------------------------------------------------------------------
(***************************************************************************)
(* What the syscall pipeline may rely on.                                  *)
(***************************************************************************)

\* The end of the process, in the terms of TracerLife.
LEMMA EndIsExit ==
  ASSUME running, EndProcess
  PROVE  Life!Exit
BY DEF EndProcess, Detached, Life!Exit

\* A step that neither ends the process nor touches link and thread is invisible.
LEMMA UnseenStep ==
  ASSUME UNCHANGED <<link, running>>, tracers'["syscall"] = tracers["syscall"]
  PROVE  UNCHANGED Life!vars
BY DEF Life!vars

\* ePtracer attaches once, before anybody reads, and its end takes both away.
THEOREM LifeRefinement == Spec => LifeSpec
<1>1. Init => Life!Init
  BY DEF Init, Life!Init, Threads
<1>2. IInv /\ [Next]_vars => [Life!Next]_(Life!vars)
  <2> SUFFICES ASSUME IInv, [Next]_vars PROVE [Life!Next]_(Life!vars)
    OBVIOUS
  <2> USE DEF Life!Next
  <2>1. CASE MainEnds \/ SyscallExits \/ Killed \/ \E c \in Cleanups : Exit(c)
    <3>1. running /\ EndProcess
      BY <2>1 DEF MainEnds, MainAt, SyscallExits, ThreadAt, Killed, Exit, CleanupAt
    <3> QED BY <3>1, EndIsExit
  <2>2. CASE Attach
    <3>1. running /\ link = "none" /\ link' = "attached" /\ UNCHANGED <<tracers, running>>
      BY <2>2 DEF Attach, MainAt, IInv, AttachComesFirst
    <3> QED BY <3>1 DEF Life!Attach
  <2>3. CASE SyscallUses
    <3>1. /\ running /\ UNCHANGED <<link, running>> /\ link # "none"
          /\ tracers["syscall"] = "setup" /\ tracers'["syscall"] = "poll"
      BY <2>3 DEF SyscallUses, ThreadAt, IInv, AttachComesFirst, TypeOK, Threads
    <3> QED BY <3>1 DEF Life!Read
  <2>4. ASSUME NEW t \in Threads, PollFails(t) PROVE [Life!Next]_(Life!vars)
    <3>1. /\ running /\ UNCHANGED <<link, running>>
          /\ tracers[t] = "poll" /\ tracers' = [tracers EXCEPT ![t] = "ended"]
      BY <2>4 DEF PollFails, ThreadAt, skelVars
    <3>2. CASE t = "syscall"
      BY <3>1, <3>2 DEF Life!Stop, IInv, TypeOK
    <3>3. CASE t # "syscall"
      BY <3>1, <3>3, UnseenStep DEF IInv, TypeOK, Threads
    <3> QED BY <3>2, <3>3
  <2>5. ASSUME NEW c \in Cleanups, Destroy(c) PROVE [Life!Next]_(Life!vars)
    <3>1. running /\ UNCHANGED <<tracers, running>> /\ link' = Detached
      BY <2>5 DEF Destroy, CleanupAt
    <3>2. CASE link = "attached"
      BY <3>1, <3>2 DEF Detached, Life!Detach
    <3>3. CASE link # "attached"
      BY <3>1, <3>3, UnseenStep DEF Detached
    <3> QED BY <3>2, <3>3
  <2>6. CASE CreateSyscall
    <3>1. /\ UNCHANGED <<link, running>> /\ tracers["syscall"] = "none"
          /\ tracers'["syscall"] \in {"none", "setup"}
      BY <2>6 DEF CreateSyscall, MainAt, skelVars, IInv, AttachComesFirst, TypeOK, Threads
    <3> QED BY <3>1 DEF Life!vars
  <2>7. CASE CreateStack \/ StackUses \/ StackGivesUp
    <3>1. UNCHANGED <<link, running>> /\ tracers'["syscall"] = tracers["syscall"]
      BY <2>7 DEF CreateStack, StackUses, StackGivesUp, skelVars, IInv, TypeOK, Threads
    <3> QED BY <3>1, UnseenStep
  <2>8. CASE UNCHANGED <<link, running, tracers>>
    BY <2>8, UnseenStep
  <2>9. \/ UNCHANGED <<link, running, tracers>>
        \/ MainEnds \/ SyscallExits \/ Killed \/ (\E c \in Cleanups : Exit(c) \/ Destroy(c))
        \/ Attach \/ SyscallUses \/ (\E t \in Threads : PollFails(t))
        \/ CreateSyscall \/ CreateStack \/ StackUses \/ StackGivesUp
    BY DEF Next, Main, SetUp, LoadSkeleton, TakePid, Spawn, ReadPid, StoreIdentifier,
           MainFails, Tracer, Sigint, Cleanup, Test, Clear, Stick, Target, ChildWrites,
           ChildExecs, TargetDies, TargetReaped, PidReused, otherVars, skelVars, vars
  <2> QED BY <2>1, <2>2, <2>3, <2>4, <2>5, <2>6, <2>7, <2>8, <2>9
<1> QED BY <1>1, <1>2, LifeInvariance, PTL DEF Spec, LifeSpec, Life!Spec

-----------------------------------------------------------------------------
(***************************************************************************)
(* What a life cycle begins it ends: cleanup, and main's read from the     *)
(* pipe.  The provers take ENABLED as it stands, so fairness is stated by  *)
(* the guards it is about: RunsOn.                                         *)
(***************************************************************************)

\* Everything that liveness rests on holds at first.
LEMMA LInvInit == Init => LInv
BY IInvInit DEF LInv, Init, StuckMeansJammed, ReadIsAlone, Begun, Cleanups, Handlers,
                Threads

\* No call of cleanup is over before the process is, and none begins but by a SIGINT
\* or a failure of main; only a call that waits for the allocator gets stuck.
LEMMA StuckStep ==
  ASSUME LInv, [Next]_vars
  PROVE  StuckMeansJammed'
<1> USE DEF LInv, IInv, TypeOK, StuckMeansJammed, Begun
<1>1. CASE UNCHANGED <<cleanup, jammed>>
  BY <1>1
<1>2. CASE \E t \in Handlers : Sigint(t)
  BY <1>2 DEF Sigint, Begin, Handlers, Cleanups
<1>3. CASE \E c \in Cleanups : Cleanup(c)
  <2> PICK c \in Cleanups : Cleanup(c)
    BY <1>3
  <2>1. jammed' = jammed /\ \A d \in Cleanups : Begun(d) => Begun(d)'
    BY DEF Cleanup, Test, Destroy, Clear, Exit, Stick, cleanupVars
  <2>2. jammed = {} => \A d \in Cleanups : cleanup[d]' # "stuck"
    BY DEF Cleanup, Test, Destroy, Clear, Exit, Stick, cleanupVars
  <2> QED BY <2>1, <2>2 DEF Cleanups
<1>4. CASE MainFails
  BY <1>4 DEF MainFails, Begin, Cleanups, Handlers
<1>5. CASE Main /\ ~MainFails
  BY <1>1, <1>5 DEF Main, SetUp, LoadSkeleton, TakePid, Spawn, ReadPid,
     StoreIdentifier, Attach, CreateStack, CreateSyscall, MainEnds, cleanupVars
<1>6. CASE Tracer \/ Target \/ Killed \/ UNCHANGED vars
  BY <1>1, <1>6 DEF Tracer, StackUses, StackGivesUp, SyscallUses, SyscallExits,
     PollFails, Target, ChildWrites, ChildExecs, TargetDies, TargetReaped, PidReused,
     Killed, otherVars, cleanupVars, vars
<1> QED BY <1>2, <1>3, <1>4, <1>5, <1>6 DEF Next

\* While main waits in read there is no thread to run a handler, and main's own
\* handler finds the allocator whole.
LEMMA ReadStep ==
  ASSUME LInv, [Next]_vars
  PROVE  ReadIsAlone'
<1> USE DEF LInv, IInv, TypeOK, ReadIsAlone, Begun
<1>1. CASE UNCHANGED <<cleanup, jammed, args, main, tracers, target, pipe>>
  BY <1>1
<1>2. CASE \E t \in Handlers : Sigint(t)
  <2> PICK t \in Handlers : Sigint(t)
    BY <1>2
  <2>1. UNCHANGED <<args, main, tracers, target, pipe>>
    BY DEF Sigint, mainVars, targetVars
  <2>2. \A u \in Threads : Begun(u)' => tracers[u] # "none"
    BY DEF Sigint, Begin, Threads
  <2>3. main = "read" => jammed' = {}
    BY DEF Sigint, AttachComesFirst, Handlers, Threads, Waiting
  <2> QED BY <2>1, <2>2, <2>3
<1>3. CASE (\E c \in Cleanups : Cleanup(c)) \/ MainFails
  <2>1. UNCHANGED <<args, jammed, tracers, target, pipe>> /\ main' \in {main, "cleanup"}
    BY <1>3 DEF Cleanup, Test, Destroy, Clear, Exit, Stick, MainFails, mainVars,
                targetVars, cleanupVars
  <2>2. CASE \E c \in Cleanups : Cleanup(c)
    BY <2>1, <2>2 DEF Cleanup, Test, Destroy, Clear, Exit, Stick, CleanupAt, cleanupVars,
                      Cleanups, Handlers, Threads
  <2>3. CASE MainFails
    BY <2>1, <2>3 DEF MainFails, Begin, Threads
  <2> QED BY <1>3, <2>2, <2>3
<1>4. CASE Spawn
  <2>1. \A c \in Cleanups : ~Begun(c)
    BY <1>4, MainIsAlone DEF Spawn, MainAt
  <2>2. jammed = {}
    BY <2>1 DEF StuckMeansJammed, Cleanups
  <2> QED BY <1>4, <2>1, <2>2 DEF Spawn, MainAt, cleanupVars, PipeTells, Threads,
                                  Handlers, Cleanups
<1>5. CASE Main /\ ~Spawn /\ ~MainFails
  <2>1. main' # "read" \/ UNCHANGED <<main, args, target, pipe, jammed>>
    BY <1>5 DEF Main, SetUp, LoadSkeleton, TakePid, ReadPid, StoreIdentifier, Attach,
                CreateStack, CreateSyscall, MainEnds, mainVars, targetVars, cleanupVars
  <2>2. cleanup' = cleanup /\ \A u \in Threads : tracers[u] # "none" => tracers[u]' # "none"
    BY <1>5 DEF Main, SetUp, LoadSkeleton, TakePid, ReadPid, StoreIdentifier, Attach,
                CreateStack, CreateSyscall, MainEnds, cleanupVars, Threads
  <2> QED BY <2>1, <2>2
<1>6. CASE Tracer
  <2>1. UNCHANGED <<args, main, cleanup, jammed, target, pipe>>
    BY <1>6 DEF Tracer, StackUses, StackGivesUp, SyscallUses, SyscallExits, PollFails,
                mainVars, targetVars, cleanupVars
  <2>2. \A u \in Threads : tracers[u] # "none" => tracers[u]' # "none"
    BY <1>6 DEF Tracer, StackUses, StackGivesUp, SyscallUses, SyscallExits, PollFails,
                Threads
  <2> QED BY <2>1, <2>2
<1>7. CASE Target
  <2>1. UNCHANGED <<args, main, cleanup, jammed, tracers>>
    BY <1>7 DEF Target, ChildWrites, ChildExecs, TargetDies, TargetReaped, PidReused,
                otherVars, mainVars, cleanupVars
  <2>2. pipe.writers \subseteq {"child"} =>
          /\ pipe'.writers \subseteq {"child"}
          /\ target' = "zombie" => pipe'.writers = {}
    BY <1>7 DEF Target, ChildWrites, ChildExecs, TargetDies, TargetReaped, PidReused
  <2> QED BY <2>1, <2>2
<1>8. CASE Killed \/ UNCHANGED vars
  BY <1>1, <1>8 DEF Killed, mainVars, targetVars, cleanupVars, vars
<1> QED BY <1>2, <1>3, <1>4, <1>5, <1>6, <1>7, <1>8 DEF Next

LEMMA LifeLiveInvariance == Spec => []LInv
<1>1. LInv /\ [Next]_vars /\ IInv' => LInv'
  BY StuckStep, ReadStep DEF LInv
<1> QED BY LInvInit, <1>1, LifeInvariance, PTL DEF Spec

-----------------------------------------------------------------------------
(***************************************************************************)
(* A call of cleanup.                                                      *)
(***************************************************************************)

\* The steps that are left to a call, of which each takes one away.
Left(n) == CASE n = 4 -> {"test", "destroy", "clear", "sleep"}
             [] n = 3 -> {"destroy", "clear", "sleep"}
             [] n = 2 -> {"clear", "sleep"}
             [] n = 1 -> {"sleep"}
             [] n = 0 -> {}

\* Call c is at work, with at most n steps to go.
AtWork(c, n) ==
  /\ running
  /\ jammed = {}
  /\ cleanup[c] \in Left(n)
  /\ c = "direct" => cleanup["main"] = "off"

\* It has ended the process, or lost its thread to the handler of main, or a handler
\* jammed the allocator.
Settled(c) == ~running \/ jammed # {} \/ (c = "direct" /\ Begun("main"))

\* A step of a call with the allocator whole: the call goes on, or exits.
LEMMA CallStep ==
  ASSUME LInv, NEW c \in Cleanups, jammed = {}, Cleanup(c)
  PROVE  /\ jammed' = {}
         /\ \/ ~running'
            \/ /\ running' = running
               /\ \A d \in Cleanups \ {c} : cleanup'[d] = cleanup[d]
               /\ \/ cleanup[c] = "test" /\ cleanup'[c] \in {"destroy", "sleep"}
                  \/ cleanup[c] = "destroy" /\ cleanup'[c] = "clear"
                  \/ cleanup[c] = "clear" /\ cleanup'[c] = "sleep"
<1> USE DEF LInv, IInv, TypeOK, CleanupAt, cleanupVars
<1>1. CASE Test(c)
  BY <1>1 DEF Test
<1>2. CASE Destroy(c)
  BY <1>2 DEF Destroy
<1>3. CASE Clear(c)
  BY <1>3 DEF Clear
<1>4. CASE Exit(c)
  BY <1>4 DEF Exit, EndProcess
<1>5. ~Stick(c)
  BY DEF Stick, StuckMeansJammed
<1> QED BY <1>1, <1>2, <1>3, <1>4, <1>5 DEF Cleanup

\* The steps of cleanup in their order: each leaves fewer.
LEMMA LeftShrinks ==
  /\ \A n \in 0..4 : /\ "off" \notin Left(n)
                     /\ "test" \in Left(n) => {"destroy", "sleep"} \subseteq Left(n)
                     /\ "destroy" \in Left(n) => "clear" \in Left(n)
                     /\ "clear" \in Left(n) => "sleep" \in Left(n)
  /\ \A n \in 0..3 : /\ "test" \in Left(n + 1) => {"destroy", "sleep"} \subseteq Left(n)
                     /\ "destroy" \in Left(n + 1) => "clear" \in Left(n)
                     /\ "clear" \in Left(n + 1) => "sleep" \in Left(n)
BY DEF Left

\* Whatever happens, a call at work comes no farther from its end.
LEMMA CallKept ==
  ASSUME LInv, [Next]_vars, NEW c \in Cleanups, NEW n \in 0..4, AtWork(c, n)
  PROVE  AtWork(c, n)' \/ Settled(c)'
<1> USE DEF LInv, IInv, TypeOK, AtWork, Settled
<1>1. CASE UNCHANGED <<cleanup, jammed>>
  BY <1>1
<1>2. CASE \E t \in Handlers : Sigint(t)
  BY <1>2, LeftShrinks DEF Sigint, Begin, Begun, Handlers, Cleanups
<1>3. CASE \E d \in Cleanups : Cleanup(d)
  <2> PICK d \in Cleanups : Cleanup(d)
    BY <1>3
  <2>1. CASE d = c
    <3>1. running' => /\ jammed' = {}
                      /\ cleanup'[c] \in Left(n)
                      /\ c = "direct" => cleanup'["main"] = "off"
      BY <2>1, CallStep, LeftShrinks DEF Cleanups, Handlers
    <3> QED BY <3>1
  <2>2. CASE d # c
    <3>1. running' => jammed' = {} /\ cleanup'[c] = cleanup[c]
      BY <2>2, CallStep
    <3>2. c = "direct" /\ ~Begun("main")' => cleanup'["main"] = "off"
      BY DEF Begun
    <3> QED BY <3>1, <3>2
  <2> QED BY <2>1, <2>2
<1>4. CASE MainFails
  <2>1. UNCHANGED <<running, jammed>> /\ cleanup' = [cleanup EXCEPT !["direct"] = "test"]
    BY <1>4 DEF MainFails, Begin
  <2>2. c # "direct"
    <3>1. main # "cleanup"
      BY <1>4 DEF MainFails, MayFail
    <3> QED BY <3>1, LeftShrinks DEF CleanupStopsMain, Begun
  <2> QED BY <2>1, <2>2
<1>5. CASE Main /\ ~MainFails
  BY <1>1, <1>5 DEF Main, SetUp, LoadSkeleton, TakePid, Spawn, ReadPid,
     StoreIdentifier, Attach, CreateStack, CreateSyscall, MainEnds, cleanupVars
<1>6. CASE Tracer \/ Target \/ Killed \/ UNCHANGED vars
  BY <1>1, <1>6 DEF Tracer, StackUses, StackGivesUp, SyscallUses, SyscallExits,
     PollFails, Target, ChildWrites, ChildExecs, TargetDies, TargetReaped, PidReused,
     Killed, otherVars, cleanupVars, vars
<1> QED BY <1>2, <1>3, <1>4, <1>5, <1>6 DEF Next

\* A step of its own brings it nearer.
LEMMA CallMoves ==
  ASSUME LInv, NEW c \in Cleanups, NEW n \in 0..3, AtWork(c, n + 1), Cleanup(c)
  PROVE  AtWork(c, n)' \/ Settled(c)'
<1>1. running' => /\ jammed' = {}
                  /\ cleanup'[c] \in Left(n)
                  /\ c = "direct" => cleanup'["main"] = "off"
  BY CallStep, LeftShrinks DEF AtWork, Cleanups, Handlers
<1> QED BY <1>1 DEF AtWork, Settled, LInv, IInv, TypeOK


-----------------------------------------------------------------------------
(***************************************************************************)
(* A begun cleanup ends the process.                                       *)
(***************************************************************************)

\* From m steps left a call that is obliged to move gets to n.
Advances(c, m, n) ==
  /\ LInv /\ AtWork(c, m) /\ [Next]_vars => AtWork(c, m)' \/ Settled(c)'
  /\ LInv /\ AtWork(c, m) /\ <<Cleanup(c)>>_vars => AtWork(c, n)' \/ Settled(c)'
  /\ AtWork(c, m) => Works(c)

LEMMA CallRunsOn ==
  ASSUME NEW c \in Cleanups
  PROVE  Advances(c, 4, 3) /\ Advances(c, 3, 2) /\ Advances(c, 2, 1) /\ Advances(c, 1, 0)
<1>1. ASSUME NEW n \in 0..3
      PROVE  Advances(c, n + 1, n)
  <2>1. n + 1 \in 0..4
    OBVIOUS
  <2>2. LInv /\ AtWork(c, n + 1) /\ [Next]_vars => AtWork(c, n + 1)' \/ Settled(c)'
    BY <2>1, CallKept
  <2>3. LInv /\ AtWork(c, n + 1) /\ <<Cleanup(c)>>_vars => AtWork(c, n)' \/ Settled(c)'
    BY CallMoves
  <2>4. AtWork(c, n + 1) => Works(c)
    <3>1. Left(n + 1) \subseteq {"test", "destroy", "clear", "sleep"}
      BY DEF Left
    <3> QED BY <3>1 DEF AtWork, Works
  <2> QED BY <2>2, <2>3, <2>4 DEF Advances
<1>2. 3 + 1 = 4 /\ 2 + 1 = 3 /\ 1 + 1 = 2 /\ 0 + 1 = 1
  OBVIOUS
<1>3. 3 \in 0..3 /\ 2 \in 0..3 /\ 1 \in 0..3 /\ 0 \in 0..3
  OBVIOUS
<1> QED BY <1>1, <1>2, <1>3

\* A call that has begun is at work, unless it is settled.
LEMMA BegunIsAtWork ==
  ASSUME LInv, NEW c \in Cleanups
  PROVE  /\ Begun(c) => AtWork(c, 4) \/ Settled(c)
         /\ ~AtWork(c, 0)
BY DEF LInv, IInv, TypeOK, StuckMeansJammed, AtWork, Left, Settled, Begun, Cleanups,
       Handlers

\* A handler of SIGINT ends the process, and so does main's own call of cleanup if no
\* handler interrupts it; an interrupted one leaves that to the handler.
THEOREM CleanupCompletes == Spec /\ RunsOn => CleanupEnds
<1>1. Spec /\ []LInv /\ ([]<>~Works("direct") \/ []<><<Cleanup("direct")>>_vars)
        => (Begun("direct") ~> Settled("direct"))
  <2>1. /\ Advances("direct", 4, 3) /\ Advances("direct", 3, 2)
        /\ Advances("direct", 2, 1) /\ Advances("direct", 1, 0)
    BY CallRunsOn DEF Cleanups, Handlers
  <2>2. LInv => /\ Begun("direct") => AtWork("direct", 4) \/ Settled("direct")
                /\ ~AtWork("direct", 0)
    BY BegunIsAtWork DEF Cleanups, Handlers
  <2> QED BY <2>1, <2>2, PTL DEF Spec, Advances
<1>2. Spec /\ []LInv /\ ([]<>~Works("main") \/ []<><<Cleanup("main")>>_vars)
        => (Begun("main") ~> Settled("main"))
  <2>1. /\ Advances("main", 4, 3) /\ Advances("main", 3, 2)
        /\ Advances("main", 2, 1) /\ Advances("main", 1, 0)
    BY CallRunsOn DEF Cleanups, Handlers
  <2>2. LInv => /\ Begun("main") => AtWork("main", 4) \/ Settled("main")
                /\ ~AtWork("main", 0)
    BY BegunIsAtWork DEF Cleanups, Handlers
  <2> QED BY <2>1, <2>2, PTL DEF Spec, Advances
<1>3. Spec /\ []LInv /\ ([]<>~Works("stack") \/ []<><<Cleanup("stack")>>_vars)
        => (Begun("stack") ~> Settled("stack"))
  <2>1. /\ Advances("stack", 4, 3) /\ Advances("stack", 3, 2)
        /\ Advances("stack", 2, 1) /\ Advances("stack", 1, 0)
    BY CallRunsOn DEF Cleanups, Handlers
  <2>2. LInv => /\ Begun("stack") => AtWork("stack", 4) \/ Settled("stack")
                /\ ~AtWork("stack", 0)
    BY BegunIsAtWork DEF Cleanups, Handlers
  <2> QED BY <2>1, <2>2, PTL DEF Spec, Advances
<1>4. Spec /\ []LInv /\ ([]<>~Works("syscall") \/ []<><<Cleanup("syscall")>>_vars)
        => (Begun("syscall") ~> Settled("syscall"))
  <2>1. /\ Advances("syscall", 4, 3) /\ Advances("syscall", 3, 2)
        /\ Advances("syscall", 2, 1) /\ Advances("syscall", 1, 0)
    BY CallRunsOn DEF Cleanups, Handlers
  <2>2. LInv => /\ Begun("syscall") => AtWork("syscall", 4) \/ Settled("syscall")
                /\ ~AtWork("syscall", 0)
    BY BegunIsAtWork DEF Cleanups, Handlers
  <2> QED BY <2>1, <2>2, PTL DEF Spec, Advances
<1>5. /\ \A t \in Handlers : Settled(t) => ~running \/ jammed # {}
      /\ Settled("direct") => Begun("main") \/ ~running \/ jammed # {}
  BY DEF Settled, Handlers
<1>6. /\ Settled("main") => ~running \/ jammed # {}
      /\ Settled("stack") => ~running \/ jammed # {}
      /\ Settled("syscall") => ~running \/ jammed # {}
  BY <1>5 DEF Handlers
<1>7. (\E c \in Cleanups : cleanup[c] # "off")
        => Begun("direct") \/ Begun("main") \/ Begun("stack") \/ Begun("syscall")
  BY DEF Begun, Cleanups, Handlers
<1> QED BY <1>1, <1>2, <1>3, <1>4, <1>5, <1>6, <1>7, LifeLiveInvariance, PTL
        DEF RunsOn, CleanupEnds

-----------------------------------------------------------------------------
(***************************************************************************)
(* main's read from the pipe.                                              *)
(***************************************************************************)
Reading == main = "read" /\ running

\* main reads and nothing keeps it from getting an answer.
Answered == Reading /\ ~Begun("main") /\ PidOrEnd

\* While main reads the child has not written yet, or an answer is there; and an
\* answer stays.
LEMMA ReadingKept ==
  ASSUME LInv, LInv', Reading, [Next]_vars
  PROVE  /\ target = "forked" \/ PidOrEnd
         /\ PidOrEnd => PidOrEnd' \/ ~Reading'
         /\ <<ReadPid>>_vars => ~Reading'
         /\ <<ChildWrites>>_vars => PidOrEnd'
<1> USE DEF LInv, IInv, TypeOK, Reading, PidOrEnd
<1>1. target = "forked" \/ PidOrEnd
  BY DEF ReadIsAlone, PipeTells
<1>2. ASSUME PidOrEnd
      PROVE  PidOrEnd' \/ ~Reading'
  <2>1. CASE Target
    BY <1>2, <2>1 DEF Target, ChildWrites, ChildExecs, TargetDies, TargetReaped,
                      PidReused
  <2>2. CASE ~Target /\ ~Spawn
    <3>1. pipe' = pipe
      BY <2>2 DEF Next, Main, SetUp, LoadSkeleton, TakePid, ReadPid, StoreIdentifier,
         Attach, CreateStack, CreateSyscall, MainFails, MainEnds, Tracer, StackUses,
         StackGivesUp, SyscallUses, SyscallExits, PollFails, Killed, Sigint, Cleanup,
         Test, Destroy, Clear, Exit, Stick, targetVars, vars
    <3> QED BY <1>2, <3>1
  <2>3. ~Spawn
    BY DEF Spawn, MainAt
  <2> QED BY <2>1, <2>2, <2>3
<1>3. <<ReadPid>>_vars => ~Reading'
  BY DEF ReadPid
<1>4. <<ChildWrites>>_vars => PidOrEnd'
  BY DEF ChildWrites
<1> QED BY <1>1, <1>2, <1>3, <1>4

\* The child writes its pid or ends, and either way main's read returns; unless main is
\* interrupted, and then its handler ends the process, since no allocator is jammed.
THEOREM ReadCompletes == Spec /\ RunsOn => ReadReturns
<1>1. LInv /\ LInv' /\ Reading /\ [Next]_vars
        => /\ target = "forked" \/ PidOrEnd
           /\ PidOrEnd => PidOrEnd' \/ ~Reading'
           /\ <<ReadPid>>_vars => ~Reading'
           /\ <<ChildWrites>>_vars => PidOrEnd'
  BY ReadingKept
<1>2. /\ Reading /\ target = "forked" => running /\ target = "forked"
      /\ Answered => MainAt("read") /\ PidOrEnd
  BY DEF Reading, Answered, MainAt, Begun
<1>3. LInv /\ Reading /\ Begun("main") =>
        (\E c \in Cleanups : cleanup[c] # "off") /\ ~(jammed # {})
  BY DEF LInv, ReadIsAlone, Reading, Begun, Cleanups, Handlers
<1>4. Reading => running /\ main = "read"
  BY DEF Reading
<1>5. ~Reading => (main # "read" \/ ~running)
  BY DEF Reading
<1>6. Spec /\ RunsOn => ((Begun("main") /\ Reading) ~> ~Reading)
  <2>1. LInv /\ ~running => ~Reading
    BY DEF Reading
  <2>2. LInv /\ Reading => ~(jammed # {})
    BY DEF LInv, ReadIsAlone, Reading
  <2>3. LInv /\ Reading /\ Begun("main") => \E c \in Cleanups : cleanup[c] # "off"
    BY <1>3
  <2> QED BY <2>1, <2>2, <2>3, LifeLiveInvariance, CleanupCompletes, PTL DEF CleanupEnds
<1>7. Spec /\ RunsOn => (Answered ~> (~Reading \/ Begun("main")))
  BY <1>1, <1>2, LifeLiveInvariance, PTL DEF RunsOn, Spec, Answered
<1>8. Spec /\ RunsOn => (Reading ~> (~Reading \/ Answered \/ Begun("main")))
  BY <1>1, <1>2, LifeLiveInvariance, PTL DEF RunsOn, Spec, Answered
<1> QED BY <1>4, <1>5, <1>6, <1>7, <1>8, PTL DEF ReadReturns
=============================================================================
