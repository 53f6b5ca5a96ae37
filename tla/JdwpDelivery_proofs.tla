------------------------ MODULE JdwpDelivery_proofs ------------------------
(***************************************************************************)
(* The theorem that every report committed to the ring buffer of Jdwp is   *)
(* printed, for every set of CPUs and packets and every size of buffer.    *)
(***************************************************************************)
EXTENDS Jdwp_proofs

-----------------------------------------------------------------------------
(***************************************************************************)
(* What stands in the buffer.                                              *)
(***************************************************************************)

\* A program on a CPU does not move main, and main does not touch the log.
LEMMA CpuOrMain ==
  ASSUME [Next]_vars
  PROVE  \/ /\ UNCHANGED <<main, cons>>
            /\ \E c \in Cpus : Receive(c) \/ Reserve(c) \/ Commit(c)
         \/ UNCHANGED <<log, prog, slot>>
<1>1. ASSUME NEW c \in Cpus, Receive(c) \/ Reserve(c) \/ Commit(c)
      PROVE  UNCHANGED <<main, cons>>
  BY <1>1 DEF Receive, Reserve, Commit, mainVars, readVars
<1>2. CASE Monitor \/ PollFails \/ Signal \/ Continued \/ UNCHANGED vars
  BY <1>2 DEF Monitor, SetUp, SetUpFails, Check, Call, Timeout, WakeUp, HandleEvent,
              Release, Drained, Cleanup, PollFails, Signal, Continued, bufferVars,
              xdpVars, vars
<1> QED BY <1>1, <1>2 DEF Next

\* What the programs do to the log: it grows by a busy record, or the record of the
\* CPU that copies becomes ready.
LEMMA LogMoves ==
  ASSUME IInv, NEW c \in Cpus, Receive(c) \/ Reserve(c) \/ Commit(c)
  PROVE  /\ Len(log) \in Nat /\ Len(log') \in Nat
         /\ Len(log) <= Len(log') /\ Len(log') <= Len(log) + 1
         /\ Len(log') # Len(log) => /\ Len(log) - cons < Capacity
                                    /\ prog'[c] = "copy" /\ slot'[c] = Len(log')
         /\ \A k \in 1..Len(log) :
              /\ log[k].ready => log'[k].ready
              /\ prog[c] = "copy" /\ slot[c] = k => log'[k].ready
         /\ \A d \in Cpus \ {c} : prog'[d] = prog[d] /\ slot'[d] = slot[d]
<1>1. /\ log \in Seq(Record) /\ Len(log) \in Nat
      /\ prog \in [Cpus -> {"idle", "output", "copy"}]
      /\ slot \in [Cpus -> 0..Len(log)]
  BY DEF IInv, TypeOK
<1>2. CASE Receive(c)
  <2>1. /\ log' = log /\ slot' = slot /\ prog[c] = "idle"
        /\ prog' = prog \/ prog' = [prog EXCEPT ![c] = "output"]
    BY <1>2 DEF Receive
  <2> QED BY <1>1, <2>1
<1>3. CASE Reserve(c)
  <2>1. prog[c] = "output"
    BY <1>3 DEF Reserve
  <2>2. CASE ~(Len(log) - cons < Capacity)
    <3>1. log' = log /\ slot' = slot /\ prog' = [prog EXCEPT ![c] = "idle"]
      BY <1>3, <2>2 DEF Reserve
    <3> QED BY <1>1, <2>1, <3>1
  <2>3. CASE Len(log) - cons < Capacity
    <3> DEFINE r == BlankRecord(report[c].from)
    <3>1. /\ log' = Append(log, r)
          /\ slot' = [slot EXCEPT ![c] = Len(log) + 1]
          /\ prog' = [prog EXCEPT ![c] = "copy"]
      BY <1>3, <2>3 DEF Reserve
    <3> HIDE DEF r
    <3>2. Len(log') = Len(log) + 1 /\ \A k \in 1..Len(log) : log'[k] = log[k]
      BY <1>1, <3>1
    <3> QED BY <1>1, <2>1, <2>3, <3>1, <3>2
  <2> QED BY <2>2, <2>3
<1>4. CASE Commit(c)
  <2> DEFINE r == [ready |-> TRUE, report |-> report[c]]
  <2>1. /\ log' = [log EXCEPT ![slot[c]] = r] /\ r.ready
        /\ slot' = slot /\ prog' = [prog EXCEPT ![c] = "idle"]
    BY <1>4 DEF Commit
  <2> HIDE DEF r
  <2>2. Len(log') = Len(log)
    BY <1>1, <2>1
  <2>3. ASSUME NEW k \in 1..Len(log)
        PROVE  log'[k] = IF k = slot[c] THEN r ELSE log[k]
    BY <1>1, <2>1
  <2> QED BY <1>1, <2>1, <2>2, <2>3
<1> QED BY <1>2, <1>3, <1>4

\* Record k has been reserved, is being copied into, has been committed.
Exists(k)  == k <= Len(log)
Copying(k) == \E c \in Cpus : prog[c] = "copy" /\ slot[c] = k
Ready(k)   == k <= Len(log) /\ log[k].ready

\* A record stays, is copied into until it is committed, and stays so.
LEMMA RecordMoves ==
  ASSUME IInv, [Next]_vars, NEW k \in Nat \ {0}
  PROVE  /\ Exists(k) => Exists(k)'
         /\ Ready(k) => Ready(k)'
         /\ Copying(k) => Exists(k) /\ (Copying(k)' \/ Ready(k)')
<1> USE DEF Exists, Copying, Ready
<1>0. Len(log) \in Nat /\ \A c \in Cpus : prog[c] = "copy" => slot[c] \in 1..Len(log)
  BY DEF IInv, TypeOK, CopiesIntoOwn
<1>1. CASE UNCHANGED <<log, prog, slot>>
  BY <1>0, <1>1
<1>2. ASSUME NEW c \in Cpus, Receive(c) \/ Reserve(c) \/ Commit(c)
      PROVE  /\ Exists(k) => Exists(k)'
             /\ Ready(k) => Ready(k)'
             /\ Copying(k) => Exists(k) /\ (Copying(k)' \/ Ready(k)')
  <2>1. /\ Len(log') \in Nat /\ Len(log) <= Len(log')
        /\ \A j \in 1..Len(log) :
             /\ log[j].ready => log'[j].ready
             /\ prog[c] = "copy" /\ slot[c] = j => log'[j].ready
        /\ \A d \in Cpus \ {c} : prog'[d] = prog[d] /\ slot'[d] = slot[d]
    BY <1>2, LogMoves
  <2>2. /\ Exists(k) => Exists(k)'
        /\ Ready(k) => Ready(k)'
    BY <1>0, <2>1
  <2>3. ASSUME NEW d \in Cpus, prog[d] = "copy", slot[d] = k
        PROVE  Exists(k) /\ (Copying(k)' \/ Ready(k)')
    <3>1. CASE d = c
      BY <1>0, <2>1, <2>3, <3>1
    <3>2. CASE d # c
      BY <1>0, <2>1, <2>3, <3>2
    <3> QED BY <3>1, <3>2
  <2> QED BY <2>2, <2>3
<1> QED BY <1>1, <1>2, CpuOrMain

\* A record that is not ready is being copied into.
LEMMA BusyCopied == Spec => []BusyAreCopied
<1>1. Init => BusyAreCopied
  BY DEF Init, BusyAreCopied
<1>2. ASSUME IInv, BusyAreCopied, [Next]_vars
      PROVE  BusyAreCopied'
  <2>1. \A j \in 1..Len(log) : Ready(j) \/ Copying(j)
    BY <1>2 DEF BusyAreCopied, Ready, Copying, IInv, TypeOK
  <2>2. \A j \in 1..Len(log) : Ready(j)' \/ Copying(j)'
    BY <1>2, <2>1, RecordMoves DEF IInv, TypeOK
  <2>3. \A j \in 1..Len(log') : j \in 1..Len(log) \/ Copying(j)'
    <3>1. CASE UNCHANGED <<log, prog, slot>>
      BY <3>1
    <3>2. ASSUME NEW c \in Cpus, Receive(c) \/ Reserve(c) \/ Commit(c)
          PROVE  \A j \in 1..Len(log') : j \in 1..Len(log) \/ Copying(j)'
      <4>1. /\ Len(log) \in Nat /\ Len(log') \in Nat /\ Len(log') <= Len(log) + 1
            /\ Len(log) <= Len(log')
            /\ Len(log') # Len(log) => prog'[c] = "copy" /\ slot'[c] = Len(log')
        BY <1>2, <3>2, LogMoves
      <4>2. ASSUME NEW j \in 1..Len(log'), j \notin 1..Len(log)
            PROVE  j = Len(log') /\ Len(log') # Len(log)
        BY <4>1, <4>2
      <4> QED BY <4>1, <4>2 DEF Copying
    <3> QED BY <1>2, <3>1, <3>2, CpuOrMain
  <2> QED BY <2>2, <2>3 DEF BusyAreCopied, Ready, Copying
<1> QED BY <1>1, <1>2, JdwpInvariance, PTL DEF Spec

\* Without a program there is no report.
LEMMA NoneBeforeAttach == Spec => []AttachedFirst
<1>1. Init => AttachedFirst
  BY DEF Init, AttachedFirst
<1>2. ASSUME IInv, AttachedFirst, [Next]_vars
      PROVE  AttachedFirst'
  <2>1. ASSUME NEW c \in Cpus, Receive(c) \/ Reserve(c) \/ Commit(c)
        PROVE  main' = main /\ main \notin {"args", "load", "ring", "attach"}
    BY <1>2, <2>1 DEF Receive, Reserve, Commit, Attached, AttachedFirst, mainVars
  <2>2. CASE UNCHANGED <<log, prog, slot>>
    <3>1. main' \in {"args", "load", "ring", "attach"}
            => main \in {"args", "load", "ring", "attach"}
      <4>1. CASE \E c \in Cpus : Receive(c) \/ Reserve(c) \/ Commit(c)
        BY <2>1, <4>1
      <4>2. CASE ~\E c \in Cpus : Receive(c) \/ Reserve(c) \/ Commit(c)
        BY <1>2, <4>2 DEF Next, Monitor, SetUp, SetUpFails, Check, Call, Timeout, WakeUp,
             HandleEvent, Release, Drained, Cleanup, PollFails, Signal, Continued,
             Interrupted, vars
      <4> QED BY <4>1, <4>2
    <3> QED BY <1>2, <2>2, <3>1 DEF AttachedFirst
  <2> QED BY <1>2, <2>1, <2>2, CpuOrMain DEF AttachedFirst
<1> QED BY <1>1, <1>2, JdwpInvariance, PTL DEF Spec

\* A record takes at least eight bytes.
LEMMA CapacityIsSmall == Capacity \in Nat /\ Capacity <= RingBytes
<1>1. RecordBytes \in Nat /\ RecordBytes >= 8
  BY JdwpAssumption DEF RecordBytes, RoundUp8
<1>2. RingBytes - 1 \in Nat
  BY JdwpAssumption
<1> HIDE DEF RecordBytes
<1>3. ASSUME NEW m \in Nat, NEW d \in Nat \ {0} PROVE m \div d \in Nat /\ m \div d <= m
  OBVIOUS
<1> QED BY <1>1, <1>2, <1>3, JdwpAssumption DEF Capacity

\* main does not go back.
LEMMA ConsForwards ==
  ASSUME TypeOK, [Next]_vars
  PROVE  cons \in Nat /\ cons' \in {cons, cons + 1}
<1>1. CASE \E c \in Cpus : Receive(c) \/ Reserve(c) \/ Commit(c)
  BY <1>1 DEF Receive, Reserve, Commit, readVars, TypeOK
<1>2. CASE ~\E c \in Cpus : Receive(c) \/ Reserve(c) \/ Commit(c)
  BY <1>2 DEF Next, Monitor, SetUp, SetUpFails, Check, Call, Timeout, WakeUp,
       HandleEvent, Release, Drained, Cleanup, PollFails, Signal, Continued,
       bufferVars, readVars, vars, TypeOK
<1> QED BY <1>1, <1>2

\* What is not released fits into the buffer.
LEMMA ReportsBounded == Spec => []BufferBounded
<1>1. Init => BufferBounded
  BY CapacityIsSmall DEF Init, BufferBounded
<1>2. ASSUME IInv, BufferBounded, [Next]_vars
      PROVE  BufferBounded'
  <2>1. cons \in Nat /\ cons' \in {cons, cons + 1} /\ Len(log) \in Nat
    BY <1>2, ConsForwards DEF IInv, TypeOK
  <2>2. CASE UNCHANGED <<log, prog, slot>>
    BY <1>2, <2>1, <2>2, CapacityIsSmall DEF BufferBounded
  <2>3. ASSUME NEW c \in Cpus, Receive(c) \/ Reserve(c) \/ Commit(c), cons' = cons
        PROVE  BufferBounded'
    <3>1. /\ Len(log') \in Nat /\ Len(log') <= Len(log) + 1 /\ Len(log) <= Len(log')
          /\ Len(log') # Len(log) => Len(log) - cons < Capacity
      BY <1>2, <2>3, LogMoves
    <3> QED BY <1>2, <2>1, <2>3, <3>1, CapacityIsSmall DEF BufferBounded
  <2> QED BY <1>2, <2>2, <2>3, CpuOrMain
<1> QED BY <1>1, <1>2, JdwpInvariance, PTL DEF Spec

-----------------------------------------------------------------------------
(***************************************************************************)
(* One report.                                                             *)
(***************************************************************************)

\* Everything before record k has been printed; and so has k, or the loop has ended.
Reached(k) == k <= Released + 1
Passed(k)  == k <= Released \/ main \in {"cleanup", "ended"}

\* main stands at record k or is past it; it has yet to release the record before;
\* it stands at k, somewhere in its loop.
Near(k)      == k <= cons + 1
BehindIt(k)  == main = "handled" /\ k = cons + 2
At(place, k) == main = place /\ k = cons + 1

\* A number stays behind another that grows.
LEMMA StaysBehind ==
  ASSUME NEW m \in Nat, NEW n \in Nat, NEW k \in Nat, k <= m + 1, m <= n
  PROVE  k <= n + 1
OBVIOUS

\* What is reached stays so, and what is passed.
LEMMA PassedStays ==
  ASSUME TypeOK, [Next]_vars, NEW k \in Nat
  PROVE  /\ Reached(k) => Reached(k)'
         /\ Passed(k) => Passed(k)'
<1>1. Released \in Nat /\ Released' \in Nat /\ Released <= Released'
  BY MonitorForwards
<1>2. main \in {"cleanup", "ended"} => main' \in {"cleanup", "ended"}
  BY DEF Next, Monitor, SetUp, SetUpFails, Check, Call, Timeout, WakeUp, HandleEvent,
         Release, Drained, Cleanup, PollFails, Signal, Continued, Receive, Reserve,
         Commit, mainVars, vars
<1>3. ASSUME Reached(k) PROVE Reached(k)'
  <2>1. k <= Released + 1
    BY <1>3 DEF Reached
  <2>2. k <= Released' + 1
    BY <1>1, <2>1, StaysBehind
  <2> QED BY <2>2 DEF Reached
<1>4. ASSUME Passed(k) PROVE Passed(k)'
  <2>1. CASE k <= Released
    <3>1. k <= Released'
      BY <1>1, <2>1
    <3> QED BY <3>1 DEF Passed
  <2>2. CASE main \in {"cleanup", "ended"}
    BY <1>2, <2>2 DEF Passed
  <2> QED BY <1>4, <2>1, <2>2 DEF Passed
<1> QED BY <1>3, <1>4

\* main comes to stand at a record it has reached.
LEMMA MainArrives ==
  ASSUME TypeOK, [Next]_vars, NEW k \in Nat
  PROVE  /\ Reached(k) => Near(k) \/ BehindIt(k)
         /\ Near(k) => Near(k)'
         /\ BehindIt(k) => BehindIt(k)' \/ Near(k)'
         /\ BehindIt(k) /\ Monitor => Near(k)'
<1>1. cons \in Nat /\ cons' \in Nat /\ cons <= cons'
  BY ConsForwards
<1>2. Reached(k) => Near(k) \/ BehindIt(k)
  BY <1>1 DEF Reached, Released, Near, BehindIt
<1>3. ASSUME Near(k) PROVE Near(k)'
  <2>1. k <= cons + 1
    BY <1>3 DEF Near
  <2>2. k <= cons' + 1
    BY <1>1, <2>1, StaysBehind
  <2> QED BY <2>2 DEF Near
<1>4. ASSUME main = "handled"
      PROVE  /\ (main' = "handled" /\ cons' = cons) \/ cons' = cons + 1
             /\ Monitor => cons' = cons + 1
  BY <1>4 DEF Next, Monitor, SetUp, SetUpFails, Check, Call, Timeout, WakeUp, HandleEvent,
         Release, Drained, Cleanup, PollFails, Signal, Continued, Receive, Reserve,
         Commit, mainVars, readVars, bufferVars, vars
<1>5. ASSUME BehindIt(k) PROVE BehindIt(k)' \/ Near(k)'
  <2>1. main = "handled" /\ k = cons + 2
    BY <1>5 DEF BehindIt
  <2>2. CASE main' = "handled" /\ cons' = cons
    BY <2>1, <2>2 DEF BehindIt
  <2>3. CASE cons' = cons + 1
    <3>1. k <= cons' + 1
      BY <1>1, <2>1, <2>3
    <3> QED BY <3>1 DEF Near
  <2> QED BY <1>4, <2>1, <2>2, <2>3
<1>6. ASSUME BehindIt(k), Monitor PROVE Near(k)'
  <2>1. cons' = cons + 1 /\ k = cons + 2
    BY <1>4, <1>6 DEF BehindIt
  <2>2. k <= cons' + 1
    BY <1>1, <2>1
  <2> QED BY <2>2 DEF Near
<1> QED BY <1>2, <1>3, <1>5, <1>6

\* Only one CPU copies into the record at which main stands, the one that serves it.
LEMMA ServedAtHead ==
  ASSUME IInv, NEW k \in Nat \ {0}, Near(k), Copying(k)
  PROVE  /\ cons < Len(log) /\ ~log[cons + 1].ready
         /\ Serve => Ready(k)'
<1>1. PICK c \in Cpus : prog[c] = "copy" /\ slot[c] = k
  BY DEF Copying
<1>2. k \in 1..Len(log) /\ ~log[k].ready
  BY <1>1 DEF IInv, CopiesIntoOwn
<1>3. cons \in Nat /\ \A j \in 1..cons : log[j].ready
  BY DEF IInv, TypeOK, PrintedAreReady
<1>4. k = cons + 1
  BY <1>2, <1>3 DEF Near
<1>5. ASSUME NEW d \in Cpus, prog[d] = "copy", slot[d] = k, Commit(d)
      PROVE  Ready(k)'
  <2>1. /\ Len(log) \in Nat /\ Len(log') \in Nat /\ Len(log) <= Len(log')
        /\ \A j \in 1..Len(log) : prog[d] = "copy" /\ slot[d] = j => log'[j].ready
    BY <1>5, LogMoves
  <2> QED BY <1>2, <1>5, <2>1 DEF Ready
<1>6. cons < Len(log)
  BY <1>2, <1>3, <1>4
<1> QED BY <1>2, <1>4, <1>5, <1>6 DEF Serve

\* Round and round the loop until the record is printed or the loop ends.
LEMMA LoopMoves ==
  ASSUME IInv, AttachedFirst, [Next]_vars, NEW k \in Nat \ {0}, Ready(k)
  PROVE  /\ Near(k) => \/ Passed(k) \/ At("check", k) \/ At("call", k)
                       \/ At("wait", k) \/ At("read", k)
         /\ At("check", k) => At("check", k)' \/ At("call", k)' \/ Passed(k)'
         /\ At("check", k) /\ Monitor => At("call", k)' \/ Passed(k)'
         /\ At("call", k) => At("call", k)' \/ At("wait", k)'
         /\ At("call", k) /\ Monitor => At("wait", k)'
         /\ At("wait", k) => \/ At("wait", k)' \/ At("check", k)' \/ At("read", k)'
                             \/ Passed(k)'
         /\ At("wait", k) /\ Monitor => At("check", k)' \/ At("read", k)'
         /\ At("wait", k) /\ WakeUp => At("read", k)'
         /\ At("read", k) => At("read", k)' \/ Passed(k)'
         /\ At("read", k) /\ Monitor => Passed(k)'
         /\ At("wait", k) => cons < Len(log)
<1>0. cons \in Nat /\ Len(log) \in Nat /\ k \in 1..Len(log) /\ log[k].ready
  BY DEF IInv, TypeOK, Ready
<1>1. main \in {"check", "call", "wait", "read", "handled", "cleanup", "ended"}
  BY <1>0 DEF IInv, TypeOK, AttachedFirst
<1>2. ASSUME Near(k)
      PROVE  \/ Passed(k) \/ At("check", k) \/ At("call", k)
             \/ At("wait", k) \/ At("read", k)
  BY <1>0, <1>1, <1>2 DEF Near, Passed, At, Released
<1>3. CASE \E c \in Cpus : Receive(c) \/ Reserve(c) \/ Commit(c)
  <2>1. main' = main /\ cons' = cons /\ ~Monitor /\ ~WakeUp
    <3>1. main' = main /\ cons' = cons
      BY <1>3 DEF Receive, Reserve, Commit, mainVars, readVars
    <3>2. UNCHANGED xdpVars => FALSE
      BY <1>3 DEF Receive, Reserve, Commit, IInv, TypeOK, xdpVars
    <3>3. Monitor \/ WakeUp => UNCHANGED xdpVars
      BY DEF Monitor, SetUp, SetUpFails, Check, Call, Timeout, WakeUp, HandleEvent,
             Release, Drained, Cleanup, bufferVars
    <3> QED BY <3>1, <3>2, <3>3
  <2> QED BY <1>0, <1>2, <2>1 DEF At
<1>4. CASE ~\E c \in Cpus : Receive(c) \/ Reserve(c) \/ Commit(c)
  <2>1. ASSUME At("check", k)
        PROVE  /\ At("check", k)' \/ At("call", k)' \/ Passed(k)'
               /\ Monitor => At("call", k)' \/ Passed(k)'
    BY <1>0, <1>4, <2>1 DEF At, Passed, Next, Monitor, SetUp, SetUpFails, Check, Call,
         Timeout, WakeUp, HandleEvent, Release, Drained, Cleanup, PollFails, Signal,
         Continued, bufferVars, readVars, vars
  <2>2. ASSUME At("call", k)
        PROVE  /\ At("call", k)' \/ At("wait", k)'
               /\ Monitor => At("wait", k)'
    BY <1>0, <1>4, <2>2 DEF At, Passed, Next, Monitor, SetUp, SetUpFails, Check, Call,
         Timeout, WakeUp, HandleEvent, Release, Drained, Cleanup, PollFails, Signal,
         Continued, bufferVars, readVars, vars
  <2>3. ASSUME At("wait", k)
        PROVE  /\ At("wait", k)' \/ At("check", k)' \/ At("read", k)' \/ Passed(k)'
               /\ Monitor => At("check", k)' \/ At("read", k)'
               /\ WakeUp => At("read", k)'
               /\ cons < Len(log)
    BY <1>0, <1>4, <2>3 DEF At, Passed, Next, Monitor, SetUp, SetUpFails, Check, Call,
         Timeout, WakeUp, HandleEvent, Release, Drained, Cleanup, PollFails, Signal,
         Continued, Interrupted, bufferVars, readVars, vars
  <2>4. ASSUME At("read", k)
        PROVE  /\ At("read", k)' \/ Passed(k)'
               /\ Monitor => Passed(k)'
    BY <1>0, <1>4, <2>4 DEF At, Passed, Released, Next, Monitor, SetUp, SetUpFails, Check,
         Call, Timeout, WakeUp, HandleEvent, Release, Drained, Cleanup, PollFails, Signal,
         Continued, bufferVars, readVars, vars
  <2> QED BY <1>2, <2>1, <2>2, <2>3, <2>4
<1> QED BY <1>3, <1>4

Delivers == FairSpec /\ Delivery /\ []CanProceed /\ []DeliveryCanProceed

GetsPassed(k) == (Reached(k) /\ Exists(k)) ~> Passed(k)

\* No report holds up main when it has reached it: the CPU that copies it commits it
\* whatever main does, and main then finds it, in this drain or after another timeout.
LEMMA ReportGetsPassed ==
  ASSUME NEW k \in Nat \ {0}
  PROVE  Delivers => GetsPassed(k)
<1> DEFINE Inv  == IInv /\ BusyAreCopied /\ AttachedFirst
           Here == Reached(k) /\ Exists(k)
<1>1. Inv /\ [Next]_vars =>
        /\ Here => Here'
        /\ Passed(k) => Passed(k)'
        /\ Near(k) => Near(k)'
        /\ Ready(k) => Ready(k)'
        /\ Copying(k) => Copying(k)' \/ Ready(k)'
  BY PassedStays, MainArrives, RecordMoves DEF IInv
<1>2. Inv /\ [Next]_vars =>
        /\ Here => Near(k) \/ BehindIt(k)
        /\ BehindIt(k) => BehindIt(k)' \/ Near(k)'
        /\ BehindIt(k) /\ <<Monitor>>_vars => Near(k)'
  BY MainArrives DEF IInv
<1>3. CanProceed /\ BehindIt(k) => ENABLED <<Monitor>>_vars
  BY DEF CanProceed, BehindIt
<1>4. Inv => (Here => Ready(k) \/ Copying(k))
  BY DEF BusyAreCopied, Exists, Ready, Copying, IInv, TypeOK
<1>5. Inv /\ Near(k) /\ Copying(k) =>
        /\ DeliveryCanProceed => ENABLED <<Serve>>_vars
        /\ <<Serve>>_vars => Ready(k)'
  <2>1. Inv /\ Near(k) /\ Copying(k) =>
          /\ cons < Len(log) /\ ~log[cons + 1].ready
          /\ Serve => Ready(k)'
    BY ServedAtHead
  <2> QED BY <2>1 DEF DeliveryCanProceed
<1>6. Inv /\ [Next]_vars /\ Ready(k) =>
        /\ Near(k) => \/ Passed(k) \/ At("check", k) \/ At("call", k)
                      \/ At("wait", k) \/ At("read", k)
        /\ At("check", k) => At("check", k)' \/ At("call", k)' \/ Passed(k)'
        /\ At("check", k) /\ <<Monitor>>_vars => At("call", k)' \/ Passed(k)'
        /\ At("call", k) => At("call", k)' \/ At("wait", k)'
        /\ At("call", k) /\ <<Monitor>>_vars => At("wait", k)'
        /\ At("wait", k) => \/ At("wait", k)' \/ At("check", k)' \/ At("read", k)'
                            \/ Passed(k)'
        /\ At("wait", k) /\ <<Monitor>>_vars => At("check", k)' \/ At("read", k)'
        /\ At("wait", k) /\ <<WakeUp>>_vars => At("read", k)'
        /\ At("read", k) => At("read", k)' \/ Passed(k)'
        /\ At("read", k) /\ <<Monitor>>_vars => Passed(k)'
  BY LoopMoves
<1>7. Inv /\ [Next]_vars /\ Ready(k) /\ At("wait", k) => cons < Len(log)
  BY LoopMoves
<1>8. CanProceed /\ (At("check", k) \/ At("call", k) \/ At("wait", k) \/ At("read", k))
        => ENABLED <<Monitor>>_vars
  BY DEF CanProceed, At
<1>9. Inv /\ [Next]_vars /\ Ready(k) /\ At("wait", k) /\ DeliveryCanProceed
        => ENABLED <<WakeUp>>_vars
  BY <1>7 DEF DeliveryCanProceed, At
<1>10. /\ <<WakeUp>>_vars => ~(At("check", k) \/ At("call", k) \/ At("read", k))
       /\ Here => Exists(k)
  BY DEF WakeUp, At
<1>11. Spec => []Inv
  BY JdwpInvariance, BusyCopied, NoneBeforeAttach, PTL
<1> HIDE DEF Inv, Here
<1>12. FairSpec /\ []CanProceed => (Here ~> (Here /\ Near(k)))
  BY <1>1, <1>2, <1>3, <1>11, PTL DEF FairSpec, Spec
<1>13. FairSpec /\ Delivery /\ []DeliveryCanProceed
         => ((Here /\ Near(k)) ~> (Near(k) /\ Ready(k)))
  BY <1>1, <1>4, <1>5, <1>11, PTL DEF Delivery, FairSpec, Spec
<1>14. Delivers
         => ((Near(k) /\ Ready(k)) ~> Passed(k))
  BY <1>1, <1>6, <1>8, <1>9, <1>10, <1>11, PTL DEF Delivers, Delivery, FairSpec, Spec
<1> QED BY <1>12, <1>13, <1>14, PTL DEF Delivers, Here, GetsPassed

-----------------------------------------------------------------------------
(***************************************************************************)
(* All reports.  Nears and Stride are temporal formulas reasoned about by  *)
(* name: a stride that main always makes it makes twice in a row, and the  *)
(* buffer has less than 2^32 bytes, max_entries being a __u32.             *)
(***************************************************************************)

\* Record k exists, and all but d records up to it have been passed.
Behind(k, d) == Exists(k) /\ (k <= Released + d \/ main \in {"cleanup", "ended"})

Nears(k, d, e) == Behind(k, d) ~> Behind(k, e)
Stride(n) == \A k \in Nat \ {0}, d \in Nat : Nears(k, d + n, d)

\* The next record is passed.
LEMMA StrideOne == Delivers => Stride(1)
<1>1. ASSUME NEW k \in Nat \ {0}, NEW d \in Nat
      PROVE  Delivers => Nears(k, d + 1, d)
  <2>1. CASE d >= k
    <3>1. IInv /\ Behind(k, d + 1) => Behind(k, d)
      BY <2>1 DEF Behind, Released, IInv, TypeOK
    <3> QED BY <3>1, JdwpInvariance, PTL DEF Delivers, FairSpec, Nears
  <2>2. CASE ~(d >= k)
    <3> DEFINE j == k - d
    <3>1. j \in Nat \ {0} /\ j \in Nat
      BY <2>2
    <3>2. IInv /\ Behind(k, d + 1)
            => Exists(k) /\ (Reached(j) \/ Passed(j)) /\ Exists(j)
      BY <2>2 DEF Behind, Exists, Reached, Passed, Released, IInv, TypeOK
    <3>3. IInv /\ [Next]_vars => (Exists(k) => Exists(k)') /\ (Passed(j) => Passed(j)')
      BY <3>1, RecordMoves, PassedStays DEF IInv
    <3>4. IInv /\ Exists(k) /\ Passed(j) => Behind(k, d)
      BY <2>2 DEF Behind, Passed, Released, IInv, TypeOK
    <3>5. Delivers => GetsPassed(j)
      BY <3>1, ReportGetsPassed
    <3> HIDE DEF j
    <3> QED BY <3>2, <3>3, <3>4, <3>5, JdwpInvariance, PTL
        DEF Delivers, FairSpec, Spec, Nears, GetsPassed
  <2> QED BY <2>1, <2>2
<1> QED BY <1>1 DEF Stride

\* A stride can be made twice, and sixteen times.
LEMMA StrideTwice == ASSUME NEW n \in Nat PROVE Stride(n) => Stride(2 * n)
<1>1. ASSUME NEW k \in Nat \ {0}, NEW d \in Nat
      PROVE  Stride(n) => Nears(k, d + 2 * n, d)
  <2>1. Stride(n) => Nears(k, (d + n) + n, d + n) /\ Nears(k, d + n, d)
    BY DEF Stride
  <2>2. (d + n) + n = d + 2 * n
    OBVIOUS
  <2>3. Stride(n) => Nears(k, d + 2 * n, d + n) /\ Nears(k, d + n, d)
    BY <2>1, <2>2
  <2> QED BY <2>3, PTL DEF Nears
<1> QED BY <1>1 DEF Stride

LEMMA StrideSixteen == ASSUME NEW n \in Nat PROVE Stride(n) => Stride(16 * n)
<1>1. Stride(n) => Stride(2 * n)
  BY StrideTwice
<1>2. Stride(2 * n) => Stride(4 * n)
  BY StrideTwice, 2 * (2 * n) = 4 * n
<1>3. Stride(4 * n) => Stride(8 * n)
  BY StrideTwice, 2 * (4 * n) = 8 * n
<1>4. Stride(8 * n) => Stride(16 * n)
  BY StrideTwice, 2 * (8 * n) = 16 * n
<1> QED BY <1>1, <1>2, <1>3, <1>4

\* However full the buffer is.
LEMMA StrideFar == Delivers => Stride(4294967296)
<1>1. Stride(1) => Stride(16)
  BY StrideSixteen, 16 * 1 = 16
<1>2. Stride(16) => Stride(256)
  BY StrideSixteen, 16 * 16 = 256
<1>3. Stride(256) => Stride(4096)
  BY StrideSixteen, 16 * 256 = 4096
<1>4. Stride(4096) => Stride(65536)
  BY StrideSixteen, 16 * 4096 = 65536
<1>5. Stride(65536) => Stride(1048576)
  BY StrideSixteen, 16 * 65536 = 1048576
<1>6. Stride(1048576) => Stride(16777216)
  BY StrideSixteen, 16 * 1048576 = 16777216
<1>7. Stride(16777216) => Stride(268435456)
  BY StrideSixteen, 16 * 16777216 = 268435456
<1>8. Stride(268435456) => Stride(4294967296)
  BY StrideSixteen, 16 * 268435456 = 4294967296
<1> QED BY StrideOne, <1>1, <1>2, <1>3, <1>4, <1>5, <1>6, <1>7, <1>8

\* Every committed report is printed in the end, or the poll loop has ended: neither the
\* reports before it hold it up for ever, nor a drain that stops at one still being
\* copied.
THEOREM EveryReportPrinted ==
  ASSUME RingBytes < 4294967296
  PROVE  FairSpec /\ []CanProceed /\ []DeliveryCanProceed => CommittedGetsPrinted
<1>1. ASSUME NEW k \in 1..MaxPackets
      PROVE  Delivers => GetsPrinted(k)
  <2>1. k \in Nat \ {0}
    BY JdwpAssumption
  <2>2. Delivers => Nears(k, 0 + 4294967296, 0)
    BY <2>1, StrideFar DEF Stride
  <2>3. IInv /\ BufferBounded /\ k <= Len(log) /\ log[k].ready
          => Behind(k, 0 + 4294967296)
    BY <2>1, CapacityIsSmall, JdwpAssumption
       DEF BufferBounded, Exists, Behind, Released, IInv, TypeOK
  <2>4. IInv /\ Behind(k, 0) => k <= Released \/ main \in {"cleanup", "ended"}
    BY <2>1 DEF Behind, Released, IInv, TypeOK
  <2> QED BY <2>2, <2>3, <2>4, JdwpInvariance, ReportsBounded, PTL
      DEF Delivers, FairSpec, Nears, GetsPrinted
<1>2. Delivers => \A k \in 1..MaxPackets : GetsPrinted(k)
  BY <1>1
<1> QED BY <1>2 DEF CommittedGetsPrinted, Delivers
=============================================================================
