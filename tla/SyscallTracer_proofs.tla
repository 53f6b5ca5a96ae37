------------------------ MODULE SyscallTracer_proofs ------------------------
(***************************************************************************)
(* Proofs about SyscallTracer, for every set of threads and processes,     *)
(* every buffer size and every set of system calls.                        *)
(***************************************************************************)
EXTENDS SyscallTracer, SyscallTable_proofs, TLAPS

(***************************************************************************)
(* What a record and a line are made of.                                   *)
(***************************************************************************)

\* What a case stores is a well-formed event.
LEMMA EventForType ==
  ASSUME NEW c \in Calls, c.sys \in Reported, NEW t \in Threads, NEW faults
  PROVE  EventFor(c, t, faults) \in Event
<1>1. EventOf[c.sys] \in EventTypes
  BY EventOfType
<1>2. (IF c.sys = "ptrace" THEN c.tracee ELSE ProcOf[t]) \in Pids
  BY PipelineAssumption DEF Pids
<1>3. WrittenArgs(c.sys) \in [0..5 -> Stale..5]
  BY DEF WrittenArgs, Stale
<1>4. WrittenStrs(c.sys, faults) \in [1..3 -> Unreadable..5]
  BY StringArgsType DEF WrittenStrs, Stale, Unreadable
<1> QED BY <1>1, <1>2, <1>3, <1>4 DEF EventFor, Event

\* So a line printed from a well-formed record is well formed.
LEMMA PrintedLineType ==
  ASSUME NEW k \in Nat, NEW e \in Event
  PROVE  PrintedLine(k, e) \in Line
<1>1. SyscallLabel(e.type) \in Labels
  BY LabelType
<1>2. ASSUME NEW l \in ShownLabels(e.type)
      PROVE  ShownValue(e.type, l, e.args, e.strs) \in Unreadable..5
  <2>1. e.type \in EventTypes /\ l \in DOMAIN ShownFields[e.type]
    BY <1>2 DEF ShownLabels
  <2> DEFINE f == ShownFields[e.type][l]
  <2>2. IF f[1] = "args" THEN f[2] \in 0..5 ELSE f[2] \in 1..3
    BY <2>1, ShownFieldType
  <2> HIDE DEF f
  <2>3. e.args \in [0..5 -> Stale..5] /\ e.strs \in [1..3 -> Unreadable..5]
    BY DEF Event
  <2>4. (IF f[1] = "args" THEN e.args[f[2]] ELSE e.strs[f[2]]) \in Unreadable..5
    BY <2>2, <2>3 DEF Stale, Unreadable
  <2> QED BY <2>4 DEF ShownValue, f
<1>3. [l \in ShownLabels(e.type) |-> ShownValue(e.type, l, e.args, e.strs)]
        \in [ShownLabels(e.type) -> Unreadable..5]
  BY <1>2
<1>4. e.type \in EventTypes \cup {"unset"} /\ e.pid \in Pids
  BY DEF Event
<1> QED BY <1>1, <1>3, <1>4 DEF PrintedLine, Line

-----------------------------------------------------------------------------
(***************************************************************************)
(* The inductive invariant.                                                *)
(***************************************************************************)

\* What has a case was made under the program's eyes.
LEMMA EmittedIsMade ==
  ASSUME TypeOK, NEW t \in Threads, Emits(call[t])
  PROVE  call[t] \in Calls /\ call[t].sys \in Reported
<1>1. call[t] \in Calls \cup {NoCall} /\ call[t].sys \in Reported
  BY DEF TypeOK, Emits
<1>2. NoCall.sys \notin Reported
  BY DEF NoCall, Reported, EventOf
<1> QED BY <1>1, <1>2

\* Nothing has happened yet.
LEMMA IInvInit == Init => IInv
<1> SUFFICES ASSUME Init PROVE IInv
  OBVIOUS
<1> USE DEF Init
<1>1. TypeOK
  BY PipelineAssumption DEF TypeOK
<1>2. EmittersAreTargets /\ OwnersHoldBusy /\ SignalAfterReport
  BY DEF EmittersAreTargets, OwnersHoldBusy, SignalAfterReport, Holding
<1>3. BusyHaveOwner /\ ReleasedAreDone /\ ReadyAreFilled /\ LinesMatchRecords
  BY DEF BusyHaveOwner, ReleasedAreDone, ReadyAreFilled, LinesMatchRecords
<1>4. PrintsReleasedInOrder
  BY DEF PrintsReleasedInOrder, Released
<1>5. KilledIffReported
  BY DEF KilledIffReported
<1> QED BY <1>1, <1>2, <1>3, <1>4, <1>5 DEF IInv

\* A thread enters the program or is let through at once.
LEMMA IInvEnter ==
  ASSUME IInv, NEW t \in Threads, NEW c \in Calls, Enter(t, c)
  PROVE  IInv'
<1> USE DEF IInv, Enter, consVars
<1>1. TypeOK'
  BY PipelineAssumption DEF TypeOK
<1>2. EmittersAreTargets'
  BY DEF EmittersAreTargets, IsTarget, Holding, TypeOK
<1>3. OwnersHoldBusy' /\ SignalAfterReport'
  BY DEF OwnersHoldBusy, SignalAfterReport, Holding, TypeOK
<1>4. BusyHaveOwner'
  BY DEF BusyHaveOwner, Holding, TypeOK, Record
<1>5. ReleasedAreDone'
  BY DEF ReleasedAreDone
<1>6. ReadyAreFilled'
  BY DEF ReadyAreFilled, TypeOK
<1>7. LinesMatchRecords' /\ PrintsReleasedInOrder'
  BY DEF LinesMatchRecords, PrintsReleasedInOrder, IsReady, Released
<1>8. KilledIffReported'
  BY DEF KilledIffReported, IsReady, TypeOK, Record
<1> QED BY <1>1, <1>2, <1>3, <1>4, <1>5, <1>6, <1>7, <1>8

\* A fresh record is busy and belongs to the thread that reserved it.
LEMMA IInvReserve ==
  ASSUME IInv, NEW t \in Threads, Reserve(t)
  PROVE  IInv'
<1> USE DEF IInv, Reserve, progVars, consVars
<1> DEFINE r == [state |-> "busy", by |-> t, made |-> call[t], ev |-> BlankEvent]
<1>1. r \in Record
  <2>1. call[t] \in Calls
    BY EmittedIsMade DEF EmittersAreTargets
  <2> QED BY <2>1 DEF Record, Event, BlankEvent, Stale, Unreadable, Pids
<1>2. /\ log' = Append(log, r)
      /\ Len(log') = Len(log) + 1
      /\ Len(log) \in Nat
      /\ log'[Len(log) + 1] = r
      /\ \A k \in 1..Len(log) : log'[k] = log[k]
      /\ log' \in Seq(Record)
  BY <1>1 DEF TypeOK
<1>3. r.state = "busy" /\ r.by = t /\ r.made = call[t]
  OBVIOUS
<1> HIDE DEF r
<1>4. TypeOK'
  BY <1>2 DEF TypeOK
<1>5. EmittersAreTargets'
  BY DEF EmittersAreTargets, IsTarget, Holding, TypeOK
<1>6. OwnersHoldBusy' /\ SignalAfterReport'
  BY <1>2, <1>3 DEF OwnersHoldBusy, SignalAfterReport, Holding, TypeOK
<1>7. BusyHaveOwner'
  BY <1>2, <1>3 DEF BusyHaveOwner, Holding, TypeOK
<1>8. ReleasedAreDone'
  BY <1>2 DEF ReleasedAreDone, TypeOK
<1>9. ReadyAreFilled'
  <2>1. \A k \in 1..Len(log)' : log'[k].state = "ready" => IsFilled(log'[k])
    BY <1>2, <1>3 DEF ReadyAreFilled
  <2>2. \A u \in Threads : pc'[u] = "submit" => IsFilled(log'[slot'[u]])
    BY <1>2 DEF ReadyAreFilled, OwnersHoldBusy, Holding, TypeOK
  <2> QED BY <2>1, <2>2 DEF ReadyAreFilled, IsFilled
<1>10. LinesMatchRecords'
  BY <1>2 DEF LinesMatchRecords, IsReady
<1>11. PrintsReleasedInOrder'
  BY <1>2 DEF PrintsReleasedInOrder, Released, ReleasedAreDone, IsReady, TypeOK
<1>12. KilledIffReported'
  <2>1. \A k \in 1..Len(log)' : IsReady(k)' => k \in 1..Len(log) /\ IsReady(k)
    BY <1>2, <1>3 DEF IsReady
  <2>2. \A k \in 1..Len(log) : IsReady(k) => k \in 1..Len(log)' /\ IsReady(k)'
    BY <1>2 DEF IsReady
  <2>3. \A k \in 1..Len(log) : slot[log[k].by] = k /\ pc[log[k].by] = "signal"
          => slot'[log[k].by] = k /\ pc'[log[k].by] = "signal"
    BY DEF TypeOK, Record
  <2> QED BY <1>2, <2>1, <2>2, <2>3, SMTT(30) DEF KilledIffReported
<1> QED BY <1>4, <1>5, <1>6, <1>7, <1>8, <1>9, <1>10, <1>11, <1>12

\* Storing into one record leaves the others as they are.
LEMMA StoreInRecord ==
  ASSUME TypeOK, NEW k \in 1..Len(log), NEW r \in Record,
         log' = [log EXCEPT ![k] = r]
  PROVE  /\ log' \in Seq(Record)
         /\ Len(log') = Len(log)
         /\ log'[k] = r
         /\ \A j \in 1..Len(log) : j # k => log'[j] = log[j]
BY DEF TypeOK

\* A thread that leaves the log alone and lets go of nothing: a refused
\* reservation, a return to user mode, a death.
LEMMA IInvLeave ==
  ASSUME IInv, NEW t \in Threads,
         ReserveFails(t) \/ Return(t) \/ Die(t)
  PROVE  IInv'
<1> USE DEF IInv
<1>1. /\ pc[t] \in {"reserve", "exit", "user"}
      /\ \E p \in {"exit", "user", "dead"} : pc' = [pc EXCEPT ![t] = p]
      /\ UNCHANGED <<log, slot, call, alive, calls, cons, printed, tracer, link>>
  BY DEF ReserveFails, Return, Die, progVars, consVars
<1>2. TypeOK'
  BY <1>1 DEF TypeOK
<1>3. EmittersAreTargets'
  BY <1>1 DEF EmittersAreTargets, IsTarget, Holding, TypeOK
<1>4. OwnersHoldBusy' /\ SignalAfterReport'
  BY <1>1 DEF OwnersHoldBusy, SignalAfterReport, Holding, TypeOK
<1>5. BusyHaveOwner'
  BY <1>1 DEF BusyHaveOwner, Holding, TypeOK
<1>6. ReleasedAreDone'
  BY <1>1 DEF ReleasedAreDone
<1>7. ReadyAreFilled'
  BY <1>1 DEF ReadyAreFilled, TypeOK
<1>8. LinesMatchRecords' /\ PrintsReleasedInOrder'
  BY <1>1 DEF LinesMatchRecords, PrintsReleasedInOrder, IsReady, Released
<1>9. KilledIffReported'
  BY <1>1 DEF KilledIffReported, IsReady, TypeOK, Record
<1> QED BY <1>2, <1>3, <1>4, <1>5, <1>6, <1>7, <1>8, <1>9

\* The signal comes after the report and takes the thread's own process.
LEMMA IInvSendSignal ==
  ASSUME IInv, NEW t \in Threads, SendSignal(t)
  PROVE  IInv'
<1> USE DEF IInv, SendSignal, consVars
<1>1. TypeOK'
  BY DEF TypeOK
<1>2. EmittersAreTargets'
  BY DEF EmittersAreTargets, IsTarget, Holding, TypeOK
<1>3. OwnersHoldBusy' /\ SignalAfterReport'
  BY DEF OwnersHoldBusy, SignalAfterReport, Holding, TypeOK
<1>4. BusyHaveOwner'
  BY DEF BusyHaveOwner, Holding, TypeOK
<1>5. ReleasedAreDone'
  BY DEF ReleasedAreDone
<1>6. ReadyAreFilled'
  BY DEF ReadyAreFilled, TypeOK
<1>7. LinesMatchRecords' /\ PrintsReleasedInOrder'
  BY DEF LinesMatchRecords, PrintsReleasedInOrder, IsReady, Released
<1>8. KilledIffReported'
  <2>1. \E k \in 1..Len(log) :
          IsReady(k) /\ log[k].made.sys = "ptrace" /\ ProcOf[log[k].by] = ProcOf[t]
    BY DEF SignalAfterReport, IsReady
  <2>2. \A p \in Procs \ alive' :
          \E k \in 1..Len(log) :
            IsReady(k) /\ log[k].made.sys = "ptrace" /\ ProcOf[log[k].by] = p
    BY <2>1 DEF KilledIffReported
  <2>3. \A k \in 1..Len(log) : IsReady(k) /\ log[k].made.sys = "ptrace" =>
          \/ ProcOf[log[k].by] \notin alive'
          \/ slot[log[k].by] = k /\ pc'[log[k].by] = "signal"
    BY SMTT(30) DEF KilledIffReported, TypeOK, Record
  <2> QED BY <2>2, <2>3 DEF KilledIffReported, IsReady
<1> QED BY <1>1, <1>2, <1>3, <1>4, <1>5, <1>6, <1>7, <1>8

\* The stores of a case go into the record its thread owns.
LEMMA IInvFill ==
  ASSUME IInv, NEW t \in Threads, Fill(t)
  PROVE  IInv'
<1> USE DEF IInv, progVars, consVars
<1> DEFINE k == slot[t]
<1>1. /\ k \in 1..Len(log)
      /\ log[k].state = "busy"
      /\ log[k].by = t
      /\ log[k].made = call[t]
      /\ IsTarget(t)
      /\ Emits(call[t])
  BY DEF Fill, OwnersHoldBusy, EmittersAreTargets, Holding
<1>2. PICK faults \in SUBSET (DOMAIN StringArgs(call[t].sys)) :
        IF faults # {} /\ call[t].sys \in DiscardsOnFault
          THEN pc' = [pc EXCEPT ![t] = "discard"] /\ UNCHANGED log
          ELSE /\ pc' = [pc EXCEPT ![t] = "submit"]
               /\ log' = [log EXCEPT ![slot[t]].ev = EventFor(call[t], t, faults)]
  BY DEF Fill
<1>3. /\ pc[t] = "fill"
      /\ UNCHANGED <<slot, call, alive, calls, cons, printed, tracer, link>>
  BY DEF Fill
<1>4. CASE pc' = [pc EXCEPT ![t] = "discard"] /\ UNCHANGED log
  <2>1. TypeOK'
    BY <1>3, <1>4 DEF TypeOK
  <2>2. EmittersAreTargets' /\ OwnersHoldBusy' /\ SignalAfterReport'
    BY <1>3, <1>4 DEF EmittersAreTargets, OwnersHoldBusy, SignalAfterReport,
                      IsTarget, Holding, TypeOK
  <2>3. BusyHaveOwner' /\ ReleasedAreDone'
    BY <1>3, <1>4 DEF BusyHaveOwner, ReleasedAreDone, Holding, TypeOK
  <2>4. ReadyAreFilled'
    BY <1>3, <1>4 DEF ReadyAreFilled, TypeOK
  <2>5. LinesMatchRecords' /\ PrintsReleasedInOrder'
    BY <1>3, <1>4 DEF LinesMatchRecords, PrintsReleasedInOrder, IsReady, Released
  <2>6. KilledIffReported'
    BY <1>3, <1>4 DEF KilledIffReported, IsReady, TypeOK, Record
  <2> QED BY <2>1, <2>2, <2>3, <2>4, <2>5, <2>6
<1>5. CASE /\ pc' = [pc EXCEPT ![t] = "submit"]
           /\ log' = [log EXCEPT ![k].ev = EventFor(call[t], t, faults)]
  <2> DEFINE r == [log[k] EXCEPT !.ev = EventFor(call[t], t, faults)]
  <2>1. call[t] \in Calls /\ call[t].sys \in Reported
    BY <1>1, EmittedIsMade
  <2>2. EventFor(call[t], t, faults) \in Event
    BY <2>1, EventForType
  <2>3. /\ r \in Record
        /\ r.state = "busy" /\ r.by = t /\ r.made = call[t]
        /\ r.ev = EventFor(call[t], t, faults)
    <3>1. log[k] \in Record
      BY <1>1 DEF TypeOK
    <3> QED BY <1>1, <2>2, <3>1 DEF Record
  <2>4. log' = [log EXCEPT ![k] = r]
    BY <1>5
  <2> HIDE DEF r
  <2>5. /\ log' \in Seq(Record) /\ Len(log') = Len(log) /\ log'[k] = r
        /\ \A j \in 1..Len(log) : j # k => log'[j] = log[j]
    BY <1>1, <2>3, <2>4, StoreInRecord
  <2>6. TypeOK'
    BY <1>3, <1>5, <2>5 DEF TypeOK
  <2>7. EmittersAreTargets'
    BY <1>1, <1>3, <1>5 DEF EmittersAreTargets, IsTarget, Holding, TypeOK
  <2>8. OwnersHoldBusy'
    BY <1>1, <1>3, <1>5, <2>3, <2>5 DEF OwnersHoldBusy, Holding, TypeOK
  <2>9. SignalAfterReport'
    BY <1>1, <1>3, <1>5, <2>5 DEF SignalAfterReport, TypeOK
  <2>10. BusyHaveOwner'
    BY <1>1, <1>3, <1>5, <2>3, <2>5 DEF BusyHaveOwner, Holding, TypeOK
  <2>11. ReleasedAreDone'
    <3>1. \A j \in 1..cons : j \in 1..Len(log) /\ j # k
      BY <1>1 DEF ReleasedAreDone, TypeOK
    <3>2. tracer = "handled" => cons + 1 \in 1..Len(log) /\ cons + 1 # k
      BY <1>1 DEF ReleasedAreDone, TypeOK
    <3> QED BY <1>3, <2>5, <3>1, <3>2 DEF ReleasedAreDone
  <2>12. IsFilled(r)
    <3>1. faults \in SUBSET (1..3)
      BY DEF StringArgs
    <3> QED BY <1>1, <2>3, <3>1 DEF IsFilled, IsTarget
  <2>13. ReadyAreFilled'
    <3>1. \A j \in 1..Len(log)' : log'[j].state = "ready" => IsFilled(log'[j])
      BY <2>3, <2>5 DEF ReadyAreFilled
    <3>2. \A u \in Threads : pc'[u] = "submit" => IsFilled(log'[slot'[u]])
      <4> SUFFICES ASSUME NEW u \in Threads, pc'[u] = "submit"
                   PROVE  IsFilled(log'[slot'[u]])
        OBVIOUS
      <4>1. CASE u = t
        BY <1>3, <2>5, <2>12, <4>1
      <4>2. CASE u # t
        <5>1. pc[u] = "submit" /\ slot[u] \in 1..Len(log) /\ slot[u] # k
          BY <1>1, <1>5, <4>2 DEF OwnersHoldBusy, Holding, TypeOK
        <5> QED BY <1>3, <2>5, <5>1 DEF ReadyAreFilled
      <4> QED BY <4>1, <4>2
    <3> QED BY <3>1, <3>2 DEF ReadyAreFilled, IsFilled
  <2>14. \A j : IsReady(j)' <=> IsReady(j)
    BY <1>1, <2>3, <2>5 DEF IsReady
  <2>15. \A j \in 1..Len(log) : IsReady(j) => log'[j] = log[j]
    BY <1>1, <2>5 DEF IsReady
  <2>16. LinesMatchRecords'
    BY <1>3, <2>5, <2>14, <2>15 DEF LinesMatchRecords, IsReady
  <2>17. PrintsReleasedInOrder'
    BY <1>3, <2>14 DEF PrintsReleasedInOrder, Released
  <2>18. KilledIffReported'
    <3>1. \A j \in 1..Len(log) : slot[log[j].by] = j /\ pc[log[j].by] = "signal"
            => slot'[log[j].by] = j /\ pc'[log[j].by] = "signal"
      BY <1>3, <1>5 DEF TypeOK, Record
    <3> QED BY <1>3, <2>5, <2>14, <2>15, <3>1 DEF KilledIffReported
  <2> QED BY <2>6, <2>7, <2>8, <2>9, <2>10, <2>11, <2>13, <2>16, <2>17, <2>18
<1> QED BY <1>2, <1>4, <1>5

\* Handing a record over, by a submit or a discard: only that record changes,
\* and the consumer has not passed it.
LEMMA IInvHandOver ==
  ASSUME IInv, NEW t \in Threads, Submit(t) \/ Discard(t)
  PROVE  IInv'
<1> USE DEF IInv
<1> DEFINE k == slot[t]
           st == IF Submit(t) THEN "ready" ELSE "discarded"
           r  == [log[k] EXCEPT !.state = st]
<1>1. /\ k \in 1..Len(log)
      /\ log[k].state = "busy"
      /\ log[k].by = t
      /\ log[k].made = call[t]
      /\ pc[t] \in {"submit", "discard"}
  BY DEF Submit, Discard, OwnersHoldBusy, Holding
<1>2. /\ log' = [log EXCEPT ![k] = r]
      /\ UNCHANGED <<slot, call, alive, calls, cons, printed, tracer, link>>
      /\ st = "ready" => pc[t] = "submit"
      /\ \E p \in {"signal", "exit"} :
           /\ pc' = [pc EXCEPT ![t] = p]
           /\ p = "signal" <=> st = "ready" /\ call[t].sys = "ptrace"
  BY DEF Submit, Discard, progVars, consVars
<1>3. PICK p \in {"signal", "exit"} :
        /\ pc' = [pc EXCEPT ![t] = p]
        /\ p = "signal" <=> st = "ready" /\ call[t].sys = "ptrace"
  BY <1>2
<1>4. /\ r \in Record
      /\ r.state = st /\ r.by = t /\ r.made = call[t] /\ r.ev = log[k].ev
  <2>1. log[k] \in Record
    BY <1>1 DEF TypeOK
  <2> QED BY <1>1, <2>1 DEF Record
<1>5. st \in {"ready", "discarded"}
  OBVIOUS
<1> HIDE DEF r, st
<1>6. /\ log' \in Seq(Record) /\ Len(log') = Len(log) /\ log'[k] = r
      /\ \A j \in 1..Len(log) : j # k => log'[j] = log[j]
  BY <1>1, <1>2, <1>4, StoreInRecord
<1>7. TypeOK'
  BY <1>2, <1>3, <1>6 DEF TypeOK
<1>8. EmittersAreTargets'
  BY <1>2, <1>3 DEF EmittersAreTargets, IsTarget, Holding, TypeOK
<1>9. OwnersHoldBusy'
  <2> SUFFICES ASSUME NEW u \in Threads, pc'[u] \in Holding
               PROVE  /\ slot'[u] \in 1..Len(log')
                      /\ log'[slot'[u]].state = "busy"
                      /\ log'[slot'[u]].by = u
                      /\ log'[slot'[u]].made = call'[u]
    BY DEF OwnersHoldBusy
  <2>1. u # t /\ pc[u] \in Holding
    BY <1>3 DEF Holding, TypeOK
  <2>2. slot[u] \in 1..Len(log) /\ slot[u] # k
    BY <1>1, <2>1 DEF OwnersHoldBusy
  <2> QED BY <1>2, <1>6, <2>1, <2>2 DEF OwnersHoldBusy
<1>10. SignalAfterReport'
  <2> SUFFICES ASSUME NEW u \in Threads, pc'[u] = "signal"
               PROVE  /\ slot'[u] \in 1..Len(log')
                      /\ log'[slot'[u]].state = "ready"
                      /\ log'[slot'[u]].by = u
                      /\ log'[slot'[u]].made.sys = "ptrace"
    BY DEF SignalAfterReport
  <2>1. CASE u = t
    BY <1>1, <1>2, <1>3, <1>4, <1>6, <2>1 DEF TypeOK
  <2>2. CASE u # t
    <3>1. pc[u] = "signal"
      BY <1>3, <2>2 DEF TypeOK
    <3>2. slot[u] \in 1..Len(log) /\ slot[u] # k
      BY <1>1, <3>1 DEF SignalAfterReport
    <3> QED BY <1>2, <1>6, <3>1, <3>2 DEF SignalAfterReport
  <2> QED BY <2>1, <2>2
<1>11. BusyHaveOwner'
  <2> SUFFICES ASSUME NEW j \in 1..Len(log'), log'[j].state = "busy"
               PROVE  slot'[log'[j].by] = j /\ pc'[log'[j].by] \in Holding
    BY DEF BusyHaveOwner
  <2>1. j \in 1..Len(log) /\ j # k /\ log'[j] = log[j]
    BY <1>4, <1>5, <1>6
  <2>2. slot[log[j].by] = j /\ pc[log[j].by] \in Holding
    BY <2>1 DEF BusyHaveOwner
  <2>3. log[j].by \in Threads /\ log[j].by # t
    <3>1. log[j] \in Record
      BY <2>1 DEF TypeOK
    <3> QED BY <2>1, <2>2, <3>1 DEF Record
  <2> QED BY <1>2, <1>3, <2>1, <2>2, <2>3 DEF TypeOK
<1>12. \A j \in 1..Released : j \in 1..Len(log) /\ j # k
  BY <1>1 DEF Released, ReleasedAreDone, TypeOK
<1>13. ReleasedAreDone'
  <2>1. \A j \in 1..cons : j \in 1..Len(log) /\ j # k
    BY <1>1 DEF ReleasedAreDone, TypeOK
  <2>2. tracer = "handled" => cons + 1 \in 1..Len(log) /\ cons + 1 # k
    BY <1>1 DEF ReleasedAreDone, TypeOK
  <2> QED BY <1>2, <1>6, <2>1, <2>2 DEF ReleasedAreDone
<1>14. ReadyAreFilled'
  <2>1. st = "ready" => IsFilled(r)
    BY <1>2, <1>4, <1>1, SMTT(30) DEF ReadyAreFilled, IsFilled
  <2>2. \A j \in 1..Len(log)' : log'[j].state = "ready" => IsFilled(log'[j])
    BY <1>4, <1>6, <2>1 DEF ReadyAreFilled
  <2>3. \A u \in Threads : pc'[u] = "submit" => IsFilled(log'[slot'[u]])
    <3> SUFFICES ASSUME NEW u \in Threads, pc'[u] = "submit"
                 PROVE  IsFilled(log'[slot'[u]])
      OBVIOUS
    <3>1. u # t /\ pc[u] = "submit"
      BY <1>3 DEF TypeOK
    <3>2. slot[u] \in 1..Len(log) /\ slot[u] # k
      BY <1>1, <3>1 DEF OwnersHoldBusy, Holding
    <3> QED BY <1>2, <1>6, <3>1, <3>2 DEF ReadyAreFilled
  <2> QED BY <2>2, <2>3 DEF ReadyAreFilled, IsFilled
<1>15. \A j : j # k => (IsReady(j)' <=> IsReady(j))
  BY <1>6 DEF IsReady
<1>16. ~IsReady(k)
  BY <1>1 DEF IsReady
<1>17. LinesMatchRecords'
  BY <1>2, <1>6, <1>15, <1>16 DEF LinesMatchRecords, IsReady
<1>18. PrintsReleasedInOrder'
  <2>1. {j \in 1..Released : IsReady(j)}' = {j \in 1..Released : IsReady(j)}
    BY <1>2, <1>12, <1>15 DEF Released
  <2> QED BY <1>2, <2>1 DEF PrintsReleasedInOrder
<1>19. KilledIffReported'
  <2>1. \A j \in 1..Len(log) : IsReady(j) => j # k /\ log'[j] = log[j]
    BY <1>6, <1>16
  <2>2. ASSUME NEW j \in 1..Len(log), IsReady(j)', log'[j].made.sys = "ptrace"
        PROVE  \/ ProcOf[log'[j].by] \notin alive
               \/ slot[log'[j].by] = j /\ pc'[log'[j].by] = "signal"
    <3>1. CASE j = k
      BY <1>1, <1>3, <1>4, <1>6, <2>2, <3>1 DEF IsReady, TypeOK
    <3>2. CASE j # k
      <4>1. IsReady(j) /\ log'[j] = log[j]
        BY <1>6, <1>15, <2>2, <3>2
      <4>2. log[j].by = t => pc[t] # "signal"
        BY <1>1
      <4>3. \/ ProcOf[log[j].by] \notin alive
            \/ slot[log[j].by] = j /\ pc[log[j].by] = "signal"
        BY <2>2, <4>1 DEF KilledIffReported
      <4>4. log[j].by \in Threads
        <5>1. log[j] \in Record
          BY DEF TypeOK
        <5> QED BY <5>1 DEF Record
      <4> QED BY <1>3, <4>1, <4>2, <4>3, <4>4 DEF TypeOK
    <3> QED BY <3>1, <3>2
  <2>3. \A q \in Procs \ alive :
          \E j \in 1..Len(log) :
            IsReady(j)' /\ log'[j].made.sys = "ptrace" /\ ProcOf[log'[j].by] = q
    BY <1>15, <1>16, <2>1 DEF KilledIffReported
  <2> QED BY <1>2, <1>6, <2>2, <2>3 DEF KilledIffReported
<1> QED BY <1>7, <1>8, <1>9, <1>10, <1>11, <1>13, <1>14, <1>17, <1>18, <1>19

\* The consumer starts, stops or leaves a discarded record behind, or the
\* process attaches, detaches or ends: nothing is printed and no ready record is
\* passed.
LEMMA IInvPass ==
  ASSUME IInv,
         \/ StartTracer \/ Release \/ SkipDiscarded \/ PollFails
         \/ Attach \/ Detach \/ Exit
  PROVE  IInv'
<1> USE DEF IInv
<1>1. /\ UNCHANGED <<log, pc, call, slot, alive, calls, printed>>
      /\ tracer' \in {"start", "poll", "handled", "stopped", "exited"}
      /\ link' \in {"none", "attached", "detached"}
      /\ IF tracer = "handled" THEN cons' = cons + 1 \/ UNCHANGED <<cons, tracer>>
                               ELSE tracer' # "handled"
      /\ tracer' = "handled" => UNCHANGED <<cons, tracer>>
      /\ cons' \in {cons, cons + 1}
      /\ cons' = cons + 1 => cons < Len(log) /\ log[cons + 1].state # "busy"
      /\ tracer = "poll" /\ cons' = cons + 1 => log[cons + 1].state # "ready"
      /\ cons' = cons + 1 => tracer \in {"poll", "handled"}
  BY DEF StartTracer, Release, SkipDiscarded, PollFails, Attach, Detach, Exit,
         Released, prodVars, ReleasedAreDone, TypeOK
<1>2. TypeOK'
  BY <1>1 DEF TypeOK
<1>3. EmittersAreTargets' /\ OwnersHoldBusy' /\ SignalAfterReport' /\ BusyHaveOwner'
  BY <1>1 DEF EmittersAreTargets, OwnersHoldBusy, SignalAfterReport,
              BusyHaveOwner, IsTarget
<1>4. ReadyAreFilled' /\ LinesMatchRecords' /\ KilledIffReported'
  BY <1>1 DEF ReadyAreFilled, LinesMatchRecords, KilledIffReported, IsReady
<1>5. ReleasedAreDone'
  BY <1>1 DEF ReleasedAreDone, TypeOK
<1>6. PrintsReleasedInOrder'
  <2>1. {k \in 1..Released : IsReady(k)}' = {k \in 1..Released : IsReady(k)}
    BY <1>1 DEF Released, IsReady, TypeOK
  <2> QED BY <1>1, <2>1 DEF PrintsReleasedInOrder
<1> QED BY <1>2, <1>3, <1>4, <1>5, <1>6

\* The handler prints the oldest record, which is ready.
LEMMA IInvHandleEvent ==
  ASSUME IInv, HandleEvent
  PROVE  IInv'
<1> USE DEF IInv
<1> DEFINE line == PrintedLine(cons + 1, log[cons + 1].ev)
<1>1. /\ UNCHANGED <<log, pc, call, slot, alive, calls, cons, link>>
      /\ tracer = "poll" /\ tracer' = "handled"
      /\ cons \in Nat /\ cons < Len(log)
      /\ log[cons + 1].state = "ready"
      /\ printed' = Append(printed, line)
  BY DEF HandleEvent, prodVars, TypeOK
<1>2. line \in Line /\ line.pos = cons + 1
  <2>1. log[cons + 1] \in Record
    BY <1>1 DEF TypeOK
  <2>2. log[cons + 1].ev \in Event
    BY <2>1 DEF Record
  <2> QED BY <1>1, <2>2, PrintedLineType DEF PrintedLine
<1>3. line = PrintedLine(line.pos, log[line.pos].ev)
  BY <1>2
<1> HIDE DEF line
<1>4. /\ printed' \in Seq(Line)
      /\ Len(printed') = Len(printed) + 1
      /\ Len(printed) \in Nat
      /\ printed'[Len(printed) + 1] = line
      /\ \A i \in 1..Len(printed) : printed'[i] = printed[i]
  BY <1>1, <1>2 DEF TypeOK
<1>5. TypeOK'
  BY <1>1, <1>4 DEF TypeOK
<1>6. EmittersAreTargets' /\ OwnersHoldBusy' /\ SignalAfterReport' /\ BusyHaveOwner'
  BY <1>1 DEF EmittersAreTargets, OwnersHoldBusy, SignalAfterReport,
              BusyHaveOwner, IsTarget
<1>7. ReadyAreFilled' /\ KilledIffReported'
  BY <1>1 DEF ReadyAreFilled, KilledIffReported, IsReady
<1>8. ReleasedAreDone'
  BY <1>1 DEF ReleasedAreDone
<1>9. IsReady(cons + 1)
  BY <1>1 DEF IsReady, TypeOK
<1>10. LinesMatchRecords'
  BY <1>1, <1>2, <1>3, <1>4, <1>9 DEF LinesMatchRecords, IsReady
<1>11. PrintsReleasedInOrder'
  <2>1. \A i \in 1..Len(printed) : printed[i].pos \in 1..cons
    BY <1>1 DEF PrintsReleasedInOrder, Released
  <2>2. \A i, j \in 1..Len(printed') : i < j => printed'[i].pos < printed'[j].pos
    <3> SUFFICES ASSUME NEW i \in 1..Len(printed'), NEW j \in 1..Len(printed'), i < j
                 PROVE  printed'[i].pos < printed'[j].pos
      OBVIOUS
    <3>1. CASE j \in 1..Len(printed)
      BY <1>4, <3>1 DEF PrintsReleasedInOrder
    <3>2. CASE j = Len(printed) + 1
      BY <1>1, <1>2, <1>4, <2>1, <3>2
    <3> QED BY <1>4, <3>1, <3>2
  <2>3. {printed'[i].pos : i \in 1..Len(printed')}
          = {printed[i].pos : i \in 1..Len(printed)} \cup {cons + 1}
    BY <1>2, <1>4
  <2>4. {k \in 1..Released' : IsReady(k)'}
          = {k \in 1..Released : IsReady(k)} \cup {cons + 1}
    BY <1>1, <1>9 DEF Released, IsReady
  <2> QED BY <2>2, <2>3, <2>4 DEF PrintsReleasedInOrder
<1> QED BY <1>5, <1>6, <1>7, <1>8, <1>10, <1>11

\* Nothing changes, nothing breaks.
LEMMA IInvStutter == ASSUME IInv, UNCHANGED vars PROVE IInv'
<1> USE DEF IInv, vars
<1>1. TypeOK'
  BY DEF TypeOK
<1>2. EmittersAreTargets' /\ OwnersHoldBusy' /\ SignalAfterReport' /\ BusyHaveOwner'
  BY DEF EmittersAreTargets, OwnersHoldBusy, SignalAfterReport, BusyHaveOwner, IsTarget
<1>3. ReleasedAreDone' /\ ReadyAreFilled' /\ LinesMatchRecords'
  BY DEF ReleasedAreDone, ReadyAreFilled, LinesMatchRecords, IsReady
<1>4. PrintsReleasedInOrder' /\ KilledIffReported'
  BY DEF PrintsReleasedInOrder, KilledIffReported, Released, IsReady
<1> QED BY <1>1, <1>2, <1>3, <1>4

\* The inductive invariant holds in every reachable state.
THEOREM Invariance == Spec => []IInv
<1>1. Init => IInv
  BY IInvInit
<1>2. IInv /\ [Next]_vars => IInv'
  <2> SUFFICES ASSUME IInv, [Next]_vars PROVE IInv'
    OBVIOUS
  <2>1. ASSUME NEW t \in Threads, Program(t) \/ Die(t) PROVE IInv'
    BY <2>1, IInvReserve, IInvLeave, IInvFill, IInvHandOver, IInvSendSignal DEF Program
  <2>2. ASSUME NEW t \in Threads, NEW c \in Calls, Enter(t, c) PROVE IInv'
    BY <2>2, IInvEnter
  <2>3. ASSUME Consume \/ StartTracer \/ PollFails \/ Attach \/ Detach \/ Exit PROVE IInv'
    BY <2>3, IInvPass, IInvHandleEvent DEF Consume
  <2>4. ASSUME UNCHANGED vars PROVE IInv'
    BY <2>4, IInvStutter
  <2> QED BY <2>1, <2>2, <2>3, <2>4 DEF Next
<1> QED BY <1>1, <1>2, PTL DEF Spec

-----------------------------------------------------------------------------
(***************************************************************************)
(* The theorems.                                                           *)
(***************************************************************************)

\* Every variable keeps its type.
THEOREM TypeCorrect == Spec => []TypeOK
<1>1. IInv => TypeOK
  BY DEF IInv
<1> QED BY <1>1, Invariance, PTL

\* Records are printed in order, once each, and none that was submitted is
\* passed over, whatever the order in which the CPUs submit.
THEOREM InOrder == Spec => []PrintsReleasedInOrder
<1>1. IInv => PrintsReleasedInOrder
  BY DEF IInv
<1> QED BY <1>1, Invariance, PTL

\* A busy record is always in the hands of one running program.
THEOREM BusyHeld == Spec => []BusyRecordsHeld
<1>1. IInv => BusyRecordsHeld
  <2> SUFFICES ASSUME IInv, NEW k \in 1..Len(log)
               PROVE  Holders(k) = IF log[k].state = "busy" THEN {log[k].by} ELSE {}
    BY DEF BusyRecordsHeld
  <2>1. log[k] \in Record
    BY DEF IInv, TypeOK
  <2>2. log[k].by \in Threads
    BY <2>1 DEF Record
  <2>3. \A t \in Holders(k) : t \in Threads /\ log[k].state = "busy" /\ log[k].by = t
    BY DEF Holders, Holding, IInv, OwnersHoldBusy
  <2>4. log[k].state = "busy" => log[k].by \in Holders(k)
    BY <2>2 DEF Holders, Holding, IInv, BusyHaveOwner
  <2> QED BY <2>3, <2>4
<1> QED BY <1>1, Invariance, PTL

\* The report of a ptrace call and the signal go together.
THEOREM KillAndReport == Spec => []KilledIffReported
<1>1. IInv => KilledIffReported
  BY DEF IInv
<1> QED BY <1>1, Invariance, PTL

\* A report is followed by no other of the same thread: Submit is the last step but two
\* of its program, and the signal leaves none to Enter.
LEMMA ReporterStep ==
  ASSUME IInv, HeldIsLast, ReporterNeverReturns, [Next]_vars
  PROVE  HeldIsLast' /\ ReporterNeverReturns'
<1> USE DEF HeldIsLast, ReporterNeverReturns, IsReady, Holding
<1>1. /\ log \in Seq(Record) /\ Len(log) \in Nat
      /\ pc \in [Threads -> {"user", "reserve", "fill", "submit", "discard",
                             "signal", "exit", "dead"}]
      /\ slot \in [Threads -> 0..Len(log)]
  BY DEF IInv, TypeOK
<1>2. \A k \in 1..Len(log) : log[k] \in Record /\ log[k].by \in Threads
  <2> TAKE k \in 1..Len(log)
  <2>1. log[k] \in Record
    BY <1>1
  <2> QED BY <2>1 DEF Record
<1>3. CASE UNCHANGED <<log, pc, slot>>
  BY <1>3
<1>4. ASSUME NEW t \in Threads, Reserve(t)
      PROVE  HeldIsLast' /\ ReporterNeverReturns'
  <2>1. /\ Len(log') = Len(log) + 1
        /\ \A k \in 1..Len(log) : log'[k] = log[k]
        /\ log'[Len(log) + 1].by = t /\ log'[Len(log) + 1].state = "busy"
    BY <1>1, <1>4 DEF Reserve
  <2>2. /\ slot'[t] = Len(log) + 1
        /\ pc[t] = "reserve" /\ pc'[t] = "fill"
        /\ \A u \in Threads \ {t} : slot'[u] = slot[u] /\ pc'[u] = pc[u]
    BY <1>1, <1>4 DEF Reserve
  <2>3. HeldIsLast'
    <3> SUFFICES ASSUME NEW u \in Threads, pc'[u] \in Holding,
                        NEW j \in (slot'[u] + 1)..Len(log')
                 PROVE  log'[j].by # u
      OBVIOUS
    <3>1. CASE u = t
      BY <3>1, <1>1, <2>1, <2>2
    <3>2. CASE u # t
      BY <3>2, <1>1, <2>1, <2>2
    <3> QED BY <3>1, <3>2
  <2>4. ReporterNeverReturns'
    <3> SUFFICES ASSUME NEW k \in 1..Len(log'), log'[k].state = "ready",
                        log'[k].made.sys = "ptrace"
                 PROVE  /\ pc'[log'[k].by] \in {"signal", "exit", "dead"}
                        /\ \A j \in (k + 1)..Len(log') : log'[j].by # log'[k].by
      OBVIOUS
    <3>1. k \in 1..Len(log) /\ log'[k] = log[k]
      BY <1>1, <2>1
    <3>2. log[k].by \in Threads \ {t}
      BY <3>1, <1>2, <2>2
    <3>3. /\ pc[log[k].by] \in {"signal", "exit", "dead"}
          /\ \A j \in (k + 1)..Len(log) : log[j].by # log[k].by
      BY <3>1
    <3>4. ASSUME NEW j \in (k + 1)..Len(log') PROVE log'[j].by # log[k].by
      <4>1. Len(log') = Len(log) + 1 /\ Len(log) \in Nat /\ k \in Nat
        BY <1>1, <2>1, <3>1
      <4>2. CASE j = Len(log) + 1
        BY <4>2, <2>1, <3>2
      <4>3. CASE j # Len(log) + 1
        <5>1. j \in (k + 1)..Len(log) /\ j \in 1..Len(log)
          BY <4>1, <4>3
        <5>2. log'[j] = log[j]
          BY <5>1, <2>1
        <5> QED BY <5>1, <5>2, <3>3
      <4> QED BY <4>2, <4>3
    <3> QED BY <2>2, <3>1, <3>2, <3>3, <3>4
  <2> QED BY <2>3, <2>4
<1>5. ASSUME NEW t \in Threads, Fill(t) \/ Submit(t) \/ Discard(t)
      PROVE  HeldIsLast' /\ ReporterNeverReturns'
  <2>1. /\ pc[t] \in Holding /\ slot[t] \in 1..Len(log) /\ log[slot[t]].by = t
        /\ log[slot[t]].state = "busy" /\ log[slot[t]].made = call[t]
    BY <1>5 DEF Fill, Submit, Discard, IInv, OwnersHoldBusy
  <2>2. slot' = slot /\ \A u \in Threads \ {t} : pc'[u] = pc[u]
    BY <1>1, <1>5 DEF Fill, Submit, Discard
  <2> DEFINE Kept ==
        /\ Len(log') = Len(log)
        /\ \A k \in 1..Len(log) : log'[k].by = log[k].by /\ log'[k].made = log[k].made
        /\ \A k \in 1..Len(log) : k # slot[t] => log'[k] = log[k]
        /\ Fill(t) => log'[slot[t]].state = "busy"
        /\ Discard(t) => log'[slot[t]].state = "discarded"
  <2>3. Kept
    <3>1. CASE Fill(t) /\ log' = log
      BY <3>1, <2>1 DEF Fill, Discard
    <3>2. ASSUME Fill(t), NEW e, log' = [log EXCEPT ![slot[t]].ev = e]
          PROVE  Kept
      <4> DEFINE r == [log[slot[t]] EXCEPT !.ev = e]
      <4>1. r.by = log[slot[t]].by /\ r.made = log[slot[t]].made /\ r.state = "busy"
        BY <1>2, <2>1 DEF Record
      <4>2. log' = [log EXCEPT ![slot[t]] = r]
        BY <3>2
      <4>3. ~ Discard(t)
        BY <3>2 DEF Fill, Discard
      <4> HIDE DEF r
      <4> QED BY <1>1, <2>1, <4>1, <4>2, <4>3
    <3>3. ASSUME NEW st \in {"ready", "discarded"}, ~ Fill(t),
                 Discard(t) => st = "discarded", log' = [log EXCEPT ![slot[t]].state = st]
          PROVE  Kept
      <4> DEFINE r == [log[slot[t]] EXCEPT !.state = st]
      <4>1. r.by = log[slot[t]].by /\ r.made = log[slot[t]].made /\ r.state = st
        BY <1>2, <2>1 DEF Record
      <4>2. log' = [log EXCEPT ![slot[t]] = r]
        BY <3>3
      <4> HIDE DEF r
      <4> QED BY <1>1, <2>1, <3>3, <4>1, <4>2
    <3>4. Fill(t) => log' = log \/ \E e : log' = [log EXCEPT ![slot[t]].ev = e]
      BY DEF Fill
    <3>5. Submit(t) => ~ Fill(t) /\ ~ Discard(t)
                         /\ log' = [log EXCEPT ![slot[t]].state = "ready"]
      BY DEF Fill, Submit, Discard
    <3>6. Discard(t) => ~ Fill(t) /\ log' = [log EXCEPT ![slot[t]].state = "discarded"]
      BY DEF Fill, Discard
    <3> QED BY <1>5, <3>1, <3>2, <3>3, <3>4, <3>5, <3>6
  <2>4. ~ Discard(t) /\ ~ Fill(t) /\ log[slot[t]].made.sys = "ptrace"
          => pc'[t] = "signal"
    BY <1>1, <1>5, <2>1 DEF Submit
  <2>5. HeldIsLast'
    <3> SUFFICES ASSUME NEW u \in Threads, pc'[u] \in Holding,
                        NEW j \in (slot[u] + 1)..Len(log)
                 PROVE  log[j].by # u
      BY <1>1, <2>2, <2>3
    <3> QED BY <2>1, <2>2
  <2>6. ReporterNeverReturns'
    <3> SUFFICES ASSUME NEW k \in 1..Len(log), log'[k].state = "ready",
                        log[k].made.sys = "ptrace"
                 PROVE  /\ pc'[log[k].by] \in {"signal", "exit", "dead"}
                        /\ \A j \in (k + 1)..Len(log) : log[j].by # log[k].by
      BY <1>1, <2>3
    <3>1. CASE k = slot[t]
      BY <3>1, <2>1, <2>3, <2>4
    <3>2. CASE k # slot[t]
      <4>1. log'[k] = log[k]
        BY <3>2, <2>3
      <4>2. pc[log[k].by] \in {"signal", "exit", "dead"} /\ log[k].by \in Threads
        BY <4>1, <1>2
      <4>3. log[k].by # t
        BY <4>2, <2>1
      <4> QED BY <4>1, <4>2, <4>3, <2>2
    <3> QED BY <3>1, <3>2
  <2> QED BY <2>5, <2>6
<1>6. ASSUME NEW t \in Threads, ReserveFails(t) \/ SendSignal(t) \/ Return(t) \/ Die(t)
      PROVE  HeldIsLast' /\ ReporterNeverReturns'
  <2>1. UNCHANGED <<log, slot>> /\ \A u \in Threads \ {t} : pc'[u] = pc[u]
    BY <1>1, <1>6 DEF ReserveFails, SendSignal, Return, Die
  <2>2. pc'[t] \in {"exit", "user", "dead"} /\ pc[t] \in {"reserve", "signal", "exit", "user"}
    BY <1>1, <1>6 DEF ReserveFails, SendSignal, Return, Die
  <2>3. HeldIsLast'
    BY <1>1, <2>1, <2>2
  <2>4. ASSUME NEW k \in 1..Len(log), IsReady(k), log[k].made.sys = "ptrace", log[k].by = t
        PROVE  pc'[t] \in {"exit", "dead"}
    <3>1. pc[t] \in {"signal", "exit", "dead"}
      BY <2>4
    <3>2. pc[t] = "exit" => ProcOf[t] \notin alive
      BY <2>4 DEF IInv, KilledIffReported
    <3> QED BY <1>1, <1>6, <3>1, <3>2 DEF ReserveFails, SendSignal, Return, Die
  <2>5. ReporterNeverReturns'
    BY <1>2, <2>1, <2>4
  <2> QED BY <2>3, <2>5
<1>7. ASSUME NEW t \in Threads, NEW c \in Calls, Enter(t, c)
      PROVE  HeldIsLast' /\ ReporterNeverReturns'
  <2>1. /\ log' = log /\ pc[t] = "user" /\ pc'[t] \in {"reserve", "exit"}
        /\ \A u \in Threads \ {t} : pc'[u] = pc[u] /\ slot'[u] = slot[u]
    BY <1>1, <1>7 DEF Enter
  <2>2. \A u \in Threads : pc'[u] \in Holding => u # t
    BY <2>1
  <2>3. HeldIsLast'
    BY <2>1, <2>2
  <2>4. \A k \in 1..Len(log) :
          IsReady(k) /\ log[k].made.sys = "ptrace" => log[k].by \in Threads \ {t}
    BY <1>2, <2>1
  <2>5. ReporterNeverReturns'
    BY <2>1, <2>4
  <2> QED BY <2>3, <2>5
<1>8. ASSUME Consume \/ StartTracer \/ PollFails \/ Attach \/ Detach \/ Exit \/ UNCHANGED vars
      PROVE  UNCHANGED <<log, pc, slot>>
  BY <1>8 DEF Consume, StartTracer, HandleEvent, Release, SkipDiscarded, PollFails,
              Attach, Detach, Exit, prodVars, vars
<1> HIDE DEF HeldIsLast, ReporterNeverReturns
<1> QED BY <1>3, <1>4, <1>5, <1>6, <1>7, <1>8 DEF Next, Program

\* A thread whose ptrace call was reported never gets back to user mode.
THEOREM ReportIsLast == Spec => []ReporterNeverReturns
<1>1. Init => HeldIsLast /\ ReporterNeverReturns
  BY DEF Init, HeldIsLast, ReporterNeverReturns, Holding
<1> QED BY <1>1, ReporterStep, Invariance, PTL DEF Spec

\* A step of another thread, or of the thread that reserved it, leaves a record alone
\* that is not busy.
LEMMA RecordStays ==
  ASSUME IInv, [Next]_vars, NEW k \in 1..Len(log), log[k].state # "busy"
  PROVE  k \in 1..Len(log') /\ log'[k] = log[k]
<1> DEFINE Stays == k \in 1..Len(log') /\ log'[k] = log[k]
<1>1. log \in Seq(Record)
  BY DEF IInv, TypeOK
<1>2. CASE log' = log
  BY <1>2
<1>3. ASSUME NEW t \in Threads, Reserve(t) PROVE Stays
  BY <1>1, <1>3 DEF Reserve
<1>4. ASSUME NEW t \in Threads, Fill(t) \/ Submit(t) \/ Discard(t) PROVE Stays
  <2>1. pc[t] \in Holding
    BY <1>4 DEF Fill, Submit, Discard, Holding
  <2>2. slot[t] \in 1..Len(log) /\ slot[t] # k
    BY <2>1 DEF IInv, OwnersHoldBusy
  <2>3. log' = log \/ \E r : log' = [log EXCEPT ![slot[t]] = r]
    BY <1>4 DEF Fill, Submit, Discard
  <2> QED BY <1>1, <2>2, <2>3
<1>5. \/ log' = log
      \/ \E t \in Threads : Reserve(t) \/ Fill(t) \/ Submit(t) \/ Discard(t)
  BY DEF Next, Program, Consume, Enter, ReserveFails, SendSignal, Return, Die,
         StartTracer, HandleEvent, Release, SkipDiscarded, PollFails,
         Attach, Detach, Exit, prodVars, vars
<1> QED BY <1>2, <1>3, <1>4, <1>5

\* No program changes a record that the consumer may be reading.
THEOREM SubmittedFinal == Spec => SubmittedIsFinal
<1> DEFINE Final == \A k \in 1..Len(log) : log[k].state # "busy" =>
                      k \in 1..Len(log') /\ log'[k] = log[k]
<1>1. IInv /\ [Next]_vars => [Final]_vars
  BY RecordStays
<1> QED BY <1>1, Invariance, PTL DEF Spec, SubmittedIsFinal

-----------------------------------------------------------------------------
(***************************************************************************)
(* The pipeline implements the channel.                                    *)
(***************************************************************************)

\* A thread's step accepts a ticket, withdraws one, or is invisible.
LEMMA ProducerStep ==
  ASSUME IInv, NEW t \in Threads,
         Program(t) \/ Die(t) \/ \E c \in Calls : Enter(t, c)
  PROVE  [Channel!Next]_(Channel!vars)
<1> DEFINE open == tracer \notin {"stopped", "exited"}
<1>1. /\ log \in Seq(Record) /\ Len(log) \in Nat /\ cons \in 0..Len(log)
      /\ UNCHANGED <<cons, printed, tracer>>
  BY DEF IInv, TypeOK, Program, Reserve, ReserveFails, Fill, Submit, Discard,
         SendSignal, Return, Die, Enter, consVars
<1>2. Released' = Released /\ Delivered' = Delivered /\ open' = open
  BY <1>1 DEF Released, Delivered
<1>3. Released \in 0..Len(log)
  BY <1>1 DEF Released, IInv, ReleasedAreDone
<1>4. CASE Reserve(t)
  <2>1. /\ Len(log') = Len(log) + 1
        /\ log'[Len(log) + 1].state = "busy"
        /\ \A k \in 1..Len(log) : log'[k] = log[k]
    BY <1>1, <1>4 DEF Reserve
  <2>2. Waiting' = Waiting \cup {Len(log) + 1}
    BY <1>1, <1>2, <1>3, <2>1 DEF Waiting
  <2>3. Channel!Accept
    BY <1>2, <2>1, <2>2 DEF Channel!Accept
  <2> QED BY <2>3 DEF Channel!Next
<1>5. ASSUME Fill(t) \/ Submit(t) \/ Discard(t)
      PROVE  [Channel!Next]_(Channel!vars)
  <2> DEFINE k == slot[t]
  <2>1. pc[t] \in Holding
    BY <1>5 DEF Fill, Submit, Discard, Holding
  <2>2. k \in 1..Len(log) /\ log[k].state = "busy"
    BY <2>1 DEF IInv, OwnersHoldBusy
  <2>3. k > Released
    BY <1>1, <2>2 DEF Released, IInv, ReleasedAreDone
  <2>4. k \in Waiting
    BY <1>3, <2>2, <2>3 DEF Waiting
  <2>5. log[k] \in Record
    BY <1>1, <2>2
  <2>6. CASE Discard(t)
    <3>1. /\ Len(log') = Len(log)
          /\ log'[k].state = "discarded"
          /\ \A j \in 1..Len(log) : j # k => log'[j] = log[j]
      BY <1>1, <2>2, <2>5, <2>6 DEF Discard, Record
    <3>2. Waiting' = Waiting \ {k}
      BY <1>2, <1>3, <3>1 DEF Waiting
    <3>3. Channel!Withdraw(k)
      BY <1>2, <2>4, <3>1, <3>2 DEF Channel!Withdraw
    <3> QED BY <2>4, <3>3 DEF Channel!Next
  <2>7. CASE Fill(t) \/ Submit(t)
    <3>1. /\ Len(log') = Len(log)
          /\ log'[k].state # "discarded"
          /\ \A j \in 1..Len(log) : j # k => log'[j] = log[j]
      <4>1. \/ log' = log
            \/ \E e : log' = [log EXCEPT ![k].ev = e]
            \/ log' = [log EXCEPT ![k].state = "ready"]
        BY <2>7 DEF Fill, Submit
      <4>2. CASE log' = log
        BY <1>1, <2>2, <4>2
      <4>3. ASSUME NEW e, log' = [log EXCEPT ![k].ev = e]
            PROVE  /\ Len(log') = Len(log)
                   /\ log'[k].state = "busy"
                   /\ \A j \in 1..Len(log) : j # k => log'[j] = log[j]
        BY <1>1, <2>2, <2>5, <4>3 DEF Record
      <4>4. CASE log' = [log EXCEPT ![k].state = "ready"]
        BY <1>1, <2>2, <2>5, <4>4 DEF Record
      <4> QED BY <4>1, <4>2, <4>3, <4>4
    <3>2. Waiting' = Waiting
      BY <1>2, <1>3, <2>4, <3>1 DEF Waiting
    <3> QED BY <1>2, <3>1, <3>2 DEF Channel!vars
  <2> QED BY <1>5, <2>6, <2>7
<1>6. CASE log' = log
  BY <1>2, <1>6 DEF Channel!vars, Waiting
<1>7. \/ log' = log
      \/ Reserve(t) \/ Fill(t) \/ Submit(t) \/ Discard(t)
  BY DEF Program, Enter, ReserveFails, SendSignal, Return, Die
<1> QED BY <1>4, <1>5, <1>6, <1>7

\* A step of the consumer delivers the oldest ticket, closes the channel, or
\* is invisible.
LEMMA ConsumerStep ==
  ASSUME IInv, IInv', Consume \/ StartTracer \/ PollFails \/ Attach \/ Detach \/ Exit
  PROVE  [Channel!Next]_(Channel!vars)
<1>1. /\ UNCHANGED log
      /\ log \in Seq(Record) /\ Len(log) \in Nat /\ cons \in 0..Len(log)
      /\ printed \in Seq(Line) /\ Len(printed) \in Nat
  BY DEF IInv, TypeOK, Consume, PollFails, Attach, Detach, Exit, StartTracer,
         HandleEvent, Release, SkipDiscarded, prodVars
<1>2. CASE HandleEvent
  <2> DEFINE k == cons + 1
  <2>1. Released = cons /\ Released' = k /\ log[k].state = "ready" /\ k \in 1..Len(log)
    BY <1>1, <1>2 DEF HandleEvent, Released
  <2>2. k \in Waiting /\ (\A j \in Waiting : k <= j) /\ Waiting' = Waiting \ {k}
    BY <1>1, <2>1 DEF Waiting
  <2>3. Delivered' = Append(Delivered, k)
    <3> DEFINE n == Len(printed)
    <3>1. /\ Len(printed') = n + 1
          /\ printed'[n + 1].pos = k
          /\ \A i \in 1..n : printed'[i] = printed[i]
      <4> DEFINE line == PrintedLine(k, log[k].ev)
      <4>1. printed' = Append(printed, line) /\ line.pos = k
        BY <1>2 DEF HandleEvent, PrintedLine
      <4> HIDE DEF line
      <4> QED BY <1>1, <4>1
    <3>2. Delivered \in Seq(Int) /\ Len(Delivered) = n
      <4>1. \A i \in 1..n : printed[i] \in Line
        BY <1>1
      <4>2. \A i \in 1..n : printed[i].pos \in Int
        BY <4>1 DEF Line
      <4> QED BY <1>1, <4>2 DEF Delivered
    <3>3. Delivered' = [i \in 1..(n + 1) |-> IF i = n + 1 THEN k ELSE Delivered[i]]
      BY <1>1, <3>1 DEF Delivered
    <3> QED BY <1>1, <2>1, <3>2, <3>3
  <2>4. tracer = "poll" /\ tracer' = "handled"
    BY <1>2 DEF HandleEvent
  <2>5. Channel!Deliver(k)
    BY <1>1, <2>2, <2>3, <2>4 DEF Channel!Deliver
  <2> QED BY <2>2, <2>5 DEF Channel!Next
<1>3. CASE Release \/ SkipDiscarded
  <2>1. Waiting' = Waiting
    BY <1>1, <1>3 DEF Release, SkipDiscarded, Released, Waiting
  <2>2. Delivered' = Delivered
    BY <1>3 DEF Release, SkipDiscarded, Delivered
  <2>3. tracer \in {"poll", "handled"} /\ tracer' \in {"poll", "handled"}
    BY <1>3 DEF Release, SkipDiscarded
  <2> QED BY <1>1, <2>1, <2>2, <2>3 DEF Channel!vars
<1>4. CASE StartTracer \/ PollFails \/ Attach \/ Detach \/ Exit
  <2>1. Waiting' = Waiting /\ Delivered' = Delivered
    BY <1>1, <1>4 DEF StartTracer, PollFails, Attach, Detach, Exit, Released,
                      Waiting, Delivered
  <2>2. CASE tracer' \in {"stopped", "exited"} /\ tracer \notin {"stopped", "exited"}
    BY <1>1, <2>1, <2>2 DEF Channel!Close, Channel!Next
  <2>3. CASE (tracer' \in {"stopped", "exited"}) <=> (tracer \in {"stopped", "exited"})
    BY <1>1, <2>1, <2>3 DEF Channel!vars
  <2>4. tracer \in {"stopped", "exited"} => tracer' \in {"stopped", "exited"}
    BY <1>4 DEF StartTracer, PollFails, Attach, Detach, Exit
  <2> QED BY <2>2, <2>3, <2>4
<1> QED BY <1>2, <1>3, <1>4 DEF Consume

\* With no ring buffer in sight, the pipeline is a lossy queue that delivers in
\* order and at most once.
THEOREM Refinement == Spec => ChannelSpec
<1>1. Init => Channel!Init
  <2> SUFFICES ASSUME Init PROVE Channel!Init
    OBVIOUS
  <2>1. Len(log) = 0 /\ Waiting = {} /\ Delivered = << >>
    BY DEF Init, Waiting, Released, Delivered
  <2> QED BY <2>1 DEF Init, Channel!Init
<1>2. IInv /\ IInv' /\ [Next]_vars => [Channel!Next]_(Channel!vars)
  <2> SUFFICES ASSUME IInv, IInv', [Next]_vars PROVE [Channel!Next]_(Channel!vars)
    OBVIOUS
  <2>1. CASE UNCHANGED vars
    BY <2>1 DEF vars, Channel!vars, Waiting, Delivered, Released
  <2>2. CASE Next
    BY <2>2, ProducerStep, ConsumerStep DEF Next
  <2> QED BY <2>1, <2>2
<1> QED BY <1>1, <1>2, Invariance, PTL DEF Spec, ChannelSpec, Channel!Spec

-----------------------------------------------------------------------------
(***************************************************************************)
(* The lines tell what was called.                                         *)
(***************************************************************************)

\* The name printed for a call is its name.
LEMMA LabelIsName ==
  ASSUME NEW c \in Calls, Emits(c), c.sys # "umount"
  PROVE  IsNameOf(SyscallLabel(EventOf[c.sys]), c)
<1> DEFINE type == EventOf[c.sys]
<1>1. c.sys \in Reported /\ type \in EventTypes
  BY EventOfType DEF Emits
<1>2. CASE c.sys = "ioctl"
  <2>1. type = "EVENT_IOCTL"
    BY <1>2 DEF EventOf
  <2> QED BY <1>1, <1>2, <2>1 DEF SyscallLabel, IsNameOf
<1>3. CASE c.sys # "ioctl"
  <2>1. type # "EVENT_IOCTL"
    BY <1>1, <1>3 DEF Reported, EventOf
  <2>2. SyscallLabel(type)
          = CHOOSE sys \in Reported \ {"umount2"} : EventOf[sys] = type
    BY <1>1, <2>1 DEF SyscallLabel
  <2>3. \E sys \in Reported \ {"umount2"} : EventOf[sys] = type
    <3>1. CASE c.sys = "umount2"
      <4>1. "umount" \in Reported \ {"umount2"} /\ EventOf["umount"] = type
        BY <3>1 DEF Reported, EventOf
      <4> QED BY <4>1
    <3>2. CASE c.sys # "umount2"
      BY <1>1, <3>2
    <3> QED BY <3>1, <3>2
  <2>4. PICK sys \in Reported \ {"umount2"} :
          EventOf[sys] = type /\ SyscallLabel(type) = sys
    BY <2>2, <2>3
  <2>5. sys = c.sys \/ (sys = "umount" /\ c.sys = "umount2")
    BY <1>1, <2>4 DEF Reported, EventOf
  <2> QED BY <2>4, <2>5 DEF IsNameOf
<1> QED BY <1>2, <1>3

\* What is printed under a label of a filled record is the argument it names.
LEMMA ShownIsArgument ==
  ASSUME NEW sys \in Reported \ {"umount"}, CloneBackwards => sys # "clone",
         NEW faults, NEW l \in ShownLabels(EventOf[sys])
  PROVE  IsArgument(sys, l, ShownValue(EventOf[sys], l, WrittenArgs(sys),
                                       WrittenStrs(sys, faults)))
<1> DEFINE f == ShownFields[EventOf[sys]][l]
           s == StringArgs(sys)
<1>1. EventOf[sys] \in EventTypes /\ l \in DOMAIN ShownFields[EventOf[sys]]
  BY EventOfType DEF ShownLabels
<1>2. IF f[1] = "args" THEN f[2] \in 0..5 ELSE f[2] \in 1..3
  BY <1>1, ShownFieldType
<1>3. IF f[1] = "args"
        THEN f[2] \in CopiedArgs[sys] /\ Names(sys, f[2], l)
        ELSE f[2] \in DOMAIN s /\ Names(sys, s[f[2]], l)
  BY <1>1, TablesAgree DEF Agrees
<1> HIDE DEF f, s
<1>4. CASE f[1] = "args"
  BY <1>2, <1>3, <1>4 DEF ShownValue, WrittenArgs, IsArgument, Names, f
<1>5. CASE f[1] # "args"
  <2>1. ShownValue(EventOf[sys], l, WrittenArgs(sys), WrittenStrs(sys, faults))
          \in {Unreadable, s[f[2]]}
    BY <1>2, <1>3, <1>5 DEF ShownValue, WrittenStrs, f, s
  <2> QED BY <1>3, <1>5, <2>1 DEF IsArgument, Names
<1> QED BY <1>4, <1>5

\* On a kernel without the old umount (x86-64 and arm64 have none) only what was
\* called is printed; where clone's arguments come in arm64's order, as long as
\* nobody calls clone.
THEOREM Truthful ==
  ASSUME "umount" \notin Compiled,
         CloneBackwards => \A c \in Calls : c.sys # "clone"
  PROVE  Spec => []PrintedAsCalled
<1>1. IInv => PrintedAsCalled
  <2> SUFFICES ASSUME IInv, NEW i \in 1..Len(printed)
               PROVE  LET line == printed[i]
                          rec  == log[line.pos]
                          c    == rec.made
                      IN  /\ ProcOf[rec.by] \in Traced
                          /\ line.pid = IF c.sys = "ptrace" THEN c.tracee
                                                            ELSE ProcOf[rec.by]
                          /\ IsNameOf(line.sys, c)
                          /\ \A l \in DOMAIN line.shown :
                               IsArgument(c.sys, l, line.shown[l])
    BY DEF PrintedAsCalled
  <2> DEFINE k   == printed[i].pos
             rec == log[k]
             c   == rec.made
  <2>1. k \in 1..Len(log) /\ rec.state = "ready" /\ printed[i] = PrintedLine(k, rec.ev)
    BY DEF IInv, LinesMatchRecords, IsReady
  <2>2. IsFilled(rec)
    BY <2>1 DEF IInv, ReadyAreFilled
  <2>3. PICK faults \in SUBSET (1..3) : rec.ev = EventFor(c, rec.by, faults)
    BY <2>2 DEF IsFilled
  <2>4. ProcOf[rec.by] \in Traced /\ Emits(c)
    BY <2>2 DEF IsFilled
  <2>5. c \in Calls
    <3>1. rec \in Record
      BY <2>1 DEF IInv, TypeOK
    <3> QED BY <3>1 DEF Record
  <2>6. c.sys \in Reported \ {"umount"} /\ (CloneBackwards => c.sys # "clone")
    BY <2>4, <2>5 DEF Emits
  <2> HIDE DEF k, rec, c
  <2>7. /\ rec.ev.type = EventOf[c.sys]
        /\ rec.ev.pid = IF c.sys = "ptrace" THEN c.tracee ELSE ProcOf[rec.by]
        /\ rec.ev.args = WrittenArgs(c.sys)
        /\ rec.ev.strs = WrittenStrs(c.sys, faults)
    BY <2>3 DEF EventFor
  <2>8. /\ printed[i].pid = rec.ev.pid
        /\ printed[i].sys = SyscallLabel(EventOf[c.sys])
        /\ printed[i].shown =
             [l \in ShownLabels(EventOf[c.sys]) |->
                ShownValue(EventOf[c.sys], l, WrittenArgs(c.sys),
                           WrittenStrs(c.sys, faults))]
    BY <2>1, <2>7 DEF PrintedLine
  <2>9. IsNameOf(printed[i].sys, c)
    BY <2>4, <2>5, <2>6, <2>8, LabelIsName
  <2>10. \A l \in DOMAIN printed[i].shown : IsArgument(c.sys, l, printed[i].shown[l])
    <3> SUFFICES ASSUME NEW l \in DOMAIN printed[i].shown
                 PROVE  IsArgument(c.sys, l, printed[i].shown[l])
      OBVIOUS
    <3>1. /\ l \in ShownLabels(EventOf[c.sys])
          /\ printed[i].shown[l] = ShownValue(EventOf[c.sys], l, WrittenArgs(c.sys),
                                             WrittenStrs(c.sys, faults))
      BY <2>8
    <3>2. IsArgument(c.sys, l, ShownValue(EventOf[c.sys], l, WrittenArgs(c.sys),
                                          WrittenStrs(c.sys, faults)))
      BY <2>6, <3>1, ShownIsArgument
    <3> QED BY <3>1, <3>2
  <2> QED BY <2>4, <2>7, <2>8, <2>9, <2>10 DEF k, rec, c
<1> QED BY <1>1, Invariance, PTL

-----------------------------------------------------------------------------
(***************************************************************************)
(* The consumer, once there is one, stays at no record for ever.  The      *)
(* provers take ENABLED as it stands, so fairness is stated by the guards  *)
(* it is about: RunsOn.                                                    *)
(***************************************************************************)

\* What a program holds, and when it is done with record k.
Filling(t, k) == pc[t] = "fill" /\ slot[t] = k
Ending(t, k)  == pc[t] \in {"submit", "discard"} /\ slot[t] = k
Done(k)       == k \in 1..Len(log) /\ log[k].state # "busy"

\* Only t takes t forward.
LEMMA OthersLeaveIt ==
  ASSUME IInv, [Next]_vars, NEW t \in Threads, pc[t] \in Holding, ~Program(t)
  PROVE  pc'[t] = pc[t] /\ slot'[t] = slot[t]
<1>1. ASSUME NEW u \in Threads, Program(u) \/ Die(u) \/ \E c \in Calls : Enter(u, c)
      PROVE  pc'[t] = pc[t] /\ slot'[t] = slot[t]
  <2>1. u # t
    BY <1>1 DEF Die, Enter, Holding
  <2> QED BY <1>1, <2>1 DEF Program, Reserve, ReserveFails, Fill, Submit, Discard,
                            SendSignal, Return, Die, Enter, IInv, TypeOK
<1>2. CASE Consume \/ StartTracer \/ PollFails \/ Attach \/ Detach \/ Exit \/ UNCHANGED vars
  BY <1>2 DEF Consume, StartTracer, HandleEvent, Release, SkipDiscarded, PollFails,
              Attach, Detach, Exit, prodVars, vars
<1> QED BY <1>1, <1>2 DEF Next

\* A program that holds a record goes from filling to the end of it.
LEMMA ProgramMoves ==
  ASSUME IInv, NEW t \in Threads, NEW k \in Nat, Program(t)
  PROVE  /\ Filling(t, k) => Ending(t, k)'
         /\ Ending(t, k) => Done(k)'
<1> USE DEF Filling, Ending, Done
<1>1. ASSUME Filling(t, k)
      PROVE  Ending(t, k)'
  <2>1. Fill(t)
    BY <1>1 DEF Program, Reserve, ReserveFails, Submit, Discard, SendSignal, Return
  <2> QED BY <1>1, <2>1 DEF Fill, IInv, TypeOK
<1>2. ASSUME Ending(t, k)
      PROVE  Done(k)'
  <2>1. Submit(t) \/ Discard(t)
    BY <1>2 DEF Program, Reserve, ReserveFails, Fill, SendSignal, Return
  <2>2. k \in 1..Len(log)
    BY <1>2 DEF IInv, OwnersHoldBusy, Holding
  <2>3. log \in Seq(Record) /\ slot[t] = k
    BY <1>2 DEF IInv, TypeOK
  <2>4. \E s \in {"ready", "discarded"} : log' = [log EXCEPT ![k].state = s]
    BY <2>1, <2>3 DEF Submit, Discard
  <2>5. Len(log') = Len(log) /\ log'[k].state \in {"ready", "discarded"}
    BY <2>2, <2>3, <2>4 DEF Record
  <2> QED BY <2>2, <2>5
<1> QED BY <1>1, <1>2

\* Everything before record k has been passed; and so has k, or the consumer is gone.
Reached(k) == k <= Released + 1
Passed(k)  == k <= Released \/ tracer \in {"stopped", "exited"}

\* The loop has begun, and the places at which a consumer that has reached k but not
\* passed it can be.
Begun       == tracer # "start"
BehindIt(k) == tracer = "handled" /\ k = cons + 2
BeforeIt(k) == tracer = "poll" /\ k = cons + 1

\* A step of a program does not move the consumer.
LEMMA ConsumerAlone ==
  ASSUME [Next]_vars,
         ~(Consume \/ StartTracer \/ PollFails \/ Exit)
  PROVE  UNCHANGED <<cons, tracer>>
BY DEF Next, Program, Reserve, ReserveFails, Fill, Submit, Discard, SendSignal, Return,
       Die, Enter, Attach, Detach, consVars, vars

\* The consumer does not go back.
LEMMA NoWayBack ==
  ASSUME IInv, [Next]_vars, NEW k \in Nat
  PROVE  /\ Begun => Begun'
         /\ Reached(k) => Reached(k)'
         /\ Passed(k) => Passed(k)'
<1> USE DEF IInv, TypeOK, Begun, Reached, Passed, Released
<1>1. CASE Consume
  BY <1>1 DEF Consume, HandleEvent, Release, SkipDiscarded
<1>2. CASE StartTracer \/ PollFails \/ Exit
  BY <1>2 DEF StartTracer, PollFails, Exit
<1>3. CASE ~(Consume \/ StartTracer \/ PollFails \/ Exit)
  BY <1>3, ConsumerAlone
<1> QED BY <1>1, <1>2, <1>3

\* In front of a record that is done the consumer moves, and only forwards.
LEMMA ConsumerMoves ==
  ASSUME IInv, [Next]_vars, NEW k \in Nat, Done(k)
  PROVE  /\ Begun /\ Reached(k) => Passed(k) \/ BehindIt(k) \/ BeforeIt(k)
         /\ BehindIt(k) => BehindIt(k)' \/ BeforeIt(k)' \/ Passed(k)'
         /\ BeforeIt(k) => BeforeIt(k)' \/ Passed(k)'
         /\ BehindIt(k) /\ Consume => BeforeIt(k)'
         /\ BeforeIt(k) /\ Consume => Passed(k)'
<1> USE DEF IInv, TypeOK, Begun, Reached, Passed, Released, BehindIt, BeforeIt, Done
<1>1. Begun /\ Reached(k) => Passed(k) \/ BehindIt(k) \/ BeforeIt(k)
  OBVIOUS
<1>2. CASE Consume
  BY <1>1, <1>2 DEF Consume, HandleEvent, Release, SkipDiscarded
<1>3. CASE (StartTracer \/ PollFails \/ Exit) /\ ~Consume
  BY <1>1, <1>3 DEF StartTracer, PollFails, Exit
<1>4. CASE ~(Consume \/ StartTracer \/ PollFails \/ Exit)
  BY <1>1, <1>4, ConsumerAlone
<1> QED BY <1>2, <1>3, <1>4

\* The log only grows.
LEMMA LogGrows ==
  ASSUME IInv, [Next]_vars
  PROVE  Len(log') \in Nat /\ Len(log') >= Len(log)
<1>1. log \in Seq(Record)
  BY DEF IInv, TypeOK
<1>2. \/ log' = log
      \/ \E r : log' = Append(log, r)
      \/ \E t \in Threads : \E r : log' = [log EXCEPT ![slot[t]] = r]
  BY DEF Next, Program, Reserve, ReserveFails, Fill, Submit, Discard, SendSignal, Return,
         Die, Enter, Consume, StartTracer, HandleEvent, Release, SkipDiscarded, PollFails,
         Attach, Detach, Exit, prodVars, vars
<1>3. Len(log) \in Nat
  BY <1>1
<1>4. ASSUME NEW r, log' = Append(log, r) PROVE Len(log') = Len(log) + 1
  BY <1>1, <1>4
<1>5. ASSUME NEW t \in Threads, NEW r, log' = [log EXCEPT ![slot[t]] = r]
      PROVE  Len(log') = Len(log)
  BY <1>1, <1>5
<1> QED BY <1>2, <1>3, <1>4, <1>5

\* A record takes at least eight bytes.
LEMMA CapacityIsSmall == Capacity \in Nat /\ Capacity <= RingBytes
<1>1. RecordBytes \in Nat /\ RecordBytes >= 8
  <2>1. EventBytes \in Nat
    BY PipelineAssumption DEF EventBytes, RoundUp8
  <2> QED BY <2>1 DEF RecordBytes, RoundUp8
<1>2. RingBytes - 1 \in Nat
  BY PipelineAssumption
<1> HIDE DEF RecordBytes
<1>3. ASSUME NEW m \in Nat, NEW d \in Nat \ {0} PROVE m \div d \in Nat /\ m \div d <= m
  OBVIOUS
<1> QED BY <1>1, <1>2, <1>3, PipelineAssumption DEF Capacity

\* What is in memory fits into the buffer.
LEMMA Bounded == Spec => []BufferBounded
<1>1. Init => BufferBounded
  BY CapacityIsSmall DEF Init, BufferBounded
<1>2. ASSUME IInv, BufferBounded, [Next]_vars PROVE BufferBounded'
  <2> USE DEF BufferBounded
  <2>1. log \in Seq(Record) /\ cons \in 0..Len(log)
    BY <1>2 DEF IInv, TypeOK
  <2>2. ASSUME NEW t \in Threads, Reserve(t) PROVE BufferBounded'
    BY CapacityIsSmall, <2>1, <2>2 DEF Reserve, consVars
  <2>3. ASSUME Len(log') = Len(log), cons' \in {cons, cons + 1} PROVE BufferBounded'
    BY CapacityIsSmall, <1>2, <2>1, <2>3
  <2>4. ASSUME NEW t \in Threads,
               ReserveFails(t) \/ Fill(t) \/ Submit(t) \/ Discard(t) \/ SendSignal(t)
                 \/ Return(t) \/ Die(t) \/ \E c \in Calls : Enter(t, c)
        PROVE  BufferBounded'
    <3>1. cons' = cons
      BY <2>4 DEF ReserveFails, Fill, Submit, Discard, SendSignal, Return, Die, Enter,
                  consVars
    <3>2. log' = log \/ \E r : log' = [log EXCEPT ![slot[t]] = r]
      BY <2>4 DEF ReserveFails, Fill, Submit, Discard, SendSignal, Return, Die, Enter
    <3> QED BY <2>1, <2>3, <3>1, <3>2
  <2>5. ASSUME Consume \/ StartTracer \/ PollFails \/ Attach \/ Detach \/ Exit \/ UNCHANGED vars
        PROVE  BufferBounded'
    <3>1. log' = log /\ cons' \in {cons, cons + 1}
      BY <2>1, <2>5 DEF Consume, StartTracer, HandleEvent, Release, SkipDiscarded,
                  PollFails, Attach, Detach, Exit, Released, prodVars, vars
    <3> QED BY <2>3, <3>1
  <2> QED BY <1>2, <2>2, <2>4, <2>5 DEF Next, Program
<1> QED BY <1>1, <1>2, Invariance, PTL DEF Spec

\* The program with record k in hand, and a consumer that stands at it or is past it.
BeingFilled(k) == \E t \in Threads : Filling(t, k)
BeingEnded(k)  == \E t \in Threads : Ending(t, k)
Near(k)        == k <= cons + 1

\* A record is being filled, then submitted or discarded, then done, and the program that
\* serves the consumer at it takes it along.
LEMMA ServedInTurn ==
  ASSUME IInv, [Next]_vars, NEW k \in Nat \ {0}
  PROVE  /\ k <= Len(log) => BeingFilled(k) \/ BeingEnded(k) \/ Done(k)
         /\ BeingFilled(k) => BeingFilled(k)' \/ BeingEnded(k)'
         /\ BeingEnded(k) => BeingEnded(k)' \/ Done(k)'
         /\ Near(k) /\ BeingFilled(k) /\ Serve => BeingEnded(k)'
         /\ Near(k) /\ BeingEnded(k) /\ Serve => Done(k)'
<1>1. k <= Len(log) => BeingFilled(k) \/ BeingEnded(k) \/ Done(k)
  <2>1. ASSUME k \in 1..Len(log), log[k].state = "busy"
        PROVE  BeingFilled(k) \/ BeingEnded(k)
    <3>1. log[k] \in Record
      BY <2>1 DEF IInv, TypeOK
    <3>2. log[k].by \in Threads
      BY <3>1 DEF Record
    <3> QED BY <2>1, <3>2 DEF IInv, BusyHaveOwner, BeingFilled, BeingEnded, Filling,
                              Ending, Holding
  <2> QED BY <2>1 DEF IInv, TypeOK, Done
<1>2. ASSUME NEW t \in Threads, Filling(t, k)
      PROVE  Filling(t, k)' \/ Ending(t, k)'
  BY <1>2, OthersLeaveIt, ProgramMoves DEF Filling, Holding
<1>3. ASSUME NEW t \in Threads, Ending(t, k)
      PROVE  Ending(t, k)' \/ Done(k)'
  BY <1>3, OthersLeaveIt, ProgramMoves DEF Ending, Holding
\* The consumer is at k itself, whose holder is the only one.
<1>4. ASSUME NEW t \in Threads, Filling(t, k) \/ Ending(t, k), Near(k), Serve
      PROVE  Program(t)
  <2>1. PICK u \in Threads : pc[u] \in Holding /\ slot[u] = cons + 1 /\ Program(u)
    BY <1>4 DEF Serve
  <2>2. pc[t] \in Holding /\ slot[t] = k
    BY <1>4 DEF Filling, Ending, Holding
  <2>3. k \in 1..Len(log) /\ log[k].state = "busy" /\ log[k].by = t
    BY <2>2 DEF IInv, OwnersHoldBusy
  <2>4. k = cons + 1
    BY <1>4, <2>3 DEF IInv, TypeOK, ReleasedAreDone, Near
  <2>5. u = t
    BY <2>1, <2>3, <2>4 DEF IInv, OwnersHoldBusy
  <2> QED BY <2>1, <2>5
<1>5. BeingFilled(k) => BeingFilled(k)' \/ BeingEnded(k)'
  BY <1>2 DEF BeingFilled, BeingEnded
<1>6. BeingEnded(k) => BeingEnded(k)' \/ Done(k)'
  BY <1>3 DEF BeingEnded
<1>7. Near(k) /\ BeingFilled(k) /\ Serve => BeingEnded(k)'
  BY <1>4, ProgramMoves DEF BeingFilled, BeingEnded
<1>8. Near(k) /\ BeingEnded(k) /\ Serve => Done(k)'
  BY <1>4, ProgramMoves DEF BeingEnded
<1> QED BY <1>1, <1>5, <1>6, <1>7, <1>8

\* A consumer that has reached record k comes to stand at it: all that can be left to
\* do is to let go of the record before.
LEMMA ConsumerArrives ==
  ASSUME IInv, [Next]_vars, NEW k \in Nat
  PROVE  /\ Reached(k) => Near(k) \/ BehindIt(k)
         /\ Near(k) => Near(k)'
         /\ BehindIt(k) => BehindIt(k)' \/ Near(k)'
         /\ BehindIt(k) /\ Consume => Near(k)'
<1> USE DEF IInv, TypeOK, Reached, Released, BehindIt, Near
<1>1. CASE Consume
  BY <1>1 DEF Consume, HandleEvent, Release, SkipDiscarded
<1>2. CASE (StartTracer \/ PollFails \/ Exit) /\ ~Consume
  BY <1>2 DEF StartTracer, PollFails, Exit
<1>3. CASE ~(Consume \/ StartTracer \/ PollFails \/ Exit)
  BY <1>3, ConsumerAlone
<1> QED BY <1>1, <1>2, <1>3

\* Record k, once there is a consumer that has reached it, is passed.
GetsPassed(k) == (Begun /\ Reached(k) /\ k <= Len(log)) ~> Passed(k)

\* No record holds up the consumer that has reached it: the program that holds it fills
\* and submits or discards it whatever the others do, and the consumer goes on.
THEOREM NoRecordHoldsUp ==
  ASSUME NEW k \in Nat \ {0}
  PROVE  Spec /\ RunsOn => GetsPassed(k)
<1> DEFINE Here == Begun /\ Reached(k) /\ k <= Len(log)
<1>1. IInv /\ [Next]_vars => (Here => Here')
  <2>1. IInv /\ [Next]_vars => (Begun /\ Reached(k) => (Begun /\ Reached(k))')
    BY NoWayBack
  <2>2. IInv /\ [Next]_vars => Len(log') \in Nat /\ Len(log') >= Len(log)
    BY LogGrows
  <2>3. IInv => Len(log) \in Nat
    BY DEF IInv, TypeOK
  <2> QED BY <2>1, <2>2, <2>3
<1>2. IInv /\ [Next]_vars =>
        /\ Here => Near(k) \/ BehindIt(k)
        /\ Near(k) => Near(k)'
        /\ BehindIt(k) => BehindIt(k)' \/ Near(k)'
        /\ BehindIt(k) /\ <<Consume>>_vars => Near(k)'
  BY ConsumerArrives
<1>3. IInv /\ [Next]_vars =>
        /\ Here => BeingFilled(k) \/ BeingEnded(k) \/ Done(k)
        /\ BeingFilled(k) => BeingFilled(k)' \/ BeingEnded(k)'
        /\ BeingEnded(k) => BeingEnded(k)' \/ Done(k)'
        /\ Near(k) /\ BeingFilled(k) /\ <<Serve>>_vars => BeingEnded(k)'
        /\ Near(k) /\ BeingEnded(k) /\ <<Serve>>_vars => Done(k)'
  BY ServedInTurn
<1>4. BehindIt(k) => ConsumerMayMove
  BY DEF BehindIt, ConsumerMayMove
<1>5. IInv /\ Near(k) /\ (BeingFilled(k) \/ BeingEnded(k)) => HolderInFront
  <2>1. ASSUME IInv, Near(k), NEW t \in Threads, Filling(t, k) \/ Ending(t, k)
        PROVE  pc[t] \in Holding /\ slot[t] = cons + 1
    <3>1. pc[t] \in Holding /\ slot[t] = k
      BY <2>1 DEF Filling, Ending, Holding
    <3>2. k \in 1..Len(log) /\ log[k].state = "busy"
      BY <3>1, <2>1 DEF IInv, OwnersHoldBusy
    <3> QED BY <2>1, <3>1, <3>2 DEF IInv, TypeOK, ReleasedAreDone, Near
  <2> QED BY <2>1 DEF HolderInFront, BeingFilled, BeingEnded
<1>6. IInv /\ Done(k) /\ [Next]_vars => Done(k)'
  BY RecordStays DEF Done
<1>7. IInv /\ [Next]_vars => (Reached(k) => Reached(k)') /\ (Passed(k) => Passed(k)')
  BY NoWayBack
<1>8. IInv /\ Done(k) /\ [Next]_vars =>
        /\ Begun /\ Reached(k) => Passed(k) \/ BehindIt(k) \/ BeforeIt(k)
        /\ BehindIt(k) => BehindIt(k)' \/ BeforeIt(k)' \/ Passed(k)'
        /\ BeforeIt(k) => BeforeIt(k)' \/ Passed(k)'
        /\ BehindIt(k) /\ <<Consume>>_vars => BeforeIt(k)'
        /\ BeforeIt(k) /\ <<Consume>>_vars => Passed(k)'
  BY ConsumerMoves
<1>9. IInv /\ Done(k) /\ (BehindIt(k) \/ BeforeIt(k)) => ConsumerMayMove
  BY DEF IInv, TypeOK, Done, BehindIt, BeforeIt, ConsumerMayMove
<1>10. Spec => []IInv
  BY Invariance
<1>11. Here => Begun /\ Reached(k)
  OBVIOUS
<1> HIDE DEF Here
<1>12. Spec /\ RunsOn => (Here ~> (Here /\ Near(k)))
  BY <1>1, <1>2, <1>4, <1>10, PTL DEF RunsOn, Spec
<1>13. Spec /\ RunsOn => ((Here /\ Near(k)) ~> (Here /\ Done(k)))
  BY <1>1, <1>2, <1>3, <1>5, <1>6, <1>10, PTL DEF RunsOn, Spec
<1>14. Spec /\ RunsOn => ((Here /\ Done(k)) ~> Passed(k))
  BY <1>6, <1>7, <1>8, <1>9, <1>10, <1>11, PTL DEF RunsOn, Spec
<1>15. Spec /\ RunsOn => (Here ~> Passed(k))
  BY <1>12, <1>13, <1>14, PTL
<1> QED BY <1>15, PTL DEF Here, GetsPassed

-----------------------------------------------------------------------------
(***************************************************************************)
(* From one record to all of them.  The temporal formulas Leads and Hop    *)
(* are reasoned about by name: instantiated at positions and distances, and *)
(* expanded only to compose two of them.  A distance that is covered once  *)
(* is covered twice, and the buffer has less than 2^32 bytes, max_entries  *)
(* being a __u32.                                                          *)
(***************************************************************************)

\* There is a consumer and record k, and all but d records up to it have been passed.
Behind(k, d) ==
  Begun /\ k <= Len(log) /\ (k <= Released + d \/ tracer \in {"stopped", "exited"})

Leads(k, d, e) == Behind(k, d) ~> Behind(k, e)
Hop(n) == \A k \in Nat \ {0}, d \in Nat : Leads(k, d + n, d)

\* The next record is passed.
LEMMA HopOne == Spec /\ RunsOn => Hop(1)
<1>1. ASSUME NEW k \in Nat \ {0}, NEW d \in Nat
      PROVE  Spec /\ RunsOn => Leads(k, d + 1, d)
  <2> DEFINE Exists == Begun /\ k <= Len(log)
  <2>1. CASE d >= k
    <3>1. IInv /\ Behind(k, d + 1) => Behind(k, d)
      BY <2>1 DEF Behind, Released, IInv, TypeOK
    <3> QED BY <3>1, Invariance, PTL DEF Leads
  <2>2. CASE ~(d >= k)
    <3> DEFINE j == k - d
    <3>1. j \in Nat \ {0}
      BY <2>2
    <3>2. IInv /\ Behind(k, d + 1) => Exists /\ (Reached(j) \/ Passed(j)) /\ j <= Len(log)
      BY <2>2 DEF Behind, Reached, Passed, Released, IInv, TypeOK
    <3>3. IInv /\ [Next]_vars => (Exists => Exists') /\ (Passed(j) => Passed(j)')
      <4>1. IInv /\ [Next]_vars => (Passed(j) => Passed(j)')
        BY <3>1, NoWayBack
      <4>2. IInv /\ [Next]_vars => (Exists => Exists')
        BY <3>1, LogGrows, NoWayBack DEF IInv, TypeOK
      <4> QED BY <4>1, <4>2
    <3>4. IInv /\ Exists /\ Passed(j) => Behind(k, d)
      BY <2>2 DEF Behind, Passed, Released, IInv, TypeOK
    <3>5. Spec /\ RunsOn => GetsPassed(j)
      BY <3>1, NoRecordHoldsUp
    <3> HIDE DEF j
    <3> QED BY <3>2, <3>3, <3>4, <3>5, Invariance, PTL
        DEF Spec, Leads, GetsPassed
  <2> QED BY <2>1, <2>2
<1> QED BY <1>1 DEF Hop

\* A distance that is covered can be covered twice in a row, and sixteen times.
LEMMA HopTwice == ASSUME NEW n \in Nat PROVE Hop(n) => Hop(2 * n)
<1>1. ASSUME NEW k \in Nat \ {0}, NEW d \in Nat
      PROVE  Hop(n) => Leads(k, d + 2 * n, d)
  <2>1. Hop(n) => Leads(k, (d + n) + n, d + n) /\ Leads(k, d + n, d)
    BY DEF Hop
  <2>2. (d + n) + n = d + 2 * n
    OBVIOUS
  <2>3. Hop(n) => Leads(k, d + 2 * n, d + n) /\ Leads(k, d + n, d)
    BY <2>1, <2>2
  <2> QED BY <2>3, PTL DEF Leads
<1> QED BY <1>1 DEF Hop

LEMMA HopSixteen == ASSUME NEW n \in Nat PROVE Hop(n) => Hop(16 * n)
<1>1. Hop(n) => Hop(2 * n)
  BY HopTwice
<1>2. Hop(2 * n) => Hop(4 * n)
  BY HopTwice, 2 * (2 * n) = 4 * n
<1>3. Hop(4 * n) => Hop(8 * n)
  BY HopTwice, 2 * (4 * n) = 8 * n
<1>4. Hop(8 * n) => Hop(16 * n)
  BY HopTwice, 2 * (8 * n) = 16 * n
<1> QED BY <1>1, <1>2, <1>3, <1>4

\* However full the buffer is.
LEMMA HopFar == Spec /\ RunsOn => Hop(4294967296)
<1>1. Hop(1) => Hop(16)
  BY HopSixteen, 16 * 1 = 16
<1>2. Hop(16) => Hop(256)
  BY HopSixteen, 16 * 16 = 256
<1>3. Hop(256) => Hop(4096)
  BY HopSixteen, 16 * 256 = 4096
<1>4. Hop(4096) => Hop(65536)
  BY HopSixteen, 16 * 4096 = 65536
<1>5. Hop(65536) => Hop(1048576)
  BY HopSixteen, 16 * 65536 = 1048576
<1>6. Hop(1048576) => Hop(16777216)
  BY HopSixteen, 16 * 1048576 = 16777216
<1>7. Hop(16777216) => Hop(268435456)
  BY HopSixteen, 16 * 16777216 = 268435456
<1>8. Hop(268435456) => Hop(4294967296)
  BY HopSixteen, 16 * 268435456 = 4294967296
<1> QED BY HopOne, <1>1, <1>2, <1>3, <1>4, <1>5, <1>6, <1>7, <1>8

\* Where there is a reader, every submitted record is printed in the end, or the poll
\* loop has ended: no other CPU's record holds it up for ever, however many stand
\* before it.
THEOREM EveryRecordPrinted ==
  ASSUME RingBytes < 4294967296
  PROVE  Spec /\ RunsOn => SubmittedGetsPrinted
<1>1. ASSUME NEW k \in 1..MaxCalls
      PROVE  Spec /\ RunsOn => GetsPrinted(k)
  <2>1. k \in Nat \ {0}
    BY PipelineAssumption
  <2>2. Spec /\ RunsOn => Leads(k, 0 + 4294967296, 0)
    BY <2>1, HopFar DEF Hop
  <2>3. IInv /\ BufferBounded /\ IsReady(k) /\ tracer # "start" => Behind(k, 0 + 4294967296)
    BY <2>1, CapacityIsSmall, PipelineAssumption
       DEF BufferBounded, IsReady, Begun, Behind, Released, IInv, TypeOK
  <2>4. IInv /\ Behind(k, 0) => k <= Released \/ tracer \in {"stopped", "exited"}
    BY <2>1 DEF Behind, Released, IInv, TypeOK
  <2> QED BY <2>2, <2>3, <2>4, Invariance, Bounded, PTL DEF Leads, GetsPrinted
<1> QED BY <1>1 DEF SubmittedGetsPrinted
=============================================================================
