---------------------------- MODULE SyscallTracer ----------------------------
(***************************************************************************)
(* The syscall pipeline of ePtracer.  Threads of several processes enter   *)
(* the kernel; the tracepoint program sys_enter_multiplexer runs in the    *)
(* context of each, in parallel on several CPUs, and pushes a record for   *)
(* every reported call of a traced process into the ring buffer            *)
(* syscall_rb_map.  The thread syscall_tracer polls the buffer and prints  *)
(* each record.                                                            *)
(*                                                                         *)
(* The buffer is an append-only log with the consumer's position: records  *)
(* cons+1 .. Len(log) are the ones still in memory.  A record is busy from *)
(* its reservation to its submission; the consumer stops at a busy record  *)
(* and skips a discarded one.                                              *)
(***************************************************************************)
EXTENDS SyscallTable

CONSTANTS
  Threads,        \* threads that make system calls
  Procs,          \* processes; stand for their pids too
  ProcOf,         \* the process of each thread
  Traced,         \* the processes is_target_program accepts
  NoProc,         \* a pid argument that names no process
  Compiled,       \* cases whose __NR_ macro this architecture defines
  Calls,          \* the system calls that may be made
  RingBytes,      \* max_entries of syscall_rb_map
  MaxBufSize,     \* MAX_BUF_SIZE
  MaxCalls        \* bound: system calls made in a behaviour

ASSUME PipelineAssumption ==
  /\ ProcOf \in [Threads -> Procs]
  /\ Traced \subseteq Procs
  /\ NoProc \notin Procs
  /\ Compiled \subseteq Cases
  /\ Calls \subseteq [sys : STRING, tracee : Procs \cup {NoProc},
                       binder : BOOLEAN]
  /\ Calls # {}
  /\ RingBytes \in Nat \ {0}
  /\ MaxBufSize \in Nat
  /\ MaxCalls \in Nat

VARIABLES
  log,      \* every record reserved, in order of reservation
  cons,     \* number of records the consumer has released
  printed,  \* the lines syscall_event_handler has printed
  tracer,   \* where the thread syscall_tracer is; "exited": ePtracer has ended
  link,     \* the link of sys_enter_multiplexer
  pc,       \* where each thread is in sys_enter_multiplexer
  call,     \* the call each thread makes or made last, NoCall if it was not traced
  slot,     \* the record each thread has reserved for it, 0 if none
  alive,    \* processes that have not been sent signal 9
  calls     \* number of system calls made

vars == <<log, cons, printed, tracer, link, pc, call, slot, alive, calls>>
progVars == <<call, alive, calls>>
consVars == <<cons, printed, tracer, link>>

-----------------------------------------------------------------------------
\* struct syscall_event_t and the ring buffer's 8-byte record header.
RoundUp8(n) == 8 * ((n + 7) \div 8)
EventBytes  == RoundUp8(4 + 4 + 6 * 8 + 3 * (MaxBufSize + 1))
RecordBytes == RoundUp8(EventBytes + 8)

\* The kernel refuses a reservation that would use the last byte.
Capacity == (RingBytes - 1) \div RecordBytes

Pids == Procs \cup {NoProc}

\* Stands for the call of a thread whose last one met no program at the tracepoint.
NoCall == [sys |-> "none", tracee |-> NoProc, binder |-> FALSE]

Event == [type : EventTypes \cup {"unset"}, pid : Pids,
          args : [0..5 -> Stale..5], strs : [1..3 -> Unreadable..5]]

BlankEvent == [type |-> "unset", pid |-> NoProc,
               args |-> [i \in 0..5 |-> Stale], strs |-> [k \in 1..3 |-> Stale]]

\* by and made tell which thread reserved the record and for which call;
\* the program stores neither.
Record == [state : {"busy", "ready", "discarded"}, by : Threads, made : Calls,
           ev : Event]

\* pos is the position of the record the line was printed from.
Line == [pos : Nat, sys : Labels, pid : Pids,
         shown : UNION {[ShownLabels(e) -> Unreadable..5] :
                        e \in EventTypes \cup {"unset"}}]

TypeOK ==
  /\ log \in Seq(Record)
  /\ cons \in 0..Len(log)
  /\ printed \in Seq(Line)
  /\ tracer \in {"start", "poll", "handled", "stopped", "exited"}
  /\ link \in {"none", "attached", "detached"}
  /\ pc \in [Threads -> {"user", "reserve", "fill", "submit", "discard",
                         "signal", "exit", "dead"}]
  /\ call \in [Threads -> Calls \cup {NoCall}]
  /\ slot \in [Threads -> 0..Len(log)]
  /\ alive \in SUBSET Procs
  /\ calls \in 0..MaxCalls

Init ==
  /\ log = << >>
  /\ cons = 0
  /\ printed = << >>
  /\ tracer = "start"
  /\ link = "none"
  /\ pc = [t \in Threads |-> "user"]
  /\ call = [t \in Threads |-> NoCall]
  /\ slot = [t \in Threads |-> 0]
  /\ alive = Procs
  /\ calls = 0

-----------------------------------------------------------------------------
(***************************************************************************)
(* The tracepoint program, run by thread t.                                *)
(***************************************************************************)
IsTarget(t) == ProcOf[t] \in Traced

\* Does the switch reach bpf_ringbuf_reserve for call c?
Emits(c) ==
  /\ c.sys \in Compiled \cap Reported
  /\ c.sys = "ioctl" /\ Android => c.binder

\* Thread t makes call c, which the program sees if it is attached.  For a thread
\* it does not trace, or a call without a case, the program returns at once.  The
\* case of open reads the file name and calls bpf_printk only.
Enter(t, c) ==
  /\ pc[t] = "user"
  /\ ProcOf[t] \in alive
  /\ calls < MaxCalls
  /\ calls' = calls + 1
  /\ call' = [call EXCEPT ![t] = IF link = "attached" THEN c ELSE NoCall]
  /\ slot' = [slot EXCEPT ![t] = 0]
  /\ pc' = [pc EXCEPT ![t] =
              IF link = "attached" /\ IsTarget(t) /\ Emits(c)
                THEN "reserve" ELSE "exit"]
  /\ UNCHANGED <<log, alive, consVars>>

\* Mutant of Reserve: the consumer may see the record before it is filled.
ReserveVisible(t) ==
  /\ pc[t] = "reserve"
  /\ Len(log) - cons < Capacity
  /\ log' = Append(log, [state |-> "ready", by |-> t, made |-> call[t],
                         ev |-> BlankEvent])
  /\ slot' = [slot EXCEPT ![t] = Len(log) + 1]
  /\ pc' = [pc EXCEPT ![t] = "fill"]
  /\ UNCHANGED <<progVars, consVars>>

\* bpf_ringbuf_reserve finds room.
Reserve(t) ==
  /\ pc[t] = "reserve"
  /\ Len(log) - cons < Capacity
  /\ log' = Append(log, [state |-> "busy", by |-> t, made |-> call[t],
                         ev |-> BlankEvent])
  /\ slot' = [slot EXCEPT ![t] = Len(log) + 1]
  /\ pc' = [pc EXCEPT ![t] = "fill"]
  /\ UNCHANGED <<progVars, consVars>>

\* It finds none: the program returns.
ReserveFails(t) ==
  /\ pc[t] = "reserve"
  /\ Len(log) - cons >= Capacity
  /\ pc' = [pc EXCEPT ![t] = "exit"]
  /\ UNCHANGED <<log, slot, progVars, consVars>>

\* Mutant of EventFor: the copy of the arguments goes past the end of args.
EventForOneMore(c, t, faults) ==
  [type |-> EventOf[c.sys],
   pid  |-> IF c.sys = "ptrace" THEN c.tracee ELSE ProcOf[t],
   args |-> [i \in 0..6 |-> i],
   strs |-> WrittenStrs(c.sys, faults)]

\* The record of call c of thread t when the strings in faults are unreadable.
EventFor(c, t, faults) ==
  [type |-> EventOf[c.sys],
   pid  |-> IF c.sys = "ptrace" THEN c.tracee ELSE ProcOf[t],
   args |-> WrittenArgs(c.sys),
   strs |-> WrittenStrs(c.sys, faults)]

\* The case stores its fields and reads the user strings, some of which may
\* be unreadable.  Only mount goes on after a fault.  The consumer cannot see
\* a busy record, so the stores are one step; what a case has stored when it
\* discards the record is never read.
Fill(t) ==
  /\ pc[t] = "fill"
  /\ \E faults \in SUBSET (DOMAIN StringArgs(call[t].sys)) :
       IF faults # {} /\ call[t].sys \in DiscardsOnFault
         THEN /\ pc' = [pc EXCEPT ![t] = "discard"]
              /\ UNCHANGED log
         ELSE /\ pc' = [pc EXCEPT ![t] = "submit"]
              /\ log' = [log EXCEPT ![slot[t]].ev = EventFor(call[t], t, faults)]
  /\ UNCHANGED <<slot, progVars, consVars>>

\* Mutant of Submit: no signal follows the report of a ptrace call.
SubmitOnly(t) ==
  /\ pc[t] = "submit"
  /\ log' = [log EXCEPT ![slot[t]].state = "ready"]
  /\ pc' = [pc EXCEPT ![t] = "exit"]
  /\ UNCHANGED <<slot, progVars, consVars>>

Submit(t) ==
  /\ pc[t] = "submit"
  /\ log' = [log EXCEPT ![slot[t]].state = "ready"]
  /\ pc' = [pc EXCEPT ![t] = IF call[t].sys = "ptrace" THEN "signal" ELSE "exit"]
  /\ UNCHANGED <<slot, progVars, consVars>>

\* Mutants of Discard: return without discarding; submit all the same.
DiscardForgotten(t) ==
  /\ pc[t] = "discard"
  /\ pc' = [pc EXCEPT ![t] = "exit"]
  /\ UNCHANGED <<log, slot, progVars, consVars>>

DiscardSubmits(t) ==
  /\ pc[t] = "discard"
  /\ log' = [log EXCEPT ![slot[t]].state = "ready"]
  /\ pc' = [pc EXCEPT ![t] = "exit"]
  /\ UNCHANGED <<slot, progVars, consVars>>

Discard(t) ==
  /\ pc[t] = "discard"
  /\ log' = [log EXCEPT ![slot[t]].state = "discarded"]
  /\ pc' = [pc EXCEPT ![t] = "exit"]
  /\ UNCHANGED <<slot, progVars, consVars>>

\* bpf_send_signal(9) goes to the process that made the call.
SendSignal(t) ==
  /\ pc[t] = "signal"
  /\ alive' = alive \ {ProcOf[t]}
  /\ pc' = [pc EXCEPT ![t] = "exit"]
  /\ UNCHANGED <<log, slot, call, calls, consVars>>

\* The kernel performs the call and returns to user mode, where a pending
\* signal 9 takes the thread (external).
Return(t) ==
  /\ pc[t] = "exit"
  /\ pc' = [pc EXCEPT ![t] = IF ProcOf[t] \in alive THEN "user" ELSE "dead"]
  /\ UNCHANGED <<log, slot, progVars, consVars>>

Die(t) ==
  /\ pc[t] = "user"
  /\ ProcOf[t] \notin alive
  /\ pc' = [pc EXCEPT ![t] = "dead"]
  /\ UNCHANGED <<log, slot, progVars, consVars>>

-----------------------------------------------------------------------------
(***************************************************************************)
(* The consumer thread.                                                    *)
(***************************************************************************)
prodVars == <<log, pc, call, slot, alive, calls>>

\* main attaches the program first and creates the thread only when asked to print
\* system calls; with another option alone, and when ring_buffer__new fails, the
\* program runs and nobody ever reads the buffer.
StartTracer ==
  /\ tracer = "start"
  /\ link # "none"
  /\ tracer' = "poll"
  /\ UNCHANGED <<cons, printed, link, prodVars>>

\* The line that syscall_event_handler prints for record k if its event is e.
PrintedLine(k, e) ==
  [pos |-> k, sys |-> SyscallLabel(e.type), pid |-> e.pid,
   shown |-> [l \in ShownLabels(e.type) |->
                ShownValue(e.type, l, e.args, e.strs)]]

\* Mutants of HandleEvent: a type has no case in the handler, which returns; the
\* handler prints a line on two paths.
HandleEventUncased ==
  /\ tracer = "poll"
  /\ cons < Len(log)
  /\ log[cons + 1].state = "ready"
  /\ printed' = IF log[cons + 1].ev.type = "EVENT_OPENAT" THEN printed
                ELSE Append(printed, PrintedLine(cons + 1, log[cons + 1].ev))
  /\ tracer' = "handled"
  /\ UNCHANGED <<cons, link, prodVars>>

HandleEventTwice ==
  /\ tracer = "poll"
  /\ cons < Len(log)
  /\ log[cons + 1].state = "ready"
  /\ LET line == PrintedLine(cons + 1, log[cons + 1].ev)
     IN  printed' = printed \o <<line, line>>
  /\ tracer' = "handled"
  /\ UNCHANGED <<cons, link, prodVars>>

\* ring_buffer__poll calls the handler on the oldest record, which stays in
\* the buffer until the handler has returned.
HandleEvent ==
  /\ tracer = "poll"
  /\ cons < Len(log)
  /\ log[cons + 1].state = "ready"
  /\ printed' = Append(printed, PrintedLine(cons + 1, log[cons + 1].ev))
  /\ tracer' = "handled"
  /\ UNCHANGED <<cons, link, prodVars>>

Release ==
  /\ tracer = "handled"
  /\ cons' = cons + 1
  /\ tracer' = "poll"
  /\ UNCHANGED <<printed, link, prodVars>>

SkipDiscarded ==
  /\ tracer = "poll"
  /\ cons < Len(log)
  /\ log[cons + 1].state = "discarded"
  /\ cons' = cons + 1
  /\ UNCHANGED <<printed, tracer, link, prodVars>>

\* ring_buffer__poll returns a negative value (a signal interrupted it, for
\* one): the loop ends and so does the thread.
PollFails ==
  /\ tracer = "poll"
  /\ tracer' = "stopped"
  /\ UNCHANGED <<cons, printed, link, prodVars>>

-----------------------------------------------------------------------------
(***************************************************************************)
(* The process they belong to; why it stops or ends is Lifecycle's matter. *)
(***************************************************************************)
\* The positions behind the record being handled, which counts as released.
Released == IF tracer = "handled" THEN cons + 1 ELSE cons

\* main attaches the program before it creates the thread.
Attach ==
  /\ tracer = "start"
  /\ link = "none"
  /\ link' = "attached"
  /\ UNCHANGED <<cons, printed, tracer, prodVars>>

\* cleanup destroys the skeleton, which detaches the program; those that have
\* started go on, and so does the thread while cleanup sleeps.
Detach ==
  /\ tracer # "exited"
  /\ link = "attached"
  /\ link' = "detached"
  /\ UNCHANGED <<cons, printed, tracer, prodVars>>

\* cleanup, the thread or main ends the process at any point, even in the
\* handler; nobody reads the position after that.
Exit ==
  /\ tracer # "exited"
  /\ tracer' = "exited"
  /\ cons' = Released
  /\ link' = IF link = "attached" THEN "detached" ELSE link
  /\ UNCHANGED <<printed, prodVars>>

-----------------------------------------------------------------------------
Program(t) ==
  \/ Reserve(t) \/ ReserveFails(t) \/ Fill(t) \/ Submit(t) \/ Discard(t)
  \/ SendSignal(t) \/ Return(t)

\* The poll loop.
Consume == HandleEvent \/ Release \/ SkipDiscarded

\* Inside the program with a record reserved and not yet submitted or discarded.
Holding == {"fill", "submit", "discard"}

\* The program that holds the record the consumer has come to takes a step.
Serve ==
  \E t \in Threads :
    pc[t] \in Holding /\ slot[t] = cons + 1 /\ Program(t)

Next ==
  \/ \E t \in Threads : Program(t) \/ Die(t) \/ \E c \in Calls : Enter(t, c)
  \/ Consume
  \/ StartTracer \/ PollFails
  \/ Attach \/ Detach \/ Exit

Spec == Init /\ [][Next]_vars

\* A BPF program runs to completion once started (the verifier bounds it), and
\* the kernel wakes the poll loop when the record it stopped at is submitted or
\* discarded.  Of the programs no more is asked than that the one the consumer waits
\* for goes on.  Nothing obliges the loop to come into being, a thread to make
\* calls or the loop to fail.
FairSpec == Spec /\ WF_vars(Consume) /\ WF_vars(Serve)

-----------------------------------------------------------------------------
(***************************************************************************)
(* Properties.                                                             *)
(***************************************************************************)

IsReady(k) == k \in 1..Len(log) /\ log[k].state = "ready"

\* Exactly the submitted records of the released prefix of the buffer have
\* been printed, each once and in the order of reservation, whatever the
\* order in which the CPUs submitted them.
PrintsReleasedInOrder ==
  /\ \A i, j \in 1..Len(printed) : i < j => printed[i].pos < printed[j].pos
  /\ {printed[i].pos : i \in 1..Len(printed)} = {k \in 1..Released : IsReady(k)}

\* A busy record stops the consumer, so each is held by exactly one thread,
\* the one that reserved it, which is still inside the program and has its
\* submit or discard ahead; no thread holds a record in another state.
Holders(k) ==
  {t \in Threads : slot[t] = k /\ pc[t] \in {"fill", "submit", "discard"}}

BusyRecordsHeld ==
  \A k \in 1..Len(log) :
    Holders(k) = IF log[k].state = "busy" THEN {log[k].by} ELSE {}

\* A printed line tells what happened: a traced process made that very call
\* (umount2 is called umount, and every ioctl binder_ioctl, whether it is binder's
\* or not: see OnlyBinderIoctls), the pid is the caller's (the tracee's for ptrace),
\* and under each label is the argument that the calling convention passes under
\* that name, or a string that could not be read; never a left-over of the buffer's
\* memory.
IsNameOf(label, c) ==
  \/ label = c.sys
  \/ label = "umount" /\ c.sys = "umount2"
  \/ label = "binder_ioctl" /\ c.sys = "ioctl"

IsArgument(sys, l, v) ==
  v = Unreadable \/ Names(sys, v, l)

PrintedAsCalled ==
  \A i \in 1..Len(printed) :
    LET line == printed[i]
        rec  == log[line.pos]
        c    == rec.made
    IN  /\ ProcOf[rec.by] \in Traced
        /\ line.pid = IF c.sys = "ptrace" THEN c.tracee ELSE ProcOf[rec.by]
        /\ IsNameOf(line.sys, c)
        /\ \A l \in DOMAIN line.shown : IsArgument(c.sys, l, line.shown[l])

\* Signal 9 and the report of a ptrace call go together: every process that
\* was killed has a submitted ptrace record, and every submitted ptrace
\* record has had its caller killed or has its bpf_send_signal still to come.
KilledIffReported ==
  /\ \A p \in Procs \ alive :
       \E k \in 1..Len(log) :
         IsReady(k) /\ log[k].made.sys = "ptrace" /\ ProcOf[log[k].by] = p
  /\ \A k \in 1..Len(log) :
       IsReady(k) /\ log[k].made.sys = "ptrace" =>
         \/ ProcOf[log[k].by] \notin alive
         \/ slot[log[k].by] = k /\ pc[log[k].by] = "signal"

\* What "terminate ptrace-based debugger" comes to: a thread whose ptrace call was
\* reported never gets back to user mode, so that report is its last.
ReporterNeverReturns ==
  \A k \in 1..Len(log) :
    IsReady(k) /\ log[k].made.sys = "ptrace" =>
      /\ pc[log[k].by] \in {"signal", "exit", "dead"}
      /\ \A j \in (k + 1)..Len(log) : log[j].by # log[k].by

\* Once visible to the consumer a record does not change: the consumer reads
\* it without a lock while the programs on other CPUs go on writing.
SubmittedIsFinal ==
  [][\A k \in 1..Len(log) :
       log[k].state # "busy" => k \in 1..Len(log') /\ log'[k] = log[k]]_vars

\* Where there is a reader, every submitted record is printed in the end, unless the
\* poll loop ends first: no other CPU's record can hold it up for ever.  Without one
\* (the system call tracer not asked for, or its set-up failed) nothing is promised.
GetsPrinted(k) ==
  (IsReady(k) /\ tracer # "start")
    ~> (k <= Released \/ tracer \in {"stopped", "exited"})

SubmittedGetsPrinted == \A k \in 1..MaxCalls : GetsPrinted(k)

\* The pipeline is a queue of tickets, a ticket being the position of a
\* record: reserving accepts it, discarding withdraws it, printing delivers.
Waiting   == {k \in (Released + 1)..Len(log) : log[k].state # "discarded"}
Delivered == [i \in 1..Len(printed) |-> printed[i].pos]

Channel == INSTANCE EventChannel WITH
  accepted  <- Len(log),
  waiting   <- Waiting,
  delivered <- Delivered,
  open      <- tracer \notin {"stopped", "exited"}

ChannelSpec == Channel!Spec

-----------------------------------------------------------------------------
(***************************************************************************)
(* The inductive invariant from which the safety properties are proved.    *)
(***************************************************************************)
\* Only a traced thread whose call has a case gets past Enter.
EmittersAreTargets ==
  \A t \in Threads :
    pc[t] \in {"reserve"} \cup Holding => IsTarget(t) /\ Emits(call[t])

\* A thread with a record in hand owns it, and a busy record has its owner.
OwnersHoldBusy ==
  \A t \in Threads : pc[t] \in Holding =>
    /\ slot[t] \in 1..Len(log)
    /\ log[slot[t]].state = "busy"
    /\ log[slot[t]].by = t
    /\ log[slot[t]].made = call[t]

BusyHaveOwner ==
  \A k \in 1..Len(log) : log[k].state = "busy" =>
    slot[log[k].by] = k /\ pc[log[k].by] \in Holding

\* Before the signal comes the report.
SignalAfterReport ==
  \A t \in Threads : pc[t] = "signal" =>
    /\ slot[t] \in 1..Len(log)
    /\ log[slot[t]].state = "ready"
    /\ log[slot[t]].by = t
    /\ log[slot[t]].made.sys = "ptrace"

\* The consumer has gone past no busy record.
ReleasedAreDone ==
  /\ \A k \in 1..cons : log[k].state # "busy"
  /\ tracer = "handled" => cons < Len(log) /\ log[cons + 1].state = "ready"

IsFilled(rec) ==
  /\ ProcOf[rec.by] \in Traced
  /\ Emits(rec.made)
  /\ \E faults \in SUBSET (1..3) : rec.ev = EventFor(rec.made, rec.by, faults)

\* Every store into a record comes before its submission.
ReadyAreFilled ==
  /\ \A k \in 1..Len(log) : log[k].state = "ready" => IsFilled(log[k])
  /\ \A t \in Threads : pc[t] = "submit" => IsFilled(log[slot[t]])

\* A line stays what its record says.
LinesMatchRecords ==
  \A i \in 1..Len(printed) :
    /\ IsReady(printed[i].pos)
    /\ printed[i] = PrintedLine(printed[i].pos, log[printed[i].pos].ev)

IInv ==
  /\ TypeOK
  /\ EmittersAreTargets
  /\ OwnersHoldBusy
  /\ BusyHaveOwner
  /\ SignalAfterReport
  /\ ReleasedAreDone
  /\ ReadyAreFilled
  /\ LinesMatchRecords
  /\ PrintsReleasedInOrder
  /\ KilledIffReported

\* For ReporterNeverReturns: what a thread holds is the last record it reserved.
HeldIsLast ==
  \A t \in Threads : pc[t] \in Holding =>
    \A j \in (slot[t] + 1)..Len(log) : log[j].by # t

\* For liveness: what is still in memory fits into the buffer.
BufferBounded == Len(log) - cons <= Capacity

\* When the poll loop has a step, and when the program it waits for has one.
ConsumerMayMove ==
  \/ tracer = "poll" /\ cons < Len(log) /\ log[cons + 1].state # "busy"
  \/ tracer = "handled"

HolderInFront == \E t \in Threads : pc[t] \in Holding /\ slot[t] = cons + 1

\* The fairness of FairSpec with those guards written out: a step that stays
\* possible is taken.
RunsOn ==
  /\ []<>~ConsumerMayMove \/ []<><<Consume>>_vars
  /\ []<>~HolderInFront \/ []<><<Serve>>_vars

-----------------------------------------------------------------------------
(***************************************************************************)
(* What the documentation says and the code does not do.                   *)
(***************************************************************************)

\* "Terminate ptrace-based debugger when a tentative to hook the target
\* process is made": no thread of another process returns alive from a ptrace call
\* on a target that was made with the program attached.
DebuggerTerminated ==
  [][\A t \in Threads :
       /\ pc[t] = "exit"
       /\ call[t].sys = "ptrace"
       /\ call[t].tracee \in Traced
       /\ call[t].tracee # ProcOf[t]
       => pc'[t] # "user"]_vars

\* "Check if the ioctl is targeting /dev/binder": what is printed as binder_ioctl
\* was an ioctl on /dev/binder.
OnlyBinderIoctls ==
  \A i \in 1..Len(printed) :
    printed[i].sys = "binder_ioctl" => log[printed[i].pos].made.binder
=============================================================================
