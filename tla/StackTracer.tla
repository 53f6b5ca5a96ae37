---------------------------- MODULE StackTracer ----------------------------
(***************************************************************************)
(* The backtrace pipeline.  The thread stack_tracer attaches the program   *)
(* get_stacktrace to a clock event of every online CPU, one CPU after the  *)
(* other, then opens the perf buffers of perfmap and polls them.  Sampling *)
(* goes on meanwhile: a CPU's program fills the CPU's entry of             *)
(* stackdata_map and outputs it.                                           *)
(*                                                                         *)
(* The number of frames that the handler shows is data here, and so is the *)
(* sample that each frame comes from; addresses and symbols are not.       *)
(***************************************************************************)
EXTENDS Integers, Sequences

CONSTANTS
  NumCpus,      \* libbpf_num_possible_cpus
  Online,       \* the CPUs of online_mask
  PerfSlots,    \* max_entries of perfmap
  RingSamples,  \* samples that the buffer of a CPU holds
  MaxFrames,    \* MAX_STACK_RAWTP
  Huge,         \* a negative error code read as an unsigned long, in frames
  KernelErrors, \* bpf_get_stack may fail for kernel stacks
  MaxSamples    \* bound: samples of the target taken in a behaviour

ASSUME StackAssumption ==
  /\ NumCpus \in Nat \ {0}
  /\ Online \subseteq 0..(NumCpus - 1)
  /\ PerfSlots \in Nat
  /\ RingSamples \in Nat \ {0}
  /\ MaxFrames \in Nat \ {0}
  /\ Huge \in Nat /\ Huge > 2 * MaxFrames
  /\ KernelErrors \in BOOLEAN
  /\ MaxSamples \in Nat

VARIABLES
  thread,    \* where stack_tracer is
  cpu,       \* index of its attach loop
  attached,  \* CPUs with the program attached
  opened,    \* CPUs whose perf buffer is in perfmap
  data,      \* stackdata_map: each CPU's stack_trace_t
  prog,      \* where get_stacktrace is on each CPU
  pushed,    \* the samples each buffer has taken, oldest first
  tail,      \* how many of them have been given back as free space
  batch,     \* the buffer being read, the next sample in it, and where to stop
  printed,   \* the dumps shown of each CPU's samples, oldest first
  taken      \* number of samples taken

vars == <<thread, cpu, attached, opened, data, prog, pushed, tail, batch, printed, taken>>
kernelVars == <<data, prog, pushed, taken>>
readVars == <<tail, batch, printed>>

Cpus == 0..(NumCpus - 1)
Failed == -1   \* a negative result of bpf_get_stack

\* A stack_trace_t.  by is the sample it belongs to, which the program does not
\* store; a frame is the sample that wrote it, or 0.
Frames == [1..MaxFrames -> 0..MaxSamples]
Sample == [by : 0..MaxSamples, kernSize : Failed..MaxFrames,
           userSize : Failed..MaxFrames, kern : Frames, user : Frames]

\* What the handler shows: how many frames of each kind, and of which sample; pos
\* is the sample's position in its buffer.
Dump == [pos : Nat, sample : Sample, kernShown : Nat, userShown : Nat]

TypeOK ==
  /\ thread \in {"attach", "buffer", "poll", "read", "stopped"}
  /\ cpu \in 0..NumCpus
  /\ attached \in SUBSET Cpus
  /\ opened \in SUBSET Cpus
  /\ data \in [Cpus -> Sample]
  /\ prog \in [Cpus -> {"idle", "output"}]
  /\ pushed \in [Cpus -> Seq(Sample)]
  /\ tail \in [Cpus -> Nat] /\ \A c \in Cpus : tail[c] <= Len(pushed[c])
  /\ batch \in [cpu : Cpus, next : Nat, end : Nat]
  /\ printed \in [Cpus -> Seq(Dump)]
  /\ taken \in 0..MaxSamples

NoFrames == [n \in 1..MaxFrames |-> 0]

Init ==
  /\ thread = "attach"
  /\ cpu = 0
  /\ attached = {}
  /\ opened = {}
  /\ data = [c \in Cpus |-> [by |-> 0, kernSize |-> 0, userSize |-> 0,
                             kern |-> NoFrames, user |-> NoFrames]]
  /\ prog = [c \in Cpus |-> "idle"]
  /\ pushed = [c \in Cpus |-> << >>]
  /\ tail = [c \in Cpus |-> 0]
  /\ batch = [cpu |-> 0, next |-> 1, end |-> 0]
  /\ printed = [c \in Cpus |-> << >>]
  /\ taken = 0

-----------------------------------------------------------------------------
(***************************************************************************)
(* get_stacktrace on CPU c, in a thread of the target.                     *)
(***************************************************************************)

\* bpf_get_stack stores n frames and leaves the rest of the buffer alone; when
\* it fails it clears the buffer.
StoreFrames(old, n, s) ==
  IF n = Failed THEN NoFrames ELSE [m \in 1..MaxFrames |-> IF m <= n THEN s ELSE old[m]]

TakeSample(c) ==
  /\ prog[c] = "idle"
  /\ c \in attached
  /\ taken < MaxSamples
  /\ taken' = taken + 1
  /\ \E k, u \in Failed..MaxFrames :
       /\ k = Failed => KernelErrors
       /\ data' = [data EXCEPT ![c] =
                    [by |-> taken + 1, kernSize |-> k, userSize |-> u,
                     kern |-> StoreFrames(data[c].kern, k, taken + 1),
                     user |-> StoreFrames(data[c].user, u, taken + 1)]]
  /\ prog' = [prog EXCEPT ![c] = "output"]
  /\ UNCHANGED <<thread, cpu, attached, opened, pushed, readVars>>

\* The flags of bpf_perf_event_output are 0, which is an index of perfmap.
OutputSlot(c) == 0

\* It takes the sample if that slot holds this CPU's buffer and there is room.
Accepts(c) ==
  /\ OutputSlot(c) = c
  /\ c \in opened
  /\ Len(pushed[c]) - tail[c] < RingSamples

Output(c) ==
  /\ prog[c] = "output"
  /\ pushed' = IF Accepts(c) THEN [pushed EXCEPT ![c] = Append(@, data[c])] ELSE pushed
  /\ prog' = [prog EXCEPT ![c] = "idle"]
  /\ UNCHANGED <<thread, cpu, attached, opened, data, taken, readVars>>

-----------------------------------------------------------------------------
(***************************************************************************)
(* The thread stack_tracer.                                                *)
(***************************************************************************)

\* Mutant of SkipCpu: the loop runs one CPU too far.
SkipCpuPastEnd ==
  /\ thread = "attach"
  /\ cpu <= NumCpus /\ cpu \notin Online
  /\ cpu' = cpu + 1
  /\ UNCHANGED <<thread, attached, opened, kernelVars, readVars>>

\* The attach loop.  A CPU that cannot be opened or attached ends the thread;
\* the CPUs before it stay attached.
SkipCpu ==
  /\ thread = "attach"
  /\ cpu < NumCpus /\ cpu \notin Online
  /\ cpu' = cpu + 1
  /\ UNCHANGED <<thread, attached, opened, kernelVars, readVars>>

AttachCpu ==
  /\ thread = "attach"
  /\ cpu < NumCpus /\ cpu \in Online
  /\ attached' = attached \cup {cpu}
  /\ cpu' = cpu + 1
  /\ UNCHANGED <<thread, opened, kernelVars, readVars>>

AttachFails ==
  /\ thread = "attach"
  /\ cpu < NumCpus /\ cpu \in Online
  /\ thread' = "stopped"
  /\ UNCHANGED <<cpu, attached, opened, kernelVars, readVars>>

\* blaze_symbolizer_new.
CreateSymbolizer ==
  /\ thread = "attach"
  /\ cpu = NumCpus
  /\ thread' \in {"buffer", "stopped"}
  /\ UNCHANGED <<cpu, attached, opened, kernelVars, readVars>>

\* Mutant of OpenBuffers: the thread opens them again instead of polling them.
OpenBuffersAgain ==
  /\ thread = "buffer"
  /\ \/ /\ opened' = {c \in Online : c < PerfSlots}
        /\ UNCHANGED thread
     \/ /\ UNCHANGED opened
        /\ thread' = "stopped"
  /\ UNCHANGED <<cpu, attached, kernelVars, readVars>>

\* perf_buffer__new opens a buffer for each online CPU that has a slot.
OpenBuffers ==
  /\ thread = "buffer"
  /\ \/ /\ opened' = {c \in Online : c < PerfSlots}
        /\ thread' = "poll"
     \/ /\ UNCHANGED opened
        /\ thread' = "stopped"
  /\ UNCHANGED <<cpu, attached, kernelVars, readVars>>

\* perf_buffer__poll reads a buffer up to where it ends when it looks.
StartBatch(c) ==
  /\ thread = "poll"
  /\ c \in opened
  /\ tail[c] < Len(pushed[c])
  /\ batch' = [cpu |-> c, next |-> tail[c] + 1, end |-> Len(pushed[c])]
  /\ thread' = "read"
  /\ UNCHANGED <<cpu, attached, opened, kernelVars, tail, printed>>

\* kern_stack_size is unsigned: an error code in it is a huge size.
KernShown(s) == IF s.kernSize = Failed THEN Huge ELSE s.kernSize

\* Mutant of UserShown: user_stack_size is unsigned too.
UserShownUnsigned(s) == IF s.userSize = Failed THEN Huge ELSE s.userSize

\* user_stack_size is an int: an error code in it means no stack.
UserShown(s) == IF s.userSize > 0 THEN s.userSize ELSE 0

\* Mutants of HandleSample: a sample without a user stack is not shown; the two
\* stacks of a sample are shown as two dumps.
HandleUserSample ==
  /\ thread = "read"
  /\ batch.next <= batch.end
  /\ LET s == pushed[batch.cpu][batch.next]
     IN  printed' = IF UserShown(s) = 0 THEN printed
                    ELSE [printed EXCEPT ![batch.cpu] =
                            Append(@, [pos |-> batch.next, sample |-> s,
                                       kernShown |-> KernShown(s),
                                       userShown |-> UserShown(s)])]
  /\ batch' = [batch EXCEPT !.next = @ + 1]
  /\ UNCHANGED <<thread, cpu, attached, opened, kernelVars, tail>>

HandleSampleByPart ==
  /\ thread = "read"
  /\ batch.next <= batch.end
  /\ LET s    == pushed[batch.cpu][batch.next]
         dump == [pos |-> batch.next, sample |-> s, kernShown |-> KernShown(s),
                  userShown |-> 0]
     IN  printed' = [printed EXCEPT ![batch.cpu] =
                       @ \o <<dump, [dump EXCEPT !.kernShown = 0,
                                                 !.userShown = UserShown(s)]>>]
  /\ batch' = [batch EXCEPT !.next = @ + 1]
  /\ UNCHANGED <<thread, cpu, attached, opened, kernelVars, tail>>

\* stack_event_handler.
HandleSample ==
  /\ thread = "read"
  /\ batch.next <= batch.end
  /\ LET s == pushed[batch.cpu][batch.next]
     IN  printed' = [printed EXCEPT ![batch.cpu] =
                       Append(@, [pos |-> batch.next, sample |-> s,
                                  kernShown |-> KernShown(s),
                                  userShown |-> UserShown(s)])]
  /\ batch' = [batch EXCEPT !.next = @ + 1]
  /\ UNCHANGED <<thread, cpu, attached, opened, kernelVars, tail>>

\* The samples read are given back all at once.
EndBatch ==
  /\ thread = "read"
  /\ batch.next > batch.end
  /\ tail' = [tail EXCEPT ![batch.cpu] = batch.end]
  /\ thread' = "poll"
  /\ UNCHANGED <<cpu, attached, opened, kernelVars, batch, printed>>

\* perf_buffer__poll returns a negative value: the thread ends, the programs
\* stay attached.
PollFails ==
  /\ thread = "poll"
  /\ thread' = "stopped"
  /\ UNCHANGED <<cpu, attached, opened, kernelVars, readVars>>

-----------------------------------------------------------------------------
Poll == (\E c \in Cpus : StartBatch(c)) \/ HandleSample \/ EndBatch
SetUp == SkipCpu \/ AttachCpu \/ AttachFails \/ CreateSymbolizer \/ OpenBuffers

Next == (\E c \in Cpus : TakeSample(c) \/ Output(c)) \/ SetUp \/ Poll \/ PollFails

Spec == Init /\ [][Next]_vars

\* The poll loop is woken when a buffer has samples, and goes on with a batch it has
\* begun.  Nothing obliges the programs to sample or the loop to fail.
FairSpec == Spec /\ WF_vars(Poll)

-----------------------------------------------------------------------------
(***************************************************************************)
(* Properties.                                                             *)
(***************************************************************************)

Min2(a, b) == IF a < b THEN a ELSE b

\* Every frame shown was captured with the sample it is shown for, although
\* the samples of a CPU share one buffer in stackdata_map that is never cleared.
ShowsOwnFrames ==
  \A c \in Cpus : \A d \in 1..Len(printed[c]) :
    LET dump == printed[c][d]
        s    == dump.sample
    IN  /\ \A n \in 1..Min2(dump.kernShown, MaxFrames) : s.kern[n] = s.by
        /\ \A n \in 1..Min2(dump.userShown, MaxFrames) : s.user[n] = s.by

\* "Showing kernel stack events if any": no more frames are shown than the
\* sample has room for.
ShowsFramesOfRecord ==
  \A c \in Cpus : \A d \in 1..Len(printed[c]) :
    printed[c][d].kernShown <= MaxFrames /\ printed[c][d].userShown <= MaxFrames

\* The samples of c's buffer that the thread has dealt with.
Read(c) == IF thread = "read" /\ batch.cpu = c THEN batch.next - 1 ELSE tail[c]

\* A dump shows what its sample's sizes say.
IsDumpOf(dump, s) ==
  /\ dump.sample = s
  /\ dump.kernShown = KernShown(s)
  /\ dump.userShown = UserShown(s)

\* No sample that perf_buffer__poll took from a buffer is skipped or shown twice,
\* those that arrive while a batch is read included: dump n of a CPU is that of the
\* n-th sample its buffer accepted.
DumpsFollowBuffer ==
  \A c \in Cpus :
    /\ Len(printed[c]) = Read(c)
    /\ \A n \in 1..Len(printed[c]) :
         printed[c][n].pos = n /\ IsDumpOf(printed[c][n], pushed[c][n])

\* The buffer of CPU 0, the only one that fills, is a queue: samples are shown in
\* the order in which the CPU took them, each at most once, until the thread
\* ends; the space of a sample is not reused while it may still be read.
Channel == INSTANCE EventChannel WITH
  accepted  <- Len(pushed[0]),
  waiting   <- (Read(0) + 1)..Len(pushed[0]),
  delivered <- [n \in 1..Len(printed[0]) |-> printed[0][n].pos],
  open      <- thread # "stopped"

StackChannel == Channel!Spec

\* A sample that got into a buffer is shown in the end, or the thread ended.
GetsShown(c, n) ==
  n <= Len(pushed[c]) ~> (n <= Read(c) \/ thread = "stopped")

PushedGetsShown == \A c \in Cpus : \A n \in 1..MaxSamples : GetsShown(c, n)

\* "a perf_event program samples the target process, captures its stack ... and
\* pushes it to a perf buffer, polled by ...": while the thread polls, a sample
\* taken is pushed, unless the buffer is full.
PollingGetsSamples ==
  [][\A c \in Cpus :
       (prog[c] = "output" /\ prog'[c] = "idle" /\ thread \in {"poll", "read"})
         => \/ Len(pushed'[c]) = Len(pushed[c]) + 1
            \/ Len(pushed[c]) - tail[c] >= RingSamples]_vars

-----------------------------------------------------------------------------
(***************************************************************************)
(* The inductive invariant from which the safety properties are proved.    *)
(***************************************************************************)

\* Up to its sizes a sample holds frames of its own.
IsOwn(s) ==
  /\ \A n \in 1..MaxFrames : n <= s.kernSize => s.kern[n] = s.by
  /\ \A n \in 1..MaxFrames : n <= s.userSize => s.user[n] = s.by
  /\ s.kernSize = Failed => KernelErrors

SamplesAreOwn ==
  \A c \in Cpus :
    /\ IsOwn(data[c])
    /\ \A n \in 1..Len(pushed[c]) : IsOwn(pushed[c][n])

\* A batch is a part of the buffer that has not been given back.
BatchInBuffer ==
  thread = "read" =>
    /\ tail[batch.cpu] < batch.next
    /\ batch.next <= batch.end + 1
    /\ batch.end <= Len(pushed[batch.cpu])

IInv == TypeOK /\ SamplesAreOwn /\ BatchInBuffer /\ DumpsFollowBuffer

\* A thread that polls has a step to take when a buffer has samples, and one that reads
\* a batch has one whatever the programs push meanwhile.
ThreadMayMove ==
  \/ thread = "read"
  \/ thread = "poll" /\ \E c \in opened : tail[c] < Len(pushed[c])

\* The fairness of FairSpec with that guard written out: a step that stays possible is
\* taken.
RunsOn == []<>~ThreadMayMove \/ []<><<Poll>>_vars

\* For liveness: nothing is pushed before the buffers are open, and then by CPU 0
\* only; what has not been given back fits into its buffer.
FirstCpuOnly ==
  /\ thread \in {"attach", "buffer"} => opened = {}
  /\ \A c \in Cpus : pushed[c] # << >> => c = 0 /\ c \in opened

BufferBounded == \A c \in Cpus : Len(pushed[c]) - tail[c] <= RingSamples
=============================================================================
