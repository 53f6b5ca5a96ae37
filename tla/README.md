# ePtracer in TLA+

ePtracer traces one process with eBPF: which system calls it makes, and where its
threads spend their time. Little of that is sequential. BPF programs run on all CPUs
at once in the context of the threads they observe, the threads of the tracer read
what those programs write, and the only locks are the kernel's. This directory holds
a model of that concurrency, checked with TLC on small instances and, for the
properties that matter most, proved with TLAPS for every instance.

Paths are relative to the repository root, so the code proper is in `src/`.

## 1. The system

### Components

| Component | Code | State | Operations |
|---|---|---|---|
| Syscall pipeline, kernel side | `src/eptracer.bpf.c` `sys_enter_multiplexer`, `syscall_rb_map` | the ring buffer: records that are busy, submitted or discarded; producer and consumer positions | one case per system call: reserve, fill, submit or discard; for ptrace also send signal 9 |
| Syscall pipeline, user side | `src/tracers/syscall.c` `syscall_tracer`, `syscall_event_handler` | where the thread is; the lines printed | create the ring buffer reader, poll, handle a record, end on a poll error |
| Target filter | `src/eptracer.bpf.c` `is_target_program`, `str_equals`, `program_map` | the identifier (a name or a number, in ASCII) | compare with the thread's name, read as a number, compare with the pid |
| Backtrace pipeline, kernel side | `src/eptracer.bpf.c` `get_stacktrace`, `stackdata_map`, `perfmap` | one `stack_trace_t` per CPU, one perf buffer per CPU | capture kernel and user stack, output the entry |
| Backtrace pipeline, user side | `src/tracers/stacktrace.c` `stack_tracer`, `stack_event_handler`, `show_stack_trace` | attached CPUs, open buffers, the batch being read | attach CPU by CPU, create symbolizer, open buffers, poll, show a sample |
| Life cycle | `src/eptracer.c` `main`, `get_PID_to_trace`, `initialize_array`, `cleanup` | `skel`, the child and its pipe, the tracer threads | load, spawn, store the identifier, attach, start the threads, join, clean up on failure and on SIGINT |
| JDWP packet filter | `src/bpf/jdwp.bpf.c` | its own ring buffer | pass a packet, report its payload |
| JDWP monitor | `src/bpf/jdwp.c` | `exiting`, `err`, the exit status | set up, poll until SIGINT or SIGTERM, tear down |
| Command line, logging | `src/include/args.h`, `argparse.h`, `log.h` | `args` | parse |

`decode_syscall` (`src/tracers/syscall.c:23-160`) is called by nothing; the skeleton
header and `vmlinux.h` are generated.

### Interactions

```
 thread of any process --sys_enter--> sys_enter_multiplexer --is_target_program--> program_map
                                        | reserve, fill, submit/discard              ^ main, once
                                        v                                            |
                                   syscall_rb_map --ring_buffer__poll--> syscall_tracer: prints lines

 clock of a CPU ------------> get_stacktrace (same filter) --> stackdata_map[cpu]
                                        | bpf_perf_event_output
                                        v
                                   perfmap[cpu] --perf_buffer__poll--> stack_tracer: prints dumps
```

`main` spawns the process to trace (`-p`) or takes its pid (`-P`), attaches
`sys_enter_multiplexer`, starts one thread per pipeline asked for (`-s`, `-S`) and joins
them. `cleanup`, which `main` calls when a step fails and which is also the SIGINT handler,
destroys the skeleton that both threads use. The JDWP monitor is a program of its own:

```
 packet on a CPU --> filter_jdwp_packets --bpf_ringbuf_output--> rb --ring_buffer__poll--> main: prints reports
                                                                      SIGINT, SIGTERM --> exiting
```

### What is hard

* **Order.** Records are reserved in one order and submitted in another, by CPUs that
  know nothing of each other; the consumer must print them in the order of
  reservation, once each, without reading one that is still being written.
* **Stopping.** A record that some path forgets to submit or discard stops the consumer
  for ever, and soon the producers.
* **Partial failure.** A reservation fails when the buffer is full, a user string cannot
  be read, a CPU goes away while the program is attached to it, a poll is interrupted.
* **Two steps.** A ptrace call is reported and then its caller is killed.
* **Left-over data.** Neither the ring buffer's memory nor the entries of
  `stackdata_map` are ever cleared.
* **Tables that must agree.** Which argument a case stores where, which field the handler
  prints under which label, and the calling convention of the architecture.
* **Numbers.** A numeral wraps at 2^64; an error code is kept in an unsigned size.
* **Signals and process life.** SIGINT runs `cleanup` in the middle of everything, on any
  thread, and again during `cleanup`; the child may die before it says its pid, or call
  `execvp` before the program is attached; a pid may be reused. In the JDWP monitor a signal
  may come between the test of the flag and the wait.

`PROJECT.json` lists each of these with its line under "hazards".

### What makes each component correct

* *Syscall pipeline*: it is a FIFO channel that may refuse or withdraw a message but
  never reorders, repeats or forgets one; a busy record has an owner that will finish it;
  a submitted record is final; a line says what the thread did; a kill and its report go
  together; what was submitted is printed in the end if anybody reads at all.
* *Target filter*: exactly the threads of the named program or pid get through.
* *Backtrace pipeline*: each CPU's samples are shown in order, once, with the frames
  captured for that sample and no others; what was pushed is shown in the end.
* *Life cycle*: the program is attached before anybody reads its events, and the end of the
  process takes both away; a single SIGINT that finds the threads polling frees the skeleton
  once, after its last use, and ends the process; the pid traced is the child's and stays so;
  `read` does not wait for a dead child.
* *JDWP*: what is printed of a packet comes from inside the packet; reports are printed in
  order, once each; a signal ends the monitor; its status tells whether something failed.

## 2. The modules

| Module | What it is |
|---|---|
| `EventChannel` | Abstract specification: a queue of numbered tickets that may be withdrawn, delivered in order, and closed. |
| `SyscallTable` | The data of the three tables: what each `case` stores, what the handler prints, the calling conventions. |
| `TracerLife` | Abstract specification: the life of a tracing process, as its parts may rely on it. |
| `SyscallTracer` | The syscall pipeline. Extends `SyscallTable`; implements `EventChannel`. |
| `TargetFilter` | One evaluation of `is_target_program`, a character per step. |
| `StackTracer` | The backtrace pipeline. Implements `EventChannel`. |
| `Lifecycle` | `main`, the child, the threads as users of the skeleton, `cleanup`. Implements `TracerLife`. |
| `Jdwp` | The XDP program and the process that prints its reports. Implements `EventChannel`. |
| `MCSyscallTracer`, `MCTargetFilter`, `MCStackTracer`, `MCLifecycle`, `MCJdwp` | Instances for TLC: threads, calls, short strings, CPU masks, command lines, packets. |
| `EventChannel_proofs`, `SyscallTable_proofs`, `SyscallTracer_proofs`, `TargetFilter_proofs`, `StackTracer_proofs`, `Lifecycle_proofs`, `Jdwp_proofs`, `JdwpDelivery_proofs` | Theorems and their proofs. |

### SyscallTracer

Several `Threads` of several `Procs` make `Calls`. What the program does in the context
of thread `t` is `pc[t]`:

| `pc[t]` | Where | Actions |
|---|---|---|
| user | outside the kernel | `Enter` (tracepoint fires: filter, `switch`), `Die` |
| reserve | before `bpf_ringbuf_reserve` | `Reserve`, `ReserveFails` |
| fill | the stores and `bpf_probe_read_user` | `Fill` |
| submit / discard | before `bpf_ringbuf_submit` / `_discard` | `Submit`, `Discard` |
| signal | ptrace only, before `bpf_send_signal(9)` | `SendSignal` |
| exit | the program has returned | `Return` |

The buffer is `log`, every record ever reserved, and `cons`, the number the consumer has
given back; records `cons+1 .. Len(log)` occupy memory and `Capacity`, computed from the
structure's layout as the kernel does (eight events of 456 bytes in 4096), limits them.
`call[t]` is the call a thread makes, or `NoCall` where the tracepoint met no program.
A record carries two history fields, `by` and `made` (who reserved it and for what);
the program neither stores nor reads them and no guard depends on them.
`bpf_ringbuf_reserve` serializes producers under a spin lock, so `Reserve` is one step; the
consumer cannot see a busy record, so all stores into it are one step too (`Fill`).

A value is abstracted to *where it comes from*: argument `n` of the call (or the string it
points to), memory nobody wrote (`Stale`), or a string whose probe failed (`Unreadable`).
That is all that can go wrong with it on the way from `ctx->args` to `printf`.

The consumer is `tracer`: `start`, `poll`, `handled` (the handler has returned, the position
is not yet stored), `stopped` (a poll failed and the thread ended), `exited` (the process).
`link` says whether the program is attached. `Attach`, `Detach` and `Exit` are what the rest of
the process does to the pipeline: calls made before `Attach` go unseen, a program that has
started goes on after `Detach`, and `Exit` may come at any point, in the handler too.
`StartTracer` may never happen: `main` attaches the program whatever the options are and creates
the thread for `-S` only. These five actions allow the orders `TracerLife` allows (below).

### TargetFilter

`Init` picks an identifier, a thread name and a pid; `SameChar`, `EndOfString` and
`OtherChar` are the iterations and exits of `str_equals`; `ReadDigit` and `EndOfNumber` those
of the loop that reads the number. Characters are digits, letters or `Nul`. Buffer length,
base and word size are parameters (`MAX_PROGRAM_STRING_LEN`, 10 and 2^64 in the code). In the
two pipelines the filter is a parameter: `Traced`, or the choice to take a sample.

### StackTracer

`SkipCpu`, `AttachCpu`, `AttachFails`, `CreateSymbolizer` and `OpenBuffers` are the thread's
set-up; meanwhile `TakeSample` and `Output` are `get_stacktrace` on the CPUs that are already
attached. `StartBatch`, `HandleSample` and `EndBatch` are `perf_buffer__poll`: libbpf looks once
where a CPU's buffer ends, hands over the samples up to there, and gives their space back all
at once. A frame is abstracted to the sample that captured it; a stack size to a number of
frames, or `Failed`.

### Lifecycle

`main` is the place `main` has reached, from `setup` to `join`; `MainFails` is the failure of
any step whose failure calls `cleanup`, `MainEnds` the others and the normal return. `args`
is what the command line asks for. `Spawn` is `pipe`, `fork`, the closing of the parent's end and
`create_execvp_args`, of which `argc`, the index of the `NULL`, is kept; `ReadPid` waits for
a pid or for the end of file. The child has actions of its own (`ChildWrites`, `ChildExecs`,
`TargetDies`, and for a process named with `-P` also `TargetReaped` and `PidReused`).

The threads (`tracers[t]`) appear as users of the skeleton: `StackUses` and `SyscallUses` are
the statements that take a program or a map from it, each of which may fail.

`cleanup[c]` is where each call of `cleanup` is. There are four: `main`'s own (`direct`) and the
handler on each of three threads. A handler suspends the thread below it and never returns;
the kernel delivers SIGINT to `main` unless `main` is in its handler, and then to another thread.
`Test`, `Destroy`, `Clear` and `Exit` are its four steps; between `Destroy` and `Clear` a second
call sees the pointer still set. `misuse` collects what C leaves undefined, the use and the
second destruction of a freed skeleton: an execution goes on after it, as the build may, and
`Killed` lets it end anywhere. `jammed` are the calls that interrupted the memory allocator, and
`Stick` is a call that waits for that lock for ever. `calm` is a history field: no thread
was setting up when a cleanup began.

### TracerLife: how life cycle and pipeline fit together

The product of the two state spaces is out of reach and mostly noise, so the composition
goes through an interface instead. `TracerLife` has three variables (`link`, `reader`, `alive`)
and says: attached at most once, read only after that, and all over at the end of the process.
`Lifecycle` implements it (`LifeSpec` there), so every order in which the real process attaches,
detaches and ends is one that `TracerLife` allows; this refinement is model-checked and proved. The
actions by which `SyscallTracer` sees its process (`Attach`, `StartTracer`, `PollFails`, `Detach`,
`Exit`) have the guards of `TracerLife`'s and no others, so its properties hold under every such
order, SIGINT in any state of the pipeline included.

### Jdwp

A packet is its length, the IP version, the length field `ihl`, the first byte of the source port,
and where the first zero byte of its payload is. `Receive` is `detect_jdwp_protocol` up to
`bpf_ringbuf_output`, which is `Reserve` and `Commit`, since another CPU may come between.
`Receive` may also find the payload unreadable (`XDP_ABORTED`, no report).
`Reserve` drops the report when the buffer is full. `from`, in a report, is a history field. `Attached`
counts the cleanup as attached even when it follows a failed `ring_buffer__new`, before the attach
(`bpf/jdwp.c:108-115`): some behaviours too many, in which reports are accepted that nobody prints.

The process is `main`'s four set-up steps, then the loop as `check` (test the flag), `call` (enter
poll), `wait` (in `epoll_wait`), `read` and `handled`. `Signal` sets the flag anywhere and
interrupts only `epoll_wait`; `Continued` is the interruption by a stop and a SIGCONT, which
sets no flag. `err` may be `unset`: then the status is whatever the stack held.

### Model of the kernel and libbpf

These are not in the repository and are modelled from how its code uses them: ring buffer
and perf buffer, `bpf_get_stack` (writes `n` frames and leaves the rest alone, or clears the
buffer and fails), `bpf_perf_event_output` (refuses a buffer of another CPU),
`bpf_probe_read_kernel_str` (copies up to a zero byte and always ends with one), signal 9 (takes
a thread when it returns to user mode), SIGINT (goes to the first thread that does not block
it), `epoll_wait` (a signal, or a stop and SIGCONT, interrupts it), `fork` and pipes, the
reuse of pids (not while a zombie holds one), the lock of `malloc`, calling conventions.
What has no line in `src/` is marked `external` in the
map of `PROJECT.json`.

## 3. The runs

| Run | Instance | Shows |
|---|---|---|
| `pipeline` | 3 threads (2 of the target), room for 2 records, 4 calls out of read, openat, ptrace; 1,908,577 states | The safety properties of the syscall pipeline, that a reported debugger never returns to user mode, and that it implements `EventChannel`. |
| `decode` | 2 threads, every call with a case and one without, 2 calls, x86-64 as built; 570,636 states | A line says what was called, whatever strings are unreadable (for an ioctl, see `ioctl_name`). Where there is a reader, every submitted record is printed in the end. |
| `untraced_debugger` | the program attached, a debugger that is not the traced process | **Violated**: it calls ptrace on the target and returns alive. |
| `ioctl_name` | arm64 as built, one ioctl on binder and one on another device | **Violated**: the other one is printed as `binder_ioctl`. |
| `arm64_clone` | `CloneBackwards` | **Violated**: `clone`'s tls is printed as child_tid. |
| `filter` | all identifiers of 1 to 4 characters in a buffer of 4, all names of up to 2, base 2, word 8, pids 0, 1, 2, 3, 5; 53,565 states | The filter is exact for every sensible identifier. |
| `filter_prefix` | the same | **Violated**: an identifier that merely begins with digits selects a pid. |
| `stack` | 3 possible CPUs, 2 online, room for 2 samples, 3 samples; 51,954 states | The dumps are those of the samples pushed, in order, each once, with their own frames; `EventChannel`; every pushed sample is shown in the end. |
| `stack_error` | kernel stacks may fail | **Violated**: far more frames are shown than a sample has. |
| `stack_cpu` | 2 CPUs | **Violated**: samples of CPU 1 are thrown away. |
| `lifecycle` | 5 command lines (a name, a name and an argument, spaces only, as many words as fit, a string too long), `-P` or nothing, with and without `-s` and `-S`; up to 3 SIGINTs; 392,788 states | Two signals or a thread still setting up are the only ways to misuse the skeleton; the pid traced is the child's; `execvp_argv` fits; `read` and `cleanup` end; `TracerLife`. |
| `jdwp` | 2 CPUs, 3 packets, lengths on both sides of each bound with IP headers of 16, 20 and 24 bytes, room for 2 reports; 411,258 states | What is printed is the packet's; reports in order, once (`EventChannel`); the status is true; `main` always has a step to take; a signal ends the monitor. Every committed report is printed in the end, although a drain stops at a report that another CPU is still copying; neither waits for the other. |

The deliberate exceptions inside the properties are results too. `CalmStopIsClean` says when a freed
skeleton *can* be used: TLC finds such behaviours as soon as a disjunct is left out. `CleanupEnds`
excepts a SIGINT inside the allocator, after which `cleanup` may hang on `malloc`'s lock;
`TracesTheChild` excepts a child that dies before it writes (difference 9 below); `StatusTellsFailure` excepts a
signal before the first poll.

### Properties

`SyscallTracer`: `PrintsReleasedInOrder`, `BusyRecordsHeld`, `KilledIffReported`,
`ReporterNeverReturns`, `SubmittedIsFinal`, `ChannelSpec`, `PrintedAsCalled`,
`SubmittedGetsPrinted`;
`TargetFilter`: `FilterIsExact`; `StackTracer`: `ShowsOwnFrames`, `DumpsFollowBuffer`,
`StackChannel`, `PushedGetsShown`; `Lifecycle`: `CalmStopIsClean`, `TracesTheChild`, `ArgvFits`,
`ReadReturns`, `CleanupEnds`, `LifeSpec`; `Jdwp`: `PrintedFromPacket`, `StatusTellsFailure`,
`CanProceed`, `ReportChannel`, `SignalEnds`, `DeliveryCanProceed`, `CommittedGetsPrinted`; and a `TypeOK` each. Each is stated in words where it is defined. Every one
has a *mutant* in `PROJECT.json`: a plausible mistake in an action (a forgotten discard, a
visible reservation, a record handled twice, a loop that runs one CPU too far, an unclosed pipe end, EINTR taken for
an error) under which TLC finds it violated.

### Bounds

* `MaxCalls` (4 and 2), `MaxSamples` (3 and 2): the number of system calls and samples in a
  behaviour. With capacity 2, four calls fill the buffer, make a reservation fail, empty it and
  use it again; three threads are needed for two to overtake a third. With `decode` two calls
  suffice: one to be held up, one to hold it up.
* `RingBytes`: 1024 (two records), so that the buffer fills; an assumption of
  `MCSyscallTracer` checks that the source's sizes give eight.
* `RingSamples` 2, `MaxFrames` 1: a buffer that fills in the middle of a batch, and a stack
  shorter than its predecessor.
* `IdLen` 4, `Base` 2, `WordSize` 8: numerals that fill the buffer, overflow the word, or carry
  leading zeros. Names are one shorter than the buffer at least, as `TASK_COMM_LEN` makes them.

* `MaxStr` and `MaxArgs` 4 for `MAX_STR_LEN` 100 and `MAX_ARGS` 100: `MaxStr` characters make at
  most `(MaxStr + 1) \div 2` words, here as there below `MaxArgs`; an assumption of
  `MCLifecycle` counts the words of the longest sequence with the source's length.
* `MaxSigints` 3: no thread takes a second SIGINT, since none returns from the handler and
  the signal is blocked there; three threads, three signals. It bounds nothing, which is a theorem (`SigintsBounded`).
* `RingBytes` 552 in `jdwp` makes room for two reports (1927 with the source's 512 kB, which an
  assumption of `MCJdwp` checks), so that three packets fill it. `Junk` is one byte: the value of
  an unwritten byte is irrelevant to every property but that it is a byte.
  With two CPUs a committed report stands behind one that is still being copied.

Runs set `CHECK_DEADLOCK FALSE` because the system may stop: bounded numbers of calls are
made, killed processes make no more, the consumer or the process may have ended.

### Fairness

In `SyscallTracer`, `FairSpec` assumes weak fairness of two things: of the poll loop (`Consume`: `ring_buffer__poll` is woken when the record at which it stopped is submitted; its timeout only makes it
look again), and of `Serve`, the program that holds the record the consumer has come to. The verifier
accepts only programs that end, and they cannot sleep; that they all run on is more than is needed.
Nothing obliges the loop to come into being: with `-s` alone the program is attached, the buffer fills and
nobody ever reads it, and `ring_buffer__new` may fail. `SubmittedGetsPrinted` therefore speaks of
records that are submitted when there is a reader, or found by it when it starts. In
`StackTracer` only the poll loop must run on (`Poll`): a sample counts from the moment it is in a buffer.
Nothing is assumed of the calls that threads make, of the samples taken, of the failure of a poll, of
the set-up of the stack tracer, or of the signal being noticed.

In `Lifecycle` each call of `cleanup` runs on (it is straight-line code), `read` returns
when it can, and a forked child runs until it has written or died. `main` and the threads
need not get anywhere, since set-up may wait for the kernel and polling waits for events. In `Jdwp`
`main` runs on: its calls return, and `epoll_wait` does after 100 ms at the latest. Nothing obliges a
poll to fail or a signal to come. `SignalEnds` also needs packets to pause long enough for
the buffer to be drained, since `ring_buffer__poll` returns only then; the bounded number
of packets stands for that.

That the monitor ends asks nothing of the CPUs, but that reports are printed does. `Delivery`, a hypothesis inside
`CommittedGetsPrinted`, is weak fairness of `Serve`, the CPU that copies the report `main` has come to, and
strong fairness of `WakeUp`:
`epoll_wait` may return by its timeout, but not for ever while the buffer holds something. Weak fairness of
`main` as a whole would allow that, because the timeout is a step of `main` as well. The kernel does not: the
buffer is polled level-triggered, so a drain that stopped short finds it readable again, and a commit of the
record at which the reader stands wakes it.

### Where documents and code differ

1. `eptracer.bpf.c:163` says debuggers that hook the target are terminated. The program has
   already returned for every caller that is not the target (`:170`), so only threads of the
   target itself are ever killed (`untraced_debugger`).
2. `eptracer.bpf.c:11` means to detect Android and `:386` to check whether an ioctl is binder's, but the
   Makefile compiles this file with `-target bpf` (`Makefile:190`), for which clang defines none of the
   macros tested, not on arm64 either. So `IS_ANDROID` is 0 in every build, the check is compiled out, and
   every ioctl is printed as `binder_ioctl` (`tracers/syscall.c:233`; run `ioctl_name`).
3. `tracers/syscall.c:202` prints `clone`'s fourth argument as child_tid, which it is not on arm64
   (`arm64_clone`).
4. `is_target_program` ignores what follows the digits: `7z` selects pid 7 (`filter_prefix`).
5. `kern_stack_size` is unsigned: the test for a failed `bpf_get_stack` never succeeds and the
   handler takes the error code for a size (`stack_error`).
6. `bpf_perf_event_output` is called with flags 0, the index of CPU 0's buffer, on every CPU
   (`stack_cpu`).
7. The comment at `bpf/jdwp.bpf.c:76-78` says debuggers are kept out by dropping the JDWP handshake.
   `filter_jdwp_packets` returns `XDP_PASS` whatever `detect_jdwp_protocol` says, and a packet
   with fewer than 256 bytes of payload, such as a handshake of 14, is not even reported. (No run:
   it is plain from one comparison and one return statement.)

8. A full ring buffer switches the protection of 1. off for threads of the target too: the ptrace case
   returns when the reservation fails, before the signal (`eptracer.bpf.c:182`). (No run: it is plain
   from the early return; `ReserveFails` of a ptrace call is a step of `pipeline`, and
   `KilledIffReported` says that report and signal go together.)
9. `eptracer.c:130` promises "NULL if not able to attach to a valid PID". If the child dies before it has
   written its pid, `read` returns 0, which is no error at `:188`, and an uninitialized pid is converted
   and traced. (No run: it is the exception that `TracesTheChild` makes, and `lifecycle` reaches it.)

Seen while reading, without a run of their own: the case of `open` reports nothing;
`-f` redirects the messages of `log.h` and libbpf but not the events, which `syscall.c:167` says
it does. `eptracer.c:43` speaks of SIGTERM where `:288` registers SIGINT; `:129` says `-P` spawns a
process, which is `-p`. After a failure `main` calls `cleanup` and then has `return 1`, which is never
reached: `cleanup` exits with 0. A program given without arguments is run with an empty `argv`
(`:108`), its own name missing. In `jdwp.bpf.c` nothing checks that a packet is TCP, the TCP header is taken
to have no options, and ports and sequence number are read with a string helper, which keeps one byte of
a port and three of a sequence number at most. In `jdwp.c` a failed attach returns without
freeing the buffer and the skeleton (`:118`).

## 4. The proofs

The proofs hold for every set of threads, processes and calls, every buffer size and every
bound; they rest on the named assumptions of the modules (`TableAssumption`,
`PipelineAssumption`, `FilterAssumption`, `StackAssumption`, `LifeAssumption`,
`JdwpAssumption`), which say what kind of thing each constant is and are evaluated by TLC in the runs.

### SyscallTracer

`PrintsReleasedInOrder` and the rest are not inductive: that the consumer passes no
busy record says nothing of who holds it. `IInv` adds what links the threads to the buffer:

* `OwnersHoldBusy`, `BusyHaveOwner`: a thread between reservation and submission holds
  a busy record that carries its name and its call, and each busy record is so held. From the
  two, no two threads hold the same record, so a thread's stores and its submission touch
  nobody else's.
* `ReleasedAreDone`: what lies behind the consumer is not busy, hence final.
* `IsFilled`/`ReadyAreFilled`: a submitted record is exactly what its case stores for some set of
  unreadable strings, and the thread that made it passed the filter (`EmittersAreTargets`).
* `LinesMatchRecords`: a line is what the handler makes of its record *now*; it stays so because
  submitted records are final.
* `SignalAfterReport`: a thread about to send the signal has submitted its report.

`Invariance` proves `Spec => []IInv`, one lemma per action and under it a step per conjunct
that the action can disturb. From it: `TypeCorrect`, `InOrder`, `BusyHeld`, `KillAndReport`,
`SubmittedFinal` (an action property) and `Refinement`: under the mapping of `Channel` every
step of a program or of the consumer is a step of `EventChannel` or a stutter (`ProducerStep`,
`ConsumerStep`).

`ReportIsLast` proves `ReporterNeverReturns`: a thread whose ptrace call was reported reserves
nothing more and never gets back to user mode. It rests on `KilledIffReported` (past the signal the
process is dead, so `Return` does not lead to `user`) and on `HeldIsLast`, the strengthening that
what a thread holds is the last record it reserved: without it the record submitted might be
followed by another of the same thread.

`Truthful` proves `PrintedAsCalled` from `LinesMatchRecords`, `ReadyAreFilled` and
`SyscallTable_proofs!TablesAgree`: for each call and each label, the field the handler prints
there is one the case has written, with the argument that goes by that name. Its premises are
where the tables do agree: no compiled case for the old one-argument `umount` (whose `flags` would be an
argument it does not have), and no call of `clone` where its arguments come in arm64's order
(`CloneBackwards`). Both documented builds are covered, x86-64 and arm64: neither kernel has the old
`umount`. The name `binder_ioctl` is taken to mean any ioctl, since difference 2 makes it so.

### TargetFilter

`FilterTypeCorrect`: both loops stay inside the buffers and the number inside its word, for every
buffer length. `FilterExact` proves `FilterIsExact` in full: for an identifier that is a name or a numeral
that fits the word (`Sensible`), a thread gets through exactly if its name is the identifier or its
pid the number written. The invariant (`FilterInvariance`) says of the first loop that the strings
agree up to its index, and of the second that the number read is the value of the digits so far, as
long as that fits. This value is a recursive function; that it satisfies its defining equation is
proved by induction over a set of numbers (`NatSetInduction`), which follows from the library's
theorem that `<` is well-founded on the naturals and needs no operator for a parameter.

### StackTracer

`IInv` has three parts besides the types: `SamplesAreOwn` (what `stackdata_map` and the buffers
hold has frames of its own up to its sizes, although what lies behind is older),
`BatchInBuffer` (the batch being read is a part of the buffer not yet given back, however much
arrives meanwhile) and `DumpsFollowBuffer`. `StackInvariance` proves it inductive; from it come
`StackTypeCorrect`, `NoneSkipped` (`DumpsFollowBuffer`), `OwnFrames` (`ShowsOwnFrames`, with the
premise that kernel stacks do not fail; run `stack_error` shows what happens when they do)
and `StackRefinement`: CPU 0's buffer implements `EventChannel`.

### Lifecycle

That the skeleton was destroyed twice says nothing of how many calls of `cleanup` are under way, so
`IInv` counts them: `HandlersCounted` (as many SIGINTs as handlers), `FreedByCleanup` (a freed
skeleton has a call that is past `Destroy`), `CleanupStopsMain` (`main` does nothing more).
With them a second `Destroy` is by a second call (`StopIsClean`, for `CalmStopIsClean`).
`CalmMeansSetUp` keeps threads from starting to set up after a calm beginning. `PipeTells` links the
child's progress to the pipe's content and gives `TracesChild`, and `AttachComesFirst` orders
attaching and thread creation and gives `LifeRefinement`. `ArgvInBounds` proves `ArgvFits` for all
limits with `MaxStr + 1 < 2 * MaxArgs` (100 and 100 in the source), from `WordsAreFew`: the positions at
which words begin and those right after them are disjoint, so a string has at most half as many
words as characters, rounded up.

### Jdwp

`IInv`: `ReportsFit` (a report under way or ready has a string inside its packet), `CopiesIntoOwn` (a
CPU copies into a busy record that is no other CPU's), `PrintedAreReady`, and `ErrTellsFailure`
(`err` is negative from a failure until `main` returns, and at no other time). `JdwpInvariance` proves
it inductive; from it come `JdwpTypeCorrect`, `PrintsPacket`, `StatusIsTrue` and `JdwpRefinement`, for any
number of CPUs, any packets and any sizes.

`ReportsInOrder`: what is printed is in strictly increasing order of reservation, and no report that is busy
or waits to be printed is before one that was printed. Nothing about the monitor is proved for it: it is
`EventChannel_proofs!ChannelInOrder`, instantiated with the refinement mapping and combined with `JdwpRefinement`.

### Liveness

The provers do not look into `ENABLED`; they take `ENABLED <<A>>_vars` as it stands. In `SyscallTracer`,
`StackTracer` and `Lifecycle` the theorems therefore have `Spec /\ RunsOn` as premise: `RunsOn` is the
weak fairness of `FairSpec` with the guard of each action, as read off its definition, in the place of
`ENABLED` (`[]<>~guard \/ []<><<A>>_vars`). These guards are necessary and sufficient for the action to have
a step, so `RunsOn` says what `FairSpec` says; TLC checks the same properties under `FairSpec` itself. In
`Jdwp`, where `main` has a step at every place of its loop, `CanProceed` says so (and `DeliveryCanProceed`
that of `Serve` and `WakeUp`), TLC checks both in the run `jdwp`, and the theorems have them as premises
beside `FairSpec`. The rest is proved: that the steps of everybody else leave the waiting state as it is, and
that each step of the one obliged to move brings it nearer.

* `CleanupCompletes` (`CleanupEnds`): once a cleanup has begun the process ends, unless a handler
  interrupted the allocator. A call of `cleanup` moves through four places, but a SIGINT may suspend
  `main`'s own call at any of them, after which only the handler's counts; other handlers may run
  beside it. `LInv` says that a call is stuck only after a jam (`StuckMeansJammed`) and that
  while `main` is in `read` it has a child, no other has the pipe's writing end, and no cleanup has been
  jammed (`ReadIsAlone`).
* `ReadCompletes` (`ReadReturns`): the child writes or dies, and either lets `read` return.
* `SignalStopsAfterPackets` (`SignalEnds`): whatever place of set-up or loop the signal finds `main` at,
  nine steps at most lead to the end or to another report being printed. The reports are no more than the
  packets (`OnePerPacket`, an invariant with the set of CPUs that have yet to output theirs), so their number
  bounds the rounds. `SignalStops` has no bound and instead the premise that from some point on nothing more is
  printed, which is what the code needs: `ring_buffer__poll` returns only when the buffer is drained.
* `NoRecordHoldsUp`: when a consumer has reached a record it gets past it or its loop has ended, for
  every record, busy or not, provided only that the program that holds it runs on, and the poll loop.
  `BusyHaveOwner` is needed for the record.
* `EveryRecordPrinted` (`SubmittedGetsPrinted`): so every submitted record is printed where there is a reader, however many others
  stand before it.
* `EverySampleShown` (`PushedGetsShown`): a batch is read to its end, since what arrives meanwhile is not part
  of it, and the next one begins where it ended; only the poll loop need run on.
* `EveryReportPrinted` (`CommittedGetsPrinted`): the same for the JDWP monitor, where `main` goes round its
  loop, by the timeout too, until it finds the report committed. The CPU that copies the report `main`
  stands at is unique (`CopiesIntoOwn`) and exists (`BusyAreCopied`). Without the strong fairness of `WakeUp`
  TLC finds `main` going round for ever.

`SignalStopsAfterPackets`, `EveryRecordPrinted`, `EverySampleShown` and `EveryReportPrinted` need as many rounds as
there are packets or the buffer holds records, numbers that are parameters, and induction over them is out of the provers' reach: the induction theorems of the library take an operator. They do reason about a
temporal formula that is *named* and not expanded. So let `Hop(n)` (`Stride(n)` in `JdwpDelivery_proofs`) say that
from any distance `d + n` to any position the consumer comes to distance `d`. One round is `Hop(1)`;
`Hop(n) => Hop(2 * n)` for every `n`, by instantiating the name twice and composing the two; doubled 32 times this
is `Hop(4294967296)`. A buffer has fewer records (`BufferBounded`, `CapacityIsSmall`: a record takes a byte at least),
because `max_entries` is a `__u32` (the source's buffers have 4096 bytes, 19 samples and 512 kB). This bound,
stated as a premise, is the only thing these theorems ask of the sizes. For `SignalStopsAfterPackets` the premise is
on the number of packets, which the code does not bound: there it is a real restriction, of the theorem but
not of `SignalStops`.

### Only model-checked

`CanProceed` and `DeliveryCanProceed` of `Jdwp`, because of `ENABLED`, and that `RunsOn` follows from
`FairSpec`. Every other property of a passing run is the conclusion of a theorem.

## 5. Not modelled

* **Symbolization** (blazesym), inlined frames and the layout of a dump: external, and pure
  output. A process that has exited, or called `execve`, since its sample was taken is shown with
  symbols it did not have then, or none; no state depends on it.
* **What the target does after ePtracer has ended**, and crashes of the kernel: nothing is persisted.
* **Destination port and sequence number** of a JDWP packet: read and printed as the source port is.
* **The fd cache of binder**: whether an ioctl is binder's is a field of the call, since the
  code decides it from the command alone (`BINDER_WRITE_READ`, `BINDER_SET_CONTEXT_MGR`).
* **Contents** of strings, wording and logging. `decode_syscall` is dead code.
* **Headers.** By far most lines of the repository are kernel type headers (`vmlinux/`), the generated
  skeleton and vendored headers for options and logging. They declare types and data and hold no
  behaviour to model; the hand-written code is about 1,700 lines.

## 6. The plan

Done, in this order: `EventChannel`, `SyscallTable`, `SyscallTracer` and its proofs, `TargetFilter`,
`StackTracer`, `TracerLife`, `Lifecycle` and its proofs, `Jdwp` and its proofs. The planned product
module of life cycle and pipelines gave way to the interface `TracerLife`, which says the same
at a fraction of the states.

`PushedGetsShown`, `SubmittedGetsPrinted` and the delivery of JDWP reports were added to the proofs last, with
`JdwpDelivery_proofs`, which rests on the invariants of `Jdwp_proofs`.

What could still be added: the stack tracer as another implementer of `TracerLife` (its perf events
are closed with the process, not by `cleanup`); `ChannelInOrder` carried over to the other two pipelines, whose
own invariants say the same today.
