------------------------------ MODULE Lifecycle ------------------------------
(***************************************************************************)
(* The life of an ePtracer process: main, the child it spawns and their    *)
(* pipe, the tracer threads as users of the skeleton, and cleanup, which   *)
(* main calls when a step fails and SIGINT runs on any thread at any time. *)
(*                                                                         *)
(* A handler suspends the thread it runs on and never returns to it.  The  *)
(* kernel hands SIGINT to main unless main is in its handler, which blocks *)
(* the signal; then a tracer thread gets it.                               *)
(***************************************************************************)
EXTENDS Integers, Sequences, FiniteSets

CONSTANTS
  Programs,   \* strings that may follow -p, as sequences of characters
  Letters,    \* their characters other than the space
  Space,      \* the separator of strtok
  MaxStr,     \* MAX_STR_LEN
  MaxArgs,    \* MAX_ARGS
  MaxSigints  \* bound: times SIGINT arrives

ASSUME LifeAssumption ==
  /\ Programs \subseteq Seq(Letters \cup {Space}) \ {<< >>}
  /\ Space \notin Letters
  /\ MaxStr \in Nat
  /\ MaxArgs \in Nat \ {0}
  /\ MaxSigints \in Nat

VARIABLES
  args,     \* what parse_args found
  main,     \* where main is
  skel,     \* is the static pointer skel set?
  object,   \* the skeleton it points to
  link,     \* the link of sys_enter_multiplexer, the only program it attaches
  tracers,  \* where the tracer threads are
  cleanup,  \* where each call of cleanup is; "direct" is main's own
  jammed,   \* the calls of cleanup that interrupted the memory allocator
  target,   \* the process to trace
  pipe,     \* its content, and who may write to it
  pid,      \* process_id in main: whose identifier it is
  argc,     \* where the NULL of execvp_argv was stored
  running,  \* FALSE once ePtracer has ended
  sigints,  \* how many SIGINTs were delivered
  misuse,   \* ways in which a freed skeleton was used: undefined behaviour
  calm      \* no thread was setting up when a cleanup began

vars == <<args, main, skel, object, link, tracers, cleanup, jammed, target, pipe,
          pid, argc, running, sigints, misuse, calm>>
mainVars    == <<args, main, pid, argc>>
skelVars    == <<skel, object, link, misuse>>
cleanupVars == <<cleanup, jammed, calm, sigints>>
targetVars  == <<target, pipe>>

Threads  == {"stack", "syscall"}
Handlers == {"main", "stack", "syscall"}
Cleanups == {"direct"} \cup Handlers

\* The program of -p, empty without it; -s and -S.
Args == {a \in [target : {"none", "pid", "spawn"}, program : Programs \cup {<< >>},
                stack : BOOLEAN, syscall : BOOLEAN] :
           a.target = "spawn" <=> a.program # << >>}

TypeOK ==
  /\ args \in Args
  /\ main \in {"setup", "load", "identify", "read", "store", "attach", "stack",
               "syscall", "join", "cleanup"}
  /\ skel \in BOOLEAN
  /\ object \in {"none", "live", "freed"}
  /\ link \in {"none", "attached", "detached"}
  /\ tracers \in [Threads -> {"none", "setup", "buffers", "poll", "ended"}]
  /\ cleanup \in [Cleanups -> {"off", "test", "destroy", "clear", "sleep", "stuck"}]
  /\ jammed \in SUBSET Handlers
  /\ target \in {"none", "forked", "wrote", "program", "zombie", "reaped", "reused"}
  /\ pipe \in [data : {"empty", "pid"}, writers : SUBSET {"main", "child"}]
  /\ pid \in {"none", "user", "child", "garbage"}
  /\ argc \in Nat
  /\ running \in BOOLEAN
  /\ sigints \in 0..MaxSigints
  /\ misuse \in SUBSET {"use", "double"}
  /\ calm \in BOOLEAN

\* The handler of SIGINT is set.  With a pid the target lives already.
Init ==
  /\ args \in Args
  /\ main = "setup"
  /\ skel = FALSE
  /\ object = "none"
  /\ link = "none"
  /\ tracers = [t \in Threads |-> "none"]
  /\ cleanup = [c \in Cleanups |-> "off"]
  /\ jammed = {}
  /\ target = IF args.target = "pid" THEN "program" ELSE "none"
  /\ pipe = [data |-> "empty", writers |-> {}]
  /\ pid = "none"
  /\ argc = 0
  /\ running = TRUE
  /\ sigints = 0
  /\ misuse = {}
  /\ calm = TRUE

\* The end of the process; the kernel drops the link.
Detached == IF link = "attached" THEN "detached" ELSE link

EndProcess ==
  /\ running' = FALSE
  /\ link' = Detached

\* A call of cleanup begins.
SettingUp(t) == tracers[t] \in {"setup", "buffers"}

Begin(c) ==
  /\ cleanup' = [cleanup EXCEPT ![c] = "test"]
  /\ calm' = (calm /\ \A t \in Threads : ~SettingUp(t))

-----------------------------------------------------------------------------
(***************************************************************************)
(* main.                                                                   *)
(***************************************************************************)
MainAt(place) == running /\ cleanup["main"] = "off" /\ main = place

\* CPUs, arguments and the log file.
SetUp ==
  /\ MainAt("setup")
  /\ main' = "load"
  /\ UNCHANGED <<args, pid, argc, skelVars, cleanupVars, targetVars, tracers, running>>

LoadSkeleton ==
  /\ MainAt("load")
  /\ skel' = TRUE
  /\ object' = "live"
  /\ main' = "identify"
  /\ UNCHANGED <<args, pid, argc, link, misuse, cleanupVars, targetVars, tracers,
                 running>>

\* get_PID_to_trace with -P.
TakePid ==
  /\ MainAt("identify")
  /\ args.target = "pid"
  /\ pid' = "user"
  /\ main' = "store"
  /\ UNCHANGED <<args, argc, skelVars, cleanupVars, targetVars, tracers, running>>

\* create_execvp_args: a string without a space is the file alone, with no
\* arguments, not even its own name; else the words are counted.
HasSpace(p) == \E i \in DOMAIN p : p[i] = Space
Words(p) == Cardinality({i \in DOMAIN p : p[i] # Space /\ (i = 1 \/ p[i-1] = Space)})

\* Mutant of ArgCount: the NULL overwrites the last word.
ArgCountShort(p) == IF ~HasSpace(p) THEN 0 ELSE Words(p) - 1

ArgCount(p) == IF ~HasSpace(p) THEN 0
               ELSE IF Words(p) < MaxArgs THEN Words(p) ELSE MaxArgs

\* Mutants of Spawn: the length of the string is not checked; the parent keeps its
\* writing end of the pipe.
SpawnAnyLength ==
  /\ MainAt("identify")
  /\ args.target = "spawn"
  /\ argc' = ArgCount(args.program)
  /\ target' = "forked"
  /\ pipe' = [pipe EXCEPT !.writers = {"child"}]
  /\ main' = "read"
  /\ UNCHANGED <<args, pid, skelVars, cleanupVars, tracers, running>>

SpawnKeepingPipe ==
  /\ MainAt("identify")
  /\ args.target = "spawn"
  /\ Len(args.program) <= MaxStr
  /\ argc' = ArgCount(args.program)
  /\ target' = "forked"
  /\ pipe' = [pipe EXCEPT !.writers = {"main", "child"}]
  /\ main' = "read"
  /\ UNCHANGED <<args, pid, skelVars, cleanupVars, tracers, running>>

\* With -p: pipe, fork, and the parent closes its writing end.
Spawn ==
  /\ MainAt("identify")
  /\ args.target = "spawn"
  /\ Len(args.program) <= MaxStr
  /\ argc' = ArgCount(args.program)
  /\ target' = "forked"
  /\ pipe' = [pipe EXCEPT !.writers = {"child"}]
  /\ main' = "read"
  /\ UNCHANGED <<args, pid, skelVars, cleanupVars, tracers, running>>

\* read blocks until there is a pid, or end of file, which is no error: then
\* the pid is what the uninitialized variable held.
ReadPid ==
  /\ MainAt("read")
  /\ pipe.data = "pid" \/ pipe.writers = {}
  /\ pid' = IF pipe.data = "pid" THEN "child" ELSE "garbage"
  /\ main' = "store"
  /\ UNCHANGED <<args, argc, skelVars, cleanupVars, targetVars, tracers, running>>

\* initialize_array.
StoreIdentifier ==
  /\ MainAt("store")
  /\ main' = "attach"
  /\ UNCHANGED <<args, pid, argc, skelVars, cleanupVars, targetVars, tracers, running>>

\* Mutant of Attach: main goes on without the link.
AttachUnchecked ==
  /\ MainAt("attach")
  /\ link' \in {"none", "attached"}
  /\ main' = "stack"
  /\ UNCHANGED <<args, pid, argc, skel, object, misuse, cleanupVars, targetVars,
                 tracers, running>>

Attach ==
  /\ MainAt("attach")
  /\ link' = "attached"
  /\ main' = "stack"
  /\ UNCHANGED <<args, pid, argc, skel, object, misuse, cleanupVars, targetVars,
                 tracers, running>>

\* pthread_create, for -s and then for -S.
CreateStack ==
  /\ MainAt("stack")
  /\ tracers' = IF args.stack THEN [tracers EXCEPT !["stack"] = "setup"] ELSE tracers
  /\ main' = "syscall"
  /\ UNCHANGED <<args, pid, argc, skelVars, cleanupVars, targetVars, running>>

CreateSyscall ==
  /\ MainAt("syscall")
  /\ tracers' = IF args.syscall THEN [tracers EXCEPT !["syscall"] = "setup"] ELSE tracers
  /\ main' = "join"
  /\ UNCHANGED <<args, pid, argc, skelVars, cleanupVars, targetVars, running>>

\* The steps whose failure makes main call cleanup: loading, no target,
\* storing, attaching, creating a thread.
MayFail ==
  \/ main \in {"load", "store", "attach"}
  \/ main = "identify" /\ args.target = "none"
  \/ main = "stack" /\ args.stack
  \/ main = "syscall" /\ args.syscall

MainFails ==
  /\ MainAt(main)
  /\ MayFail
  /\ main' = "cleanup"
  /\ Begin("direct")
  /\ UNCHANGED <<args, pid, argc, skelVars, jammed, sigints, targetVars, tracers,
                 running>>

\* Elsewhere a failure ends the process; so does the return of main when every
\* thread it created has ended.
MainEnds ==
  /\ \/ MainAt("setup") \/ MainAt("read")
     \/ MainAt("identify") /\ args.target = "spawn"
     \/ MainAt("join") /\ \A t \in Threads : tracers[t] \in {"none", "ended"}
  /\ EndProcess
  /\ UNCHANGED <<mainVars, skel, object, misuse, cleanupVars, targetVars, tracers>>

-----------------------------------------------------------------------------
(***************************************************************************)
(* The tracer threads.  Each has a copy of the pointer of its own, which   *)
(* cleanup does not clear.                                                 *)
(***************************************************************************)
ThreadAt(t, place) == running /\ cleanup[t] = "off" /\ tracers[t] = place

UseSkeleton == misuse' = IF object = "freed" THEN misuse \cup {"use"} ELSE misuse

\* bpf_program__attach_perf_event for one CPU, then perf_buffer__new on the
\* file descriptor of perfmap.
StackUses ==
  /\ \/ ThreadAt("stack", "setup") /\ tracers' \in
          {[tracers EXCEPT !["stack"] = p] : p \in {"setup", "buffers", "ended"}}
     \/ ThreadAt("stack", "buffers") /\ tracers' \in
          {[tracers EXCEPT !["stack"] = p] : p \in {"poll", "ended"}}
  /\ UseSkeleton
  /\ UNCHANGED <<mainVars, skel, object, link, cleanupVars, targetVars, running>>

\* perf_event_open or blaze_symbolizer_new fails.
StackGivesUp ==
  /\ ThreadAt("stack", "setup") \/ ThreadAt("stack", "buffers")
  /\ tracers' = [tracers EXCEPT !["stack"] = "ended"]
  /\ UNCHANGED <<mainVars, skelVars, cleanupVars, targetVars, running>>

\* ring_buffer__new on the file descriptor of syscall_rb_map.
SyscallUses ==
  /\ ThreadAt("syscall", "setup")
  /\ tracers' = [tracers EXCEPT !["syscall"] = "poll"]
  /\ UseSkeleton
  /\ UNCHANGED <<mainVars, skel, object, link, cleanupVars, targetVars, running>>

\* If it fails the thread calls exit(0).
SyscallExits ==
  /\ ThreadAt("syscall", "setup")
  /\ UseSkeleton
  /\ EndProcess
  /\ UNCHANGED <<mainVars, skel, object, cleanupVars, targetVars, tracers>>

\* Mutant of PollFails: the thread calls cleanup, as the source once did.
PollFailsCleaning(t) ==
  /\ ThreadAt(t, "poll")
  /\ Begin(t)
  /\ UNCHANGED <<mainVars, skelVars, jammed, sigints, targetVars, tracers, running>>

\* Polling fails: the loop and the thread end.
PollFails(t) ==
  /\ ThreadAt(t, "poll")
  /\ tracers' = [tracers EXCEPT ![t] = "ended"]
  /\ UNCHANGED <<mainVars, skelVars, cleanupVars, targetVars, running>>

-----------------------------------------------------------------------------
(***************************************************************************)
(* Signals and cleanup.                                                    *)
(***************************************************************************)

\* main waits in a system call; elsewhere it may be in the allocator.
Waiting(t) == t = "main" /\ main \in {"read", "join"}

Sigint(t) ==
  /\ running
  /\ sigints < MaxSigints
  /\ cleanup[t] = "off"
  /\ t # "main" => cleanup["main"] # "off" /\ tracers[t] \notin {"none", "ended"}
  /\ Begin(t)
  /\ sigints' = sigints + 1
  /\ jammed' \in IF Waiting(t) THEN {jammed} ELSE {jammed, jammed \cup {t}}
  /\ UNCHANGED <<mainVars, skelVars, targetVars, tracers, running>>

\* main's own call is suspended by its handler.
CleanupAt(c, place) ==
  /\ running
  /\ cleanup[c] = place
  /\ c = "direct" => cleanup["main"] = "off"

Test(c) ==
  /\ CleanupAt(c, "test")
  /\ cleanup' = [cleanup EXCEPT ![c] = IF skel THEN "destroy" ELSE "sleep"]
  /\ UNCHANGED <<mainVars, skelVars, jammed, calm, sigints, targetVars, tracers, running>>

\* eptracer_bpf__destroy detaches the program and frees the skeleton.
Destroy(c) ==
  /\ CleanupAt(c, "destroy")
  /\ cleanup' = [cleanup EXCEPT ![c] = "clear"]
  /\ misuse' = IF object = "freed" THEN misuse \cup {"double"} ELSE misuse
  /\ object' = "freed"
  /\ link' = Detached
  /\ UNCHANGED <<mainVars, skel, jammed, calm, sigints, targetVars, tracers, running>>

Clear(c) ==
  /\ CleanupAt(c, "clear")
  /\ skel' = FALSE
  /\ cleanup' = [cleanup EXCEPT ![c] = "sleep"]
  /\ UNCHANGED <<mainVars, object, link, misuse, jammed, calm, sigints, targetVars,
                 tracers, running>>

\* Mutant of Exit: the handler returns.
ExitNot(c) ==
  /\ CleanupAt(c, "sleep")
  /\ cleanup' = [cleanup EXCEPT ![c] = "off"]
  /\ UNCHANGED <<mainVars, skelVars, jammed, calm, sigints, targetVars, tracers, running>>

\* sleep(1), printf, exit(0).
Exit(c) ==
  /\ CleanupAt(c, "sleep")
  /\ EndProcess
  /\ UNCHANGED <<mainVars, skel, object, misuse, cleanupVars, targetVars, tracers>>

\* free waits for the allocator's lock, which the interrupted thread holds, or a
\* thread whose handler is stuck; that one may hold the lock of stdout too.  (With
\* no second thread there are no locks, and free finds the heap half changed.)
Stick(c) ==
  /\ \/ CleanupAt(c, "destroy") /\ c \in jammed
     \/ /\ CleanupAt(c, "destroy") \/ CleanupAt(c, "sleep")
        /\ \E d \in Cleanups : cleanup[d] = "stuck"
  /\ cleanup' = [cleanup EXCEPT ![c] = "stuck"]
  /\ UNCHANGED <<mainVars, skelVars, jammed, calm, sigints, targetVars, tracers, running>>

\* SIGTERM has no handler.  After undefined behaviour, or in an allocator left
\* half way, the process may crash.
Killed ==
  /\ running
  /\ EndProcess
  /\ UNCHANGED <<mainVars, skel, object, misuse, cleanupVars, targetVars, tracers>>

-----------------------------------------------------------------------------
(***************************************************************************)
(* The process to trace: the child of ePtracer, or one the user named.     *)
(* What becomes of it after ePtracer has ended is left out.                *)
(***************************************************************************)
otherVars == <<mainVars, skelVars, cleanupVars, tracers, running>>

ChildWrites ==
  /\ running
  /\ target = "forked"
  /\ target' = "wrote"
  /\ pipe' = [pipe EXCEPT !.data = "pid"]
  /\ UNCHANGED otherVars

\* close and execvp, whose file is NULL if the string is all spaces.
ChildExecs ==
  /\ running
  /\ target = "wrote"
  /\ Words(args.program) > 0
  /\ target' = "program"
  /\ pipe' = [pipe EXCEPT !.writers = @ \ {"child"}]
  /\ UNCHANGED otherVars

\* It ends or fails at any point; before execvp it has ePtracer's handler, and
\* Ctrl-C goes to both.
TargetDies ==
  /\ running
  /\ target \in {"forked", "wrote", "program"}
  /\ target' = "zombie"
  /\ pipe' = [pipe EXCEPT !.writers = @ \ {"child"}]
  /\ UNCHANGED otherVars

\* Mutant of TargetReaped: ePtracer waits for its child.
ChildReaped ==
  /\ running
  /\ target = "zombie"
  /\ target' = "reaped"
  /\ UNCHANGED <<pipe, otherVars>>

\* The parent of a process named by -P waits for it; ePtracer never does.
TargetReaped ==
  /\ running
  /\ target = "zombie"
  /\ args.target = "pid"
  /\ target' = "reaped"
  /\ UNCHANGED <<pipe, otherVars>>

PidReused ==
  /\ running
  /\ target = "reaped"
  /\ target' = "reused"
  /\ UNCHANGED <<pipe, otherVars>>

-----------------------------------------------------------------------------
Main ==
  \/ SetUp \/ LoadSkeleton \/ TakePid \/ Spawn \/ ReadPid \/ StoreIdentifier
  \/ Attach \/ CreateStack \/ CreateSyscall \/ MainFails \/ MainEnds

Tracer ==
  \/ StackUses \/ StackGivesUp \/ SyscallUses \/ SyscallExits
  \/ \E t \in Threads : PollFails(t)

Cleanup(c) == Test(c) \/ Destroy(c) \/ Clear(c) \/ Exit(c) \/ Stick(c)

Target == ChildWrites \/ ChildExecs \/ TargetDies \/ TargetReaped \/ PidReused

Next ==
  \/ Main \/ Tracer \/ Target \/ Killed
  \/ \E t \in Handlers : Sigint(t)
  \/ \E c \in Cleanups : Cleanup(c)

Spec == Init /\ [][Next]_vars

\* A call of cleanup, a read that can return and a child between fork and
\* execvp run on.  Nothing obliges main or the threads to get anywhere.
FairSpec ==
  /\ Spec
  /\ WF_vars(Cleanup("direct"))
  /\ WF_vars(Cleanup("main"))
  /\ WF_vars(Cleanup("stack"))
  /\ WF_vars(Cleanup("syscall"))
  /\ WF_vars(ReadPid)
  /\ WF_vars(ChildWrites)

-----------------------------------------------------------------------------
(***************************************************************************)
(* Properties.                                                             *)
(***************************************************************************)

\* The skeleton is freed twice only if cleanup was interrupted, which takes a
\* second SIGINT or one during a cleanup of main's own; and a thread uses it
\* after it was freed only if the thread was still setting up when cleanup began.
\* So a single SIGINT that finds the threads polling does no harm.
Interrupts == sigints + (IF cleanup["direct"] = "off" THEN 0 ELSE 1)

CalmStopIsClean ==
  /\ "double" \in misuse => Interrupts > 1
  /\ "use" \in misuse => ~calm

\* With -p the pid that main goes on with is the child's, and no other process
\* gets that pid while ePtracer runs, since the dead child is never waited for;
\* unless the child died before it wrote its pid.
TracesTheChild ==
  args.target = "spawn" /\ pid # "none" =>
    \/ pid = "child" /\ target \in {"wrote", "program", "zombie"}
    \/ pid = "garbage" /\ target = "zombie" /\ pipe.data = "empty"

\* The NULL that ends execvp_argv is stored inside its MAX_ARGS * 8 + 1 bytes,
\* since a string of MAX_STR_LEN characters has at most half as many words.
ArgvFits == argc < MaxArgs

\* main gets an answer from its child, or end of file, or is interrupted.
ReadReturns == main = "read" ~> (main # "read" \/ ~running)

\* A begun cleanup ends the process, interrupted again or not, unless a SIGINT
\* interrupted a thread inside the allocator.
CleanupEnds == (\E c \in Cleanups : cleanup[c] # "off") ~> (~running \/ jammed # {})

\* The syscall pipeline may rely on TracerLife.
Life == INSTANCE TracerLife WITH
  alive  <- running,
  reader <- IF ~running \/ tracers["syscall"] = "ended" THEN "gone"
            ELSE IF tracers["syscall"] = "poll" THEN "reading" ELSE "none"

LifeSpec == Life!Spec

-----------------------------------------------------------------------------
(***************************************************************************)
(* The inductive invariant from which the safety properties are proved.    *)
(***************************************************************************)
Begun(c) == cleanup[c] # "off"

\* Once a cleanup has begun main does nothing else, for good.
CleanupStopsMain ==
  /\ (\E c \in Cleanups : Begun(c)) => Begun("main") \/ main = "cleanup"
  /\ Begun("direct") <=> main = "cleanup"

\* Each SIGINT runs one handler.
One(c) == IF Begun(c) THEN 1 ELSE 0
HandlersCounted == sigints = One("main") + One("stack") + One("syscall")

\* The skeleton is freed by a cleanup, which goes past that point.
FreedByCleanup ==
  object = "freed" => \E c \in Cleanups : cleanup[c] \in {"clear", "sleep", "stuck"}

\* No thread starts to set up after a calm beginning.
CalmMeansSetUp ==
  calm /\ (\E c \in Cleanups : Begun(c)) => \A t \in Threads : ~SettingUp(t)

\* What the child has done shows in the pipe.
PipeTells ==
  args.target = "spawn" =>
    /\ target \notin {"reaped", "reused"}
    /\ target = "forked" => pipe.writers = {"child"}
    /\ target \in {"none", "forked"} => pipe.data = "empty"
    /\ target \in {"wrote", "program"} => pipe.data = "pid"
    /\ main \in {"setup", "load", "identify"} => target = "none" /\ pid = "none"
    /\ main = "read" => target # "none" /\ pid = "none"

\* The threads are created after the program was attached, stack first.
AttachComesFirst ==
  /\ main \in {"setup", "load", "identify", "read", "store", "attach"} =>
       link = "none" /\ \A t \in Threads : tracers[t] = "none"
  /\ main = "stack" => \A t \in Threads : tracers[t] = "none"
  /\ main \in {"stack", "syscall", "join"} => link # "none"
  /\ main = "syscall" => tracers["syscall"] = "none"
  /\ \A t \in Threads : tracers[t] # "none" => link # "none"

IInv ==
  /\ TypeOK
  /\ CleanupStopsMain
  /\ HandlersCounted
  /\ FreedByCleanup
  /\ CalmMeansSetUp
  /\ PipeTells
  /\ AttachComesFirst
  /\ CalmStopIsClean
  /\ TracesTheChild

\* From what liveness is proved.  A call is stuck only after an allocator was
\* interrupted, and only a handler interrupts one.
StuckMeansJammed ==
  /\ \A t \in jammed : Begun(t)
  /\ jammed = {} => \A c \in Cleanups : cleanup[c] # "stuck"

\* While main waits for the child nobody else runs, no allocator was interrupted,
\* and a dead child has closed the pipe.
ReadIsAlone ==
  /\ \A t \in Threads : Begun(t) => tracers[t] # "none"
  /\ main = "read" =>
       /\ args.target = "spawn"
       /\ jammed = {}
       /\ pipe.writers \subseteq {"child"}
       /\ target = "zombie" => pipe.writers = {}

LInv == IInv /\ StuckMeansJammed /\ ReadIsAlone

\* What FairSpec lets run has nothing to wait for but what these conditions name: a
\* call of cleanup that is neither suspended nor stuck has a step to take; read
\* returns if the child has written or nobody can write; a forked child can write.
PidOrEnd == pipe.data = "pid" \/ pipe.writers = {}

Works(c) ==
  /\ running
  /\ cleanup[c] \notin {"off", "stuck"}
  /\ c = "direct" => cleanup["main"] = "off"

\* The fairness of FairSpec with those guards written out: a step that stays possible
\* is taken.
RunsOn ==
  /\ []<>~Works("direct") \/ []<><<Cleanup("direct")>>_vars
  /\ []<>~Works("main") \/ []<><<Cleanup("main")>>_vars
  /\ []<>~Works("stack") \/ []<><<Cleanup("stack")>>_vars
  /\ []<>~Works("syscall") \/ []<><<Cleanup("syscall")>>_vars
  /\ []<>~(MainAt("read") /\ PidOrEnd) \/ []<><<ReadPid>>_vars
  /\ []<>~(running /\ target = "forked") \/ []<><<ChildWrites>>_vars
=============================================================================
