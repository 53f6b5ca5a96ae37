---------------------------- MODULE SyscallTable ----------------------------
(***************************************************************************)
(* The data that the two ends of the syscall pipeline must agree on: what  *)
(* each case of sys_enter_multiplexer (eptracer.bpf.c) stores in a         *)
(* syscall_event_t, what syscall_event_handler (tracers/syscall.c) prints  *)
(* from it, and the calling convention of each system call.                *)
(*                                                                         *)
(* A value is abstracted to where it comes from: the number of the system  *)
(* call argument it is (or, for a string, that it points to).  Stale marks *)
(* a field nobody wrote in this record (bpf_ringbuf_reserve does not clear *)
(* the memory it returns) and Unreadable a string whose probe failed, left *)
(* zeroed by bpf_probe_read_user.                                          *)
(***************************************************************************)
EXTENDS Integers, Sequences

CONSTANTS
  Android,        \* IS_ANDROID: ioctls other than binder's are not reported.
                  \* FALSE in what the Makefile builds, see MCSyscallTracer
  CloneBackwards  \* the kernel passes clone's tls before child_tid (arm64)

ASSUME TableAssumption ==
  /\ Android \in BOOLEAN
  /\ CloneBackwards \in BOOLEAN

Stale      == -1
Unreadable == -2

(***************************************************************************)
(* Producer.  The event type each case stores; "open" has a case of its    *)
(* own that stores none.                                                   *)
(***************************************************************************)
EventOf ==
  [ptrace |-> "EVENT_PTRACE", read |-> "EVENT_READ", execve |-> "EVENT_EXECVE",
   fork |-> "EVENT_FORK", clone |-> "EVENT_CLONE",
   mprotect |-> "EVENT_MPROTECT", openat |-> "EVENT_OPENAT",
   mmap |-> "EVENT_MMAP", write |-> "EVENT_WRITE", chown |-> "EVENT_CHOWN",
   mount |-> "EVENT_MOUNT", umount |-> "EVENT_UMOUNT",
   umount2 |-> "EVENT_UMOUNT", ioctl |-> "EVENT_IOCTL",
   setuid |-> "EVENT_SETUID", setgid |-> "EVENT_SETGID",
   capset |-> "EVENT_CAPSET", prctl |-> "EVENT_PRCTL",
   keyctl |-> "EVENT_KEYCTL"]

Reported == DOMAIN EventOf
Cases    == Reported \cup {"open"}

\* The i for which the case executes  ev->args[i] = ctx->args[i].
CopiedArgs ==
  [ptrace |-> 0..3, read |-> 0..2, execve |-> 1..2, fork |-> {},
   clone |-> 0..3, mprotect |-> 0..2, openat |-> {0, 2, 3}, mmap |-> 0..5,
   write |-> 0..2, chown |-> 1..2, mount |-> 3..4, umount |-> {1},
   umount2 |-> {1}, ioctl |-> 0..2, setuid |-> {0}, setgid |-> {0},
   capset |-> 0..1, prctl |-> 0..4, keyctl |-> 0..4]

\* The arguments whose strings go to str1, str2, str3.
StringArgs(sys) ==
  CASE sys = "mount"  -> <<0, 1, 2>>
    [] sys = "openat" -> <<1>>
    [] sys \in {"execve", "chown", "umount", "umount2"} -> <<0>>
    [] OTHER -> << >>

\* The cases that discard the record when a string cannot be read.
DiscardsOnFault == {"execve", "openat", "chown", "umount", "umount2"}

\* The fields of a record when the case is done and the strings in faults
\* could not be read.
WrittenArgs(sys) ==
  [i \in 0..5 |-> IF i \in CopiedArgs[sys] THEN i ELSE Stale]

WrittenStrs(sys, faults) ==
  [k \in 1..3 |-> IF k \in DOMAIN StringArgs(sys)
                    THEN IF k \in faults THEN Unreadable ELSE StringArgs(sys)[k]
                    ELSE Stale]

(***************************************************************************)
(* Consumer.  The value of syscall="..." printed for an event type, and    *)
(* the field printed under each of its labels.                             *)
(***************************************************************************)
EventTypes == {EventOf[sys] : sys \in Reported}

SyscallLabel(type) ==
  CASE type \notin EventTypes -> "unknown"
    [] type = "EVENT_IOCTL"   -> "binder_ioctl"
    [] OTHER -> CHOOSE sys \in Reported \ {"umount2"} : EventOf[sys] = type

Labels == Reported \cup {"binder_ioctl", "unknown"}

Arg(i) == <<"args", i>>
Str(k) == <<"str", k>>

ShownFields ==
  [EVENT_PTRACE   |-> [request |-> Arg(0), tracee |-> Arg(1), addr |-> Arg(2),
                       data |-> Arg(3)],
   EVENT_READ     |-> [fd |-> Arg(0), buf |-> Arg(1), count |-> Arg(2)],
   EVENT_EXECVE   |-> [filename |-> Str(1), argv |-> Arg(1), envp |-> Arg(2)],
   EVENT_FORK     |-> << >>,
   EVENT_CLONE    |-> [flags |-> Arg(0), child_stack |-> Arg(1),
                       parent_tid |-> Arg(2), child_tid |-> Arg(3)],
   EVENT_MPROTECT |-> [addr |-> Arg(0), len |-> Arg(1), prot |-> Arg(2)],
   EVENT_OPENAT   |-> [fd |-> Arg(0), filename |-> Str(1), flags |-> Arg(2),
                       mode |-> Arg(3)],
   EVENT_MMAP     |-> [addr |-> Arg(0), length |-> Arg(1), prot |-> Arg(2),
                       flags |-> Arg(3), fd |-> Arg(4), off |-> Arg(5)],
   EVENT_WRITE    |-> [fd |-> Arg(0), buf |-> Arg(1), count |-> Arg(2)],
   EVENT_CHOWN    |-> [filename |-> Str(1), uid |-> Arg(1), gid |-> Arg(2)],
   EVENT_MOUNT    |-> [source |-> Str(1), target |-> Str(2), fstype |-> Str(3),
                       flags |-> Arg(3), data |-> Arg(4)],
   EVENT_UMOUNT   |-> [target |-> Str(1), flags |-> Arg(1)],
   EVENT_IOCTL    |-> [fd |-> Arg(0), cmd |-> Arg(1), arg |-> Arg(2)],
   EVENT_SETUID   |-> [uid |-> Arg(0)],
   EVENT_SETGID   |-> [gid |-> Arg(0)],
   EVENT_CAPSET   |-> [hdr |-> Arg(0), data |-> Arg(1)],
   EVENT_PRCTL    |-> [option |-> Arg(0), arg2 |-> Arg(1), arg3 |-> Arg(2),
                       arg4 |-> Arg(3), arg5 |-> Arg(4)],
   EVENT_KEYCTL   |-> [cmd |-> Arg(0), arg2 |-> Arg(1), arg3 |-> Arg(2),
                       arg4 |-> Arg(3), arg5 |-> Arg(4)]]

ShownLabels(type) ==
  IF type \in EventTypes THEN DOMAIN ShownFields[type] ELSE {}

\* What the handler prints under label l for a record with these fields.
ShownValue(type, l, args, strs) ==
  LET f == ShownFields[type][l]
  IN  IF f[1] = "args" THEN args[f[2]] ELSE strs[f[2]]

(***************************************************************************)
(* Kernel (external): the arguments of each system call, in the order in   *)
(* which the calling convention passes them, under the handler's labels.   *)
(***************************************************************************)
Prototype ==
  [ptrace |-> <<"request", "tracee", "addr", "data">>,
   read |-> <<"fd", "buf", "count">>, write |-> <<"fd", "buf", "count">>,
   execve |-> <<"filename", "argv", "envp">>, fork |-> << >>,
   clone |-> IF CloneBackwards
               THEN <<"flags", "child_stack", "parent_tid", "tls", "child_tid">>
               ELSE <<"flags", "child_stack", "parent_tid", "child_tid", "tls">>,
   mprotect |-> <<"addr", "len", "prot">>,
   openat |-> <<"fd", "filename", "flags", "mode">>,
   mmap |-> <<"addr", "length", "prot", "flags", "fd", "off">>,
   chown |-> <<"filename", "uid", "gid">>,
   mount |-> <<"source", "target", "fstype", "flags", "data">>,
   umount |-> <<"target">>, umount2 |-> <<"target", "flags">>,
   ioctl |-> <<"fd", "cmd", "arg">>,
   setuid |-> <<"uid">>, setgid |-> <<"gid">>, capset |-> <<"hdr", "data">>,
   prctl |-> <<"option", "arg2", "arg3", "arg4", "arg5">>,
   keyctl |-> <<"cmd", "arg2", "arg3", "arg4", "arg5">>]

\* Argument i of the call goes by name l.
Names(sys, i, l) == i + 1 \in DOMAIN Prototype[sys] /\ Prototype[sys][i + 1] = l
=============================================================================
