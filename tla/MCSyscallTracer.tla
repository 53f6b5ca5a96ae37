--------------------------- MODULE MCSyscallTracer ---------------------------
(***************************************************************************)
(* Instances of SyscallTracer for TLC: two threads of a traced process and *)
(* one of another process, e.g. a debugger that is not traced.  Android is *)
(* FALSE in all of them: eptracer.bpf.c takes it from __aarch64__ and      *)
(* __ANDROID__, and clang -target bpf, as the Makefile calls it for every  *)
(* architecture, defines neither.                                          *)
(***************************************************************************)
EXTENDS SyscallTracer

CONSTANTS t1, t2, t3, target, other

MCProcOf == [t \in Threads |-> IF t = t3 THEN other ELSE target]

Plain(sys)  == [sys |-> sys, tracee |-> NoProc, binder |-> FALSE]
Ptrace(p)   == [sys |-> "ptrace", tracee |-> p, binder |-> FALSE]
BinderIoctl == [sys |-> "ioctl", tracee |-> NoProc, binder |-> TRUE]

\* A handler without strings, one that discards on a fault, and ptrace.
CoreCalls     == {Plain("read"), Plain("openat"), Ptrace(target)}
ReadAndPtrace == {Plain("read"), Ptrace(target)}
CloneOnly     == {Plain("clone")}
IoctlOnly     == {Plain("ioctl"), BinderIoctl}

\* Every call with a case, ioctl in both kinds, PTRACE_TRACEME (which names no
\* process), and a call without a case.
AllCalls ==
  {Plain(sys) : sys \in Cases \cup {"close"}} \cup {BinderIoctl, Ptrace(target)}

\* The system calls of x86-64, which has no __NR_umount, and of arm64, which
\* has none of the calls superseded by the -at and clone families.
X86Cases   == Cases \ {"umount"}
Arm64Cases == Cases \ {"umount", "fork", "open", "chown"}

\* With the sizes of the source the buffer has room for eight events.
ASSUME RingBytes = 4096 /\ MaxBufSize = 128 => Capacity = 8
=============================================================================
