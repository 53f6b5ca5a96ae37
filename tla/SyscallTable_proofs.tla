------------------------- MODULE SyscallTable_proofs -------------------------
(***************************************************************************)
(* Facts about the tables: the types of their entries, and that producer,  *)
(* consumer and calling convention agree with each other.                  *)
(***************************************************************************)
EXTENDS SyscallTable, TLAPS

\* The event type of a reported call is an event type.
LEMMA EventOfType == \A sys \in Reported : EventOf[sys] \in EventTypes
BY DEF EventTypes

\* The handler prints a known name, "unknown" or "binder_ioctl".
LEMMA LabelType == ASSUME NEW type PROVE SyscallLabel(type) \in Labels
<1>1. CASE type \notin EventTypes
  BY <1>1 DEF SyscallLabel, Labels
<1>2. CASE type = "EVENT_IOCTL"
  BY <1>2 DEF SyscallLabel, Labels
<1>3. CASE type \in EventTypes /\ type # "EVENT_IOCTL"
  <2>1. \E sys \in Reported \ {"umount2"} : EventOf[sys] = type
    <3>1. PICK sys \in Reported : EventOf[sys] = type
      BY <1>3 DEF EventTypes
    <3>2. CASE sys = "umount2"
      <4>1. EventOf["umount"] = type /\ "umount" \in Reported \ {"umount2"}
        BY <3>1, <3>2 DEF EventOf, Reported
      <4> QED BY <4>1
    <3> QED BY <3>1, <3>2
  <2>2. SyscallLabel(type)
          = CHOOSE sys \in Reported \ {"umount2"} : EventOf[sys] = type
    BY <1>3 DEF SyscallLabel
  <2> QED BY <2>1, <2>2 DEF Labels
<1> QED BY <1>1, <1>2, <1>3

\* The strings of a call are arguments of it.
LEMMA StringArgsType ==
  ASSUME NEW sys, NEW k \in DOMAIN StringArgs(sys)
  PROVE  StringArgs(sys)[k] \in 0..2
<1>1. CASE sys = "mount"
  BY <1>1 DEF StringArgs
<1>2. CASE sys = "openat"
  BY <1>2 DEF StringArgs
<1>3. CASE sys \in {"execve", "chown", "umount", "umount2"}
  BY <1>3 DEF StringArgs
<1>4. CASE sys \notin {"mount", "openat", "execve", "chown", "umount", "umount2"}
  BY <1>4 DEF StringArgs
<1> QED BY <1>1, <1>2, <1>3, <1>4

\* Under each label the handler prints one of the six arguments or of the
\* three strings.
LEMMA ShownFieldType ==
  ASSUME NEW type \in EventTypes, NEW l \in DOMAIN ShownFields[type]
  PROVE  LET f == ShownFields[type][l]
         IN  IF f[1] = "args" THEN f[2] \in 0..5 ELSE f[2] \in 1..3
<1> USE DEF ShownFields, Arg, Str
<1>1. CASE type = "EVENT_PTRACE"   BY <1>1
<1>2. CASE type = "EVENT_READ"     BY <1>2
<1>3. CASE type = "EVENT_EXECVE"   BY <1>3
<1>4. CASE type = "EVENT_FORK"     BY <1>4
<1>5. CASE type = "EVENT_CLONE"    BY <1>5
<1>6. CASE type = "EVENT_MPROTECT" BY <1>6
<1>7. CASE type = "EVENT_OPENAT"   BY <1>7
<1>8. CASE type = "EVENT_MMAP"     BY <1>8
<1>9. CASE type = "EVENT_WRITE"    BY <1>9
<1>10. CASE type = "EVENT_CHOWN"   BY <1>10
<1>11. CASE type = "EVENT_MOUNT"   BY <1>11
<1>12. CASE type = "EVENT_UMOUNT"  BY <1>12
<1>13. CASE type = "EVENT_IOCTL"   BY <1>13
<1>14. CASE type = "EVENT_SETUID"  BY <1>14
<1>15. CASE type = "EVENT_SETGID"  BY <1>15
<1>16. CASE type = "EVENT_CAPSET"  BY <1>16
<1>17. CASE type = "EVENT_PRCTL"   BY <1>17
<1>18. CASE type = "EVENT_KEYCTL"  BY <1>18
<1> HIDE DEF ShownFields, Arg, Str
<1>19. type \in {"EVENT_PTRACE", "EVENT_READ", "EVENT_EXECVE", "EVENT_FORK",
                 "EVENT_CLONE", "EVENT_MPROTECT", "EVENT_OPENAT", "EVENT_MMAP",
                 "EVENT_WRITE", "EVENT_CHOWN", "EVENT_MOUNT", "EVENT_UMOUNT",
                 "EVENT_IOCTL", "EVENT_SETUID", "EVENT_SETGID", "EVENT_CAPSET",
                 "EVENT_PRCTL", "EVENT_KEYCTL"}
  BY DEF EventTypes, Reported, EventOf
<1> QED BY <1>1, <1>2, <1>3, <1>4, <1>5, <1>6, <1>7, <1>8, <1>9, <1>10, <1>11,
           <1>12, <1>13, <1>14, <1>15, <1>16, <1>17, <1>18, <1>19

\* What the handler prints under label l was stored by the case of sys and is
\* the argument that the calling convention passes under that name.
Agrees(sys, l) ==
  LET f == ShownFields[EventOf[sys]][l]
      s == StringArgs(sys)
  IN  IF f[1] = "args"
        THEN f[2] \in CopiedArgs[sys] /\ Names(sys, f[2], l)
        ELSE f[2] \in DOMAIN s /\ Names(sys, s[f[2]], l)

\* They agree for every call and label; but for the old umount, which has no
\* flags, and for clone where the kernel passes tls before child_tid.
THEOREM TablesAgree ==
  ASSUME NEW sys \in Reported \ {"umount"},
         CloneBackwards => sys # "clone",
         NEW l \in DOMAIN ShownFields[EventOf[sys]]
  PROVE  Agrees(sys, l)
<1>1. CASE sys = "ptrace"
  <2>1. /\ EventOf[sys] = "EVENT_PTRACE"
        /\ ShownFields["EVENT_PTRACE"] =
            [request |-> Arg(0), tracee |-> Arg(1),
             addr |-> Arg(2), data |-> Arg(3)]
        /\ CopiedArgs[sys] = 0..3
        /\ Prototype[sys] = <<"request", "tracee", "addr", "data">>
    BY <1>1 DEF EventOf, ShownFields, CopiedArgs, Prototype
  <2> QED BY <2>1 DEF Agrees, Names, Arg, Str
<1>2. CASE sys = "read"
  <2>1. /\ EventOf[sys] = "EVENT_READ"
        /\ ShownFields["EVENT_READ"] =
            [fd |-> Arg(0), buf |-> Arg(1),
             count |-> Arg(2)]
        /\ CopiedArgs[sys] = 0..2
        /\ Prototype[sys] = <<"fd", "buf", "count">>
    BY <1>2 DEF EventOf, ShownFields, CopiedArgs, Prototype
  <2> QED BY <2>1 DEF Agrees, Names, Arg, Str
<1>3. CASE sys = "execve"
  <2>1. /\ EventOf[sys] = "EVENT_EXECVE"
        /\ ShownFields["EVENT_EXECVE"] =
            [filename |-> Str(1), argv |-> Arg(1),
             envp |-> Arg(2)]
        /\ CopiedArgs[sys] = 1..2
        /\ Prototype[sys] = <<"filename", "argv", "envp">>
        /\ StringArgs(sys) = <<0>>
    BY <1>3 DEF EventOf, ShownFields, CopiedArgs, Prototype, StringArgs
  <2> QED BY <2>1 DEF Agrees, Names, Arg, Str
<1>4. CASE sys = "fork"
  <2>1. /\ EventOf[sys] = "EVENT_FORK"
        /\ ShownFields["EVENT_FORK"] = << >>
        /\ CopiedArgs[sys] = {}
        /\ Prototype[sys] = << >>
    BY <1>4 DEF EventOf, ShownFields, CopiedArgs, Prototype
  <2> QED BY <2>1 DEF Agrees, Names, Arg, Str
<1>5. CASE sys = "clone"
  <2>1. /\ EventOf[sys] = "EVENT_CLONE"
        /\ ShownFields["EVENT_CLONE"] =
            [flags |-> Arg(0), child_stack |-> Arg(1),
             parent_tid |-> Arg(2), child_tid |-> Arg(3)]
        /\ CopiedArgs[sys] = 0..3
        /\ Prototype[sys] =
            <<"flags", "child_stack", "parent_tid", "child_tid", "tls">>
    BY <1>5 DEF EventOf, ShownFields, CopiedArgs, Prototype
  <2> QED BY <2>1 DEF Agrees, Names, Arg, Str
<1>6. CASE sys = "mprotect"
  <2>1. /\ EventOf[sys] = "EVENT_MPROTECT"
        /\ ShownFields["EVENT_MPROTECT"] =
            [addr |-> Arg(0), len |-> Arg(1),
             prot |-> Arg(2)]
        /\ CopiedArgs[sys] = 0..2
        /\ Prototype[sys] = <<"addr", "len", "prot">>
    BY <1>6 DEF EventOf, ShownFields, CopiedArgs, Prototype
  <2> QED BY <2>1 DEF Agrees, Names, Arg, Str
<1>7. CASE sys = "openat"
  <2>1. /\ EventOf[sys] = "EVENT_OPENAT"
        /\ ShownFields["EVENT_OPENAT"] =
            [fd |-> Arg(0), filename |-> Str(1),
             flags |-> Arg(2), mode |-> Arg(3)]
        /\ CopiedArgs[sys] = {0, 2, 3}
        /\ Prototype[sys] = <<"fd", "filename", "flags", "mode">>
        /\ StringArgs(sys) = <<1>>
    BY <1>7 DEF EventOf, ShownFields, CopiedArgs, Prototype, StringArgs
  <2> QED BY <2>1 DEF Agrees, Names, Arg, Str
<1>8. CASE sys = "mmap"
  <2>1. /\ EventOf[sys] = "EVENT_MMAP"
        /\ ShownFields["EVENT_MMAP"] =
            [addr |-> Arg(0), length |-> Arg(1),
             prot |-> Arg(2), flags |-> Arg(3),
             fd |-> Arg(4), off |-> Arg(5)]
        /\ CopiedArgs[sys] = 0..5
        /\ Prototype[sys] =
            <<"addr", "length", "prot", "flags", "fd", "off">>
    BY <1>8 DEF EventOf, ShownFields, CopiedArgs, Prototype
  <2> QED BY <2>1 DEF Agrees, Names, Arg, Str
<1>9. CASE sys = "write"
  <2>1. /\ EventOf[sys] = "EVENT_WRITE"
        /\ ShownFields["EVENT_WRITE"] =
            [fd |-> Arg(0), buf |-> Arg(1),
             count |-> Arg(2)]
        /\ CopiedArgs[sys] = 0..2
        /\ Prototype[sys] = <<"fd", "buf", "count">>
    BY <1>9 DEF EventOf, ShownFields, CopiedArgs, Prototype
  <2> QED BY <2>1 DEF Agrees, Names, Arg, Str
<1>10. CASE sys = "chown"
  <2>1. /\ EventOf[sys] = "EVENT_CHOWN"
        /\ ShownFields["EVENT_CHOWN"] =
            [filename |-> Str(1), uid |-> Arg(1),
             gid |-> Arg(2)]
        /\ CopiedArgs[sys] = 1..2
        /\ Prototype[sys] = <<"filename", "uid", "gid">>
        /\ StringArgs(sys) = <<0>>
    BY <1>10 DEF EventOf, ShownFields, CopiedArgs, Prototype, StringArgs
  <2> QED BY <2>1 DEF Agrees, Names, Arg, Str
<1>11. CASE sys = "mount"
  <2>1. /\ EventOf[sys] = "EVENT_MOUNT"
        /\ ShownFields["EVENT_MOUNT"] =
            [source |-> Str(1), target |-> Str(2),
             fstype |-> Str(3), flags |-> Arg(3),
             data |-> Arg(4)]
        /\ CopiedArgs[sys] = 3..4
        /\ Prototype[sys] = <<"source", "target", "fstype", "flags", "data">>
        /\ StringArgs(sys) = <<0, 1, 2>>
    BY <1>11 DEF EventOf, ShownFields, CopiedArgs, Prototype, StringArgs
  <2> QED BY <2>1 DEF Agrees, Names, Arg, Str
<1>12. CASE sys = "umount2"
  <2>1. /\ EventOf[sys] = "EVENT_UMOUNT"
        /\ ShownFields["EVENT_UMOUNT"] = [target |-> Str(1), flags |-> Arg(1)]
        /\ CopiedArgs[sys] = {1}
        /\ Prototype[sys] = <<"target", "flags">>
        /\ StringArgs(sys) = <<0>>
    BY <1>12 DEF EventOf, ShownFields, CopiedArgs, Prototype, StringArgs
  <2> QED BY <2>1 DEF Agrees, Names, Arg, Str
<1>13. CASE sys = "ioctl"
  <2>1. /\ EventOf[sys] = "EVENT_IOCTL"
        /\ ShownFields["EVENT_IOCTL"] =
            [fd |-> Arg(0), cmd |-> Arg(1),
             arg |-> Arg(2)]
        /\ CopiedArgs[sys] = 0..2
        /\ Prototype[sys] = <<"fd", "cmd", "arg">>
    BY <1>13 DEF EventOf, ShownFields, CopiedArgs, Prototype
  <2> QED BY <2>1 DEF Agrees, Names, Arg, Str
<1>14. CASE sys = "setuid"
  <2>1. /\ EventOf[sys] = "EVENT_SETUID"
        /\ ShownFields["EVENT_SETUID"] = [uid |-> Arg(0)]
        /\ CopiedArgs[sys] = {0}
        /\ Prototype[sys] = <<"uid">>
    BY <1>14 DEF EventOf, ShownFields, CopiedArgs, Prototype
  <2> QED BY <2>1 DEF Agrees, Names, Arg, Str
<1>15. CASE sys = "setgid"
  <2>1. /\ EventOf[sys] = "EVENT_SETGID"
        /\ ShownFields["EVENT_SETGID"] = [gid |-> Arg(0)]
        /\ CopiedArgs[sys] = {0}
        /\ Prototype[sys] = <<"gid">>
    BY <1>15 DEF EventOf, ShownFields, CopiedArgs, Prototype
  <2> QED BY <2>1 DEF Agrees, Names, Arg, Str
<1>16. CASE sys = "capset"
  <2>1. /\ EventOf[sys] = "EVENT_CAPSET"
        /\ ShownFields["EVENT_CAPSET"] = [hdr |-> Arg(0), data |-> Arg(1)]
        /\ CopiedArgs[sys] = 0..1
        /\ Prototype[sys] = <<"hdr", "data">>
    BY <1>16 DEF EventOf, ShownFields, CopiedArgs, Prototype
  <2> QED BY <2>1 DEF Agrees, Names, Arg, Str
<1>17. CASE sys = "prctl"
  <2>1. /\ EventOf[sys] = "EVENT_PRCTL"
        /\ ShownFields["EVENT_PRCTL"] =
            [option |-> Arg(0), arg2 |-> Arg(1),
             arg3 |-> Arg(2), arg4 |-> Arg(3),
             arg5 |-> Arg(4)]
        /\ CopiedArgs[sys] = 0..4
        /\ Prototype[sys] = <<"option", "arg2", "arg3", "arg4", "arg5">>
    BY <1>17 DEF EventOf, ShownFields, CopiedArgs, Prototype
  <2> QED BY <2>1 DEF Agrees, Names, Arg, Str
<1>18. CASE sys = "keyctl"
  <2>1. /\ EventOf[sys] = "EVENT_KEYCTL"
        /\ ShownFields["EVENT_KEYCTL"] =
            [cmd |-> Arg(0), arg2 |-> Arg(1),
             arg3 |-> Arg(2), arg4 |-> Arg(3),
             arg5 |-> Arg(4)]
        /\ CopiedArgs[sys] = 0..4
        /\ Prototype[sys] = <<"cmd", "arg2", "arg3", "arg4", "arg5">>
    BY <1>18 DEF EventOf, ShownFields, CopiedArgs, Prototype
  <2> QED BY <2>1 DEF Agrees, Names, Arg, Str
<1> QED BY <1>1, <1>2, <1>3, <1>4, <1>5, <1>6, <1>7, <1>8, <1>9,
           <1>10, <1>11, <1>12, <1>13, <1>14, <1>15, <1>16, <1>17, <1>18 DEF Reported, EventOf
=============================================================================
