-------------------------------- MODULE Jdwp --------------------------------
(***************************************************************************)
(* The JDWP monitor.  The XDP program filter_jdwp_packets runs on the CPU  *)
(* that receives a packet, and outputs a report of some packets to the     *)
(* ring buffer rb; it passes every packet on, whatever it is.  The process *)
(* jdwp attaches it, polls the buffer and prints each report until SIGINT  *)
(* or SIGTERM sets a flag.                                                 *)
(*                                                                         *)
(* A packet is data only as far as the program looks at it: its length,    *)
(* two fields of the IP header, the first byte of the TCP source port, and *)
(* the distance of the first zero byte from the end of the TCP header.     *)
(***************************************************************************)
EXTENDS Integers, Sequences, FiniteSets

CONSTANTS
  Cpus,        \* CPUs that receive packets
  Packets,     \* the packets that may arrive
  Junk,        \* what a byte nobody wrote may hold
  EthLen,      \* sizeof(struct ethhdr)
  IpLen,       \* sizeof(struct iphdr), a header without options
  TcpLen,      \* sizeof(struct tcphdr), likewise
  MaxTcpData,  \* MAXTCPDATA
  RingBytes,   \* max_entries of rb
  MaxPackets   \* bound: packets that arrive in a behaviour

Bytes == 0..255
Nibbles == 0..15
MaxPort == 65535
Ports == 0..MaxPort

ASSUME JdwpAssumption ==
  /\ Packets \subseteq [len : Nat, version : Nibbles, ihl : Nibbles,
                        high : Bytes, nul : Nat]
  /\ Packets # {}
  /\ Junk \subseteq Bytes
  /\ EthLen \in Nat /\ IpLen \in Nat /\ TcpLen \in Nat
  /\ MaxTcpData \in Nat \ {0}
  /\ RingBytes \in Nat \ {0}
  /\ MaxPackets \in Nat

VARIABLES
  main,     \* where main is
  exiting,  \* the flag of the signal handler
  err,      \* the local variable err
  status,   \* what main has returned
  failed,   \* has a step of main failed?
  log,      \* every record reserved in rb, in order of reservation
  cons,     \* number of records released
  printed,  \* the records that handle_event has printed
  prog,     \* where the XDP program is on each CPU
  report,   \* its jdwp_data while it runs
  slot,     \* the record it has reserved
  packets   \* number of packets that have arrived

vars == <<main, exiting, err, status, failed, log, cons, printed, prog, report,
          slot, packets>>
mainVars == <<main, exiting, err, status, failed>>
readVars == <<cons, printed>>
xdpVars  == <<prog, report, slot, packets>>

\* A jdwp_data_t; shown is the length of the string in data.
\* from is the packet it tells of, which it does not hold.
Report == [from : Packets, port : Ports, shown : 0..(MaxTcpData - 1)]
Blank  == [from |-> CHOOSE p \in Packets : TRUE, port |-> 0, shown |-> 0]

\* A record is busy until it is ready, and blank until the report is copied.
Record == [ready : BOOLEAN, report : Report]

\* struct jdwp_data_t and the ring buffer's 8-byte record header.
RoundUp8(n) == 8 * ((n + 7) \div 8)
RecordBytes == RoundUp8(MaxTcpData + 2 + 2 + 4 + 8)
Capacity    == (RingBytes - 1) \div RecordBytes

TypeOK ==
  /\ main \in {"args", "load", "ring", "attach", "check", "call", "wait", "read",
               "handled", "cleanup", "ended"}
  /\ exiting \in BOOLEAN
  /\ err \in {"unset", "negative", "other"}
  /\ status \in {"none", "zero", "error"}
  /\ failed \in BOOLEAN
  /\ log \in Seq(Record)
  /\ cons \in 0..Len(log)
  /\ printed \in Seq(1..Len(log))
  /\ prog \in [Cpus -> {"idle", "output", "copy"}]
  /\ report \in [Cpus -> Report]
  /\ slot \in [Cpus -> 0..Len(log)]
  /\ packets \in 0..MaxPackets

\* The handlers of SIGINT and SIGTERM are set.
Init ==
  /\ main = "args"
  /\ exiting = FALSE
  /\ err = "unset"
  /\ status = "none"
  /\ failed = FALSE
  /\ log = << >>
  /\ cons = 0
  /\ printed = << >>
  /\ prog = [c \in Cpus |-> "idle"]
  /\ report = [c \in Cpus |-> Blank]
  /\ slot = [c \in Cpus |-> 0]
  /\ packets = 0

-----------------------------------------------------------------------------
(***************************************************************************)
(* The XDP program on CPU c.                                               *)
(***************************************************************************)
\* The link is no part of the skeleton: it lasts until the process ends.  (There is
\* none yet in a cleanup that follows a failed ring_buffer__new; packets that come
\* then are let in all the same.)
Attached == main \in {"check", "call", "wait", "read", "handled", "cleanup"}

TcpStart(p)  == EthLen + 4 * p.ihl
DataStart(p) == TcpStart(p) + TcpLen

\* Mutant of IsReported: the length is checked as if no IP header had options.
IsReportedBare(p) ==
  /\ p.version = 4
  /\ 4 * p.ihl >= IpLen
  /\ EthLen + IpLen + TcpLen + MaxTcpData <= p.len

\* The checks of detect_jdwp_protocol, in its order.  Each + 1 is one byte, a
\* void pointer being advanced.  Neither the protocol nor the length of the TCP
\* header is looked at.
IsReported(p) ==
  /\ EthLen + 1 <= p.len
  /\ p.version = 4
  /\ 4 * p.ihl >= IpLen
  /\ TcpStart(p) + 1 <= p.len
  /\ DataStart(p) + MaxTcpData <= p.len

\* bpf_probe_read_kernel_str copies up to a zero byte, at most size - 1 bytes,
\* and stores a zero byte after them.  Of a port of two bytes that leaves the
\* first; if that one is zero nothing is stored in the second.
ShownPort(p, junk) == 256 * p.high + (IF p.high = 0 THEN junk ELSE 0)

\* Mutant of ShownLength: the data is taken for a string that ends in time.
ShownLengthUnbounded(p) == p.nul

ShownLength(p) == IF p.nul < MaxTcpData THEN p.nul ELSE MaxTcpData - 1

\* A packet arrives; unread: bpf_probe_read_kernel_str failed on its data, and the
\* program returns XDP_ABORTED without a report.
Receive(c) ==
  /\ Attached
  /\ prog[c] = "idle"
  /\ packets < MaxPackets
  /\ packets' = packets + 1
  /\ \E p \in Packets, junk \in Junk, unread \in BOOLEAN :
       IF IsReported(p) /\ ~unread
         THEN /\ report' = [report EXCEPT ![c] =
                              [from |-> p, port |-> ShownPort(p, junk),
                               shown |-> ShownLength(p)]]
              /\ prog' = [prog EXCEPT ![c] = "output"]
         ELSE UNCHANGED <<report, prog>>
  /\ UNCHANGED <<mainVars, log, readVars, slot>>

BlankRecord(p) == [ready |-> FALSE, report |-> [from |-> p, port |-> 0, shown |-> 0]]

\* bpf_ringbuf_output reserves a record, if there is room ...
Reserve(c) ==
  /\ prog[c] = "output"
  /\ IF Len(log) - cons < Capacity
       THEN /\ log' = Append(log, BlankRecord(report[c].from))
            /\ slot' = [slot EXCEPT ![c] = Len(log) + 1]
            /\ prog' = [prog EXCEPT ![c] = "copy"]
            /\ UNCHANGED report
       ELSE /\ prog' = [prog EXCEPT ![c] = "idle"]
            /\ report' = [report EXCEPT ![c] = Blank]
            /\ UNCHANGED <<log, slot>>
  /\ UNCHANGED <<mainVars, readVars, packets>>

\* Mutant of Commit: a CPU waits until no other is copying.
CommitAlone(c) ==
  /\ prog[c] = "copy"
  /\ \A d \in Cpus \ {c} : prog[d] # "copy"
  /\ log' = [log EXCEPT ![slot[c]] = [ready |-> TRUE, report |-> report[c]]]
  /\ prog' = [prog EXCEPT ![c] = "idle"]
  /\ report' = [report EXCEPT ![c] = Blank]
  /\ UNCHANGED <<mainVars, readVars, slot, packets>>

\* ... and then copies the report and makes the record ready.
Commit(c) ==
  /\ prog[c] = "copy"
  /\ log' = [log EXCEPT ![slot[c]] = [ready |-> TRUE, report |-> report[c]]]
  /\ prog' = [prog EXCEPT ![c] = "idle"]
  /\ report' = [report EXCEPT ![c] = Blank]
  /\ UNCHANGED <<mainVars, readVars, slot, packets>>

-----------------------------------------------------------------------------
(***************************************************************************)
(* The process.                                                            *)
(***************************************************************************)
bufferVars == <<log, readVars, xdpVars>>

\* Arguments and interface; skeleton and file descriptor; ring buffer; link.
SetUp ==
  /\ \/ main = "args" /\ main' = "load"
     \/ main = "load" /\ main' = "ring"
     \/ main = "ring" /\ main' = "attach"
     \/ main = "attach" /\ main' = "check"
  /\ UNCHANGED <<exiting, err, status, failed, bufferVars>>

\* main returns 1; without a ring buffer it goes by cleanup.
SetUpFails ==
  /\ main \in {"args", "load", "ring", "attach"}
  /\ failed' = TRUE
  /\ IF main = "ring" THEN /\ main' = "cleanup"
                           /\ err' = "negative"
                           /\ UNCHANGED status
                      ELSE /\ main' = "ended"
                           /\ status' = "error"
                           /\ UNCHANGED err
  /\ UNCHANGED <<exiting, bufferVars>>

\* while (!exiting)
Check ==
  /\ main = "check"
  /\ main' = IF exiting THEN "cleanup" ELSE "call"
  /\ UNCHANGED <<exiting, err, status, failed, bufferVars>>

\* ring_buffer__poll: a signal from here on interrupts epoll_wait.
Call ==
  /\ main = "call"
  /\ main' = "wait"
  /\ UNCHANGED <<exiting, err, status, failed, bufferVars>>

\* Mutant of Timeout: poll waits until there is something to read.
TimeoutNever ==
  /\ main = "wait"
  /\ cons < Len(log)
  /\ main' = "check"
  /\ err' = "other"
  /\ UNCHANGED <<exiting, status, failed, bufferVars>>

Timeout ==
  /\ main = "wait"
  /\ main' = "check"
  /\ err' = "other"
  /\ UNCHANGED <<exiting, status, failed, bufferVars>>

\* Mutant of WakeUp: epoll_wait is woken for a second report only.
WakeUpForTwo ==
  /\ main = "wait"
  /\ cons + 1 < Len(log)
  /\ main' = "read"
  /\ UNCHANGED <<exiting, err, status, failed, bufferVars>>

WakeUp ==
  /\ main = "wait"
  /\ cons < Len(log)
  /\ main' = "read"
  /\ UNCHANGED <<exiting, err, status, failed, bufferVars>>

\* Mutant of HandleEvent: the handler prints twice.
HandleEventTwice ==
  /\ main = "read"
  /\ cons < Len(log)
  /\ log[cons + 1].ready
  /\ printed' = printed \o <<cons + 1, cons + 1>>
  /\ main' = "handled"
  /\ UNCHANGED <<exiting, err, status, failed, log, cons, xdpVars>>

HandleEvent ==
  /\ main = "read"
  /\ cons < Len(log)
  /\ log[cons + 1].ready
  /\ printed' = Append(printed, cons + 1)
  /\ main' = "handled"
  /\ UNCHANGED <<exiting, err, status, failed, log, cons, xdpVars>>

Release ==
  /\ main = "handled"
  /\ cons' = cons + 1
  /\ main' = "read"
  /\ UNCHANGED <<exiting, err, status, failed, log, printed, xdpVars>>

\* Mutant of Drained: poll waits for a busy record.
DrainedEmpty ==
  /\ main = "read"
  /\ cons >= Len(log)
  /\ main' = "check"
  /\ err' = "other"
  /\ UNCHANGED <<exiting, status, failed, bufferVars>>

\* Nothing is left, or a busy record: poll returns the number handled.
Drained ==
  /\ main = "read"
  /\ cons < Len(log) => ~log[cons + 1].ready
  /\ main' = "check"
  /\ err' = "other"
  /\ UNCHANGED <<exiting, status, failed, bufferVars>>

\* An error other than EINTR ends the loop.
PollFails ==
  /\ main = "wait"
  /\ main' = "cleanup"
  /\ err' = "negative"
  /\ failed' = TRUE
  /\ UNCHANGED <<exiting, status, bufferVars>>

\* Mutant of Interrupted: EINTR is an error like any other.
InterruptedUncaught ==
  /\ main' = "cleanup"
  /\ err' = "negative"

\* -EINTR: err = 0, and the loop ends.
Interrupted ==
  /\ main' = "cleanup"
  /\ err' = "other"

\* sig_handler.  epoll_wait returns EINTR unless it has something to return.
Signal ==
  /\ main # "ended"
  /\ exiting' = TRUE
  /\ \/ main = "wait" /\ Interrupted
     \/ (main = "wait" => cons < Len(log)) /\ UNCHANGED <<main, err>>
  /\ UNCHANGED <<status, failed, bufferVars>>

\* A stop and a SIGCONT interrupt epoll_wait too, and set no flag.
Continued ==
  /\ main = "wait"
  /\ Interrupted
  /\ UNCHANGED <<exiting, status, failed, bufferVars>>

\* The buffer and the skeleton are freed; err may still be uninitialized.
Cleanup ==
  /\ main = "cleanup"
  /\ main' = "ended"
  /\ status' \in CASE err = "negative" -> {"error"}
                   [] err = "other"    -> {"zero"}
                   [] err = "unset"    -> {"zero", "error"}
  /\ UNCHANGED <<exiting, err, failed, bufferVars>>

-----------------------------------------------------------------------------
Monitor ==
  \/ SetUp \/ SetUpFails \/ Check \/ Call \/ Timeout \/ WakeUp \/ HandleEvent
  \/ Release \/ Drained \/ Cleanup

Next ==
  \/ Monitor \/ PollFails \/ Signal \/ Continued
  \/ \E c \in Cpus : Receive(c) \/ Reserve(c) \/ Commit(c)

Spec == Init /\ [][Next]_vars

\* main runs on; epoll_wait returns after 100 ms at the latest.  Nothing obliges
\* it to fail or a signal to come.
FairSpec == Spec /\ WF_vars(Monitor)

\* The CPU that reserved the record main has come to commits it.
Serve ==
  \E c \in Cpus : prog[c] = "copy" /\ slot[c] = cons + 1 /\ Commit(c)

\* What only the reports need: a program runs to completion once started, and
\* epoll_wait does not for ever return by its timeout although the buffer has some.
Delivery == WF_vars(Serve) /\ SF_vars(WakeUp)

-----------------------------------------------------------------------------
(***************************************************************************)
(* Properties.                                                             *)
(***************************************************************************)

\* What is printed of a packet is the packet's: the string and the byte after it
\* lie inside the packet, however long its IP header is, and the port is the
\* packet's but for its low byte.
PrintedFromPacket ==
  \A i \in 1..Len(printed) :
    LET r == log[printed[i]].report
    IN  /\ DataStart(r.from) + r.shown + 1 <= r.from.len
        /\ r.port - 256 * r.from.high \in Bytes

\* main returns 0 if and only if nothing failed, although EINTR reaches it as an
\* error; except when a signal came before the first poll and err has no value.
StatusTellsFailure ==
  status # "none" =>
    \/ failed /\ status = "error"
    \/ ~failed /\ (status = "zero" \/ err = "unset")

\* Reports are printed in the order of their reservation, each once, although
\* CPUs commit in another order; some are lost when the buffer is full.
Released == IF main = "handled" THEN cons + 1 ELSE cons

Channel == INSTANCE EventChannel WITH
  accepted  <- Len(log),
  waiting   <- (Released + 1)..Len(log),
  delivered <- printed,
  open      <- main \notin {"cleanup", "ended"}

ReportChannel == Channel!Spec

\* Until it has ended main waits for nobody: not for a packet, a signal, or a CPU that
\* copies its report into the record which main has reached.
CanProceed == main # "ended" => ENABLED <<Monitor>>_vars

\* Nor does that CPU wait for main, or main for more than one report to be there.
DeliveryCanProceed ==
  /\ cons < Len(log) /\ ~log[cons + 1].ready => ENABLED <<Serve>>_vars
  /\ cons < Len(log) /\ main = "wait" => ENABLED <<WakeUp>>_vars

\* Every committed report is printed in the end, unless the loop ends: not even one of
\* another CPU that was reserved before it and is committed after it holds it up, or the
\* drain that stopped there.
GetsPrinted(k) ==
  (k <= Len(log) /\ log[k].ready) ~> (k <= Released \/ main \in {"cleanup", "ended"})

CommittedGetsPrinted == Delivery => \A k \in 1..MaxPackets : GetsPrinted(k)

\* A signal ends the process, if packets pause long enough for the buffer to be
\* drained: one that comes between the test of the flag and epoll_wait is
\* noticed after the timeout.
SignalEnds == exiting ~> main = "ended"

-----------------------------------------------------------------------------
(***************************************************************************)
(* The inductive invariant from which the safety properties are proved.    *)
(***************************************************************************)
\* The string of a report, and the byte after it, lie inside its packet.
Fits(r) ==
  /\ DataStart(r.from) + r.shown + 1 <= r.from.len
  /\ r.port - 256 * r.from.high \in Bytes

ReportsFit ==
  /\ \A c \in Cpus : prog[c] # "idle" => Fits(report[c])
  /\ \A k \in 1..Len(log) : log[k].ready => Fits(log[k].report)

\* A CPU copies into the record it reserved, which is busy and its own.
CopiesIntoOwn ==
  \A c \in Cpus : prog[c] = "copy" =>
    /\ slot[c] \in 1..Len(log)
    /\ ~log[slot[c]].ready
    /\ \A d \in Cpus \ {c} : prog[d] = "copy" => slot[d] # slot[c]

PrintedAreReady ==
  /\ \A k \in 1..cons : log[k].ready
  /\ main = "handled" => cons < Len(log) /\ log[cons + 1].ready
  /\ \A i \in 1..Len(printed) : log[printed[i]].ready

\* err is negative from a failure until main returns, and at no other time.
ErrTellsFailure ==
  /\ failed => \/ main = "cleanup" /\ err = "negative"
               \/ main = "ended" /\ status = "error"
  /\ ~failed => err # "negative"
  /\ status # "none" <=> main = "ended"

IInv ==
  /\ TypeOK
  /\ ReportsFit
  /\ CopiesIntoOwn
  /\ PrintedAreReady
  /\ ErrTellsFailure
  /\ StatusTellsFailure

\* For liveness: a busy record has the CPU that copies into it; nothing is received
\* before the program is attached; what is not released fits into the buffer.
BusyAreCopied ==
  \A k \in 1..Len(log) :
    ~log[k].ready => \E c \in Cpus : prog[c] = "copy" /\ slot[c] = k

AttachedFirst ==
  main \in {"args", "load", "ring", "attach"} =>
    log = << >> /\ \A c \in Cpus : prog[c] = "idle"

BufferBounded == Len(log) - cons <= Capacity

\* For liveness: of a packet there is one report at most, still to be output or in the
\* log.
Outputting == {c \in Cpus : prog[c] = "output"}

OnePerPacket ==
  /\ IsFiniteSet(Outputting)
  /\ Len(log) + Cardinality(Outputting) <= packets
=============================================================================
