-------------------------- MODULE StackTracer_proofs --------------------------
(***************************************************************************)
(* Theorems about StackTracer, for any CPUs, buffer sizes and bounds.      *)
(***************************************************************************)
EXTENDS StackTracer, TLAPS

-----------------------------------------------------------------------------
(***************************************************************************)
(* What the operators of the two ends return.                              *)
(***************************************************************************)

\* bpf_get_stack leaves a buffer of frames, those up to its result its own.
LEMMA StoreFramesType ==
  ASSUME NEW old \in Frames, NEW n \in Failed..MaxFrames, NEW s \in 0..MaxSamples
  PROVE  /\ StoreFrames(old, n, s) \in Frames
         /\ \A m \in 1..MaxFrames : m <= n => StoreFrames(old, n, s)[m] = s
<1> USE StackAssumption DEF StoreFrames, Frames, Failed, NoFrames
<1>1. CASE n = Failed
  <2>1. NoFrames \in Frames
    OBVIOUS
  <2> QED BY <1>1, <2>1
<1>2. CASE n # Failed
  <2>1. [m \in 1..MaxFrames |-> IF m <= n THEN s ELSE old[m]] \in Frames
    OBVIOUS
  <2> QED BY <1>2, <2>1
<1> QED BY <1>1, <1>2

\* The dump of a sample has a length for either stack.
LEMMA DumpType ==
  ASSUME NEW s \in Sample, NEW k \in Nat
  PROVE  [pos |-> k, sample |-> s, kernShown |-> KernShown(s),
          userShown |-> UserShown(s)] \in Dump
<1>1. KernShown(s) \in Nat
  BY StackAssumption DEF KernShown, Sample, Failed
<1>2. UserShown(s) \in Nat
  BY StackAssumption DEF UserShown, Sample, Failed
<1> QED BY <1>1, <1>2 DEF Dump

-----------------------------------------------------------------------------
(***************************************************************************)
(* The invariant.                                                          *)
(***************************************************************************)
LEMMA InitInvariant == Init => IInv
<1> SUFFICES ASSUME Init PROVE IInv
  OBVIOUS
<1> USE StackAssumption DEF Init
<1>1. 0 \in Cpus
  BY DEF Cpus
<1>2. NoFrames \in Frames
  BY DEF NoFrames, Frames
<1>3. \A c \in Cpus : data[c] \in Sample
  BY <1>2 DEF Sample, Failed
<1>4. data \in [Cpus -> Sample]
  BY <1>3
<1>5. TypeOK
  BY <1>1, <1>4 DEF TypeOK
<1>6. SamplesAreOwn
  BY DEF SamplesAreOwn, IsOwn, Failed
<1>7. BatchInBuffer /\ DumpsFollowBuffer
  BY DEF BatchInBuffer, DumpsFollowBuffer, Read
<1> QED BY <1>5, <1>6, <1>7 DEF IInv

\* get_stacktrace captures the stacks.
LEMMA TakeSampleInvariant ==
  ASSUME IInv, NEW c \in Cpus, TakeSample(c)
  PROVE  IInv'
<1> USE StackAssumption
<1>1. TypeOK /\ SamplesAreOwn /\ BatchInBuffer /\ DumpsFollowBuffer
  BY DEF IInv
<1>2. PICK k \in Failed..MaxFrames, u \in Failed..MaxFrames :
        /\ k = Failed => KernelErrors
        /\ data' = [data EXCEPT ![c] =
                     [by |-> taken + 1, kernSize |-> k, userSize |-> u,
                      kern |-> StoreFrames(data[c].kern, k, taken + 1),
                      user |-> StoreFrames(data[c].user, u, taken + 1)]]
  BY DEF TakeSample
<1> DEFINE s == [by |-> taken + 1, kernSize |-> k, userSize |-> u,
                 kern |-> StoreFrames(data[c].kern, k, taken + 1),
                 user |-> StoreFrames(data[c].user, u, taken + 1)]
<1>3. taken + 1 \in 0..MaxSamples
  BY <1>1 DEF TypeOK, TakeSample
<1>4. data[c].kern \in Frames /\ data[c].user \in Frames
  BY <1>1 DEF TypeOK, Sample
<1>5. s \in Sample
  BY <1>3, <1>4, StoreFramesType DEF Sample
<1>6. IsOwn(s)
  BY <1>2, <1>3, <1>4, StoreFramesType DEF IsOwn
<1>7. data' = [data EXCEPT ![c] = s]
  BY <1>2
<1> HIDE DEF s
<1>8. TypeOK'
  BY <1>1, <1>3, <1>5, <1>7 DEF TypeOK, TakeSample, readVars
<1>9. SamplesAreOwn'
  BY <1>1, <1>6, <1>7 DEF SamplesAreOwn, TakeSample, TypeOK
<1>10. BatchInBuffer' /\ DumpsFollowBuffer'
  BY <1>1 DEF BatchInBuffer, DumpsFollowBuffer, Read, TakeSample, readVars
<1> QED BY <1>8, <1>9, <1>10 DEF IInv

\* It outputs them: the buffer grows at its end or not at all.
LEMMA OutputInvariant ==
  ASSUME IInv, NEW c \in Cpus, Output(c)
  PROVE  IInv'
<1> USE StackAssumption
<1>1. TypeOK /\ SamplesAreOwn /\ BatchInBuffer /\ DumpsFollowBuffer
  BY DEF IInv
<1>2. data[c] \in Sample /\ pushed \in [Cpus -> Seq(Sample)]
  BY <1>1 DEF TypeOK
<1>3. /\ pushed' \in [Cpus -> Seq(Sample)]
      /\ \A b \in Cpus : Len(pushed[b]) <= Len(pushed'[b])
      /\ \A b \in Cpus : \A n \in 1..Len(pushed[b]) : pushed'[b][n] = pushed[b][n]
      /\ \A b \in Cpus : \A n \in 1..Len(pushed'[b]) :
           n \in 1..Len(pushed[b]) \/ pushed'[b][n] = data[b]
  <2>1. CASE Accepts(c)
    <3>1. pushed' = [pushed EXCEPT ![c] = Append(pushed[c], data[c])]
      BY <2>1 DEF Output
    <3> QED BY <1>2, <3>1
  <2>2. CASE ~Accepts(c)
    <3>1. pushed' = pushed
      BY <2>2 DEF Output
    <3> QED BY <1>2, <3>1
  <2> QED BY <2>1, <2>2
<1>4. UNCHANGED <<thread, data, readVars>>
  BY DEF Output
<1>5. TypeOK'
  <2>1. \A b \in Cpus : tail'[b] <= Len(pushed'[b])
    BY <1>1, <1>2, <1>3, <1>4 DEF TypeOK, readVars
  <2> QED BY <1>1, <1>3, <2>1 DEF TypeOK, Output, readVars
<1>6. SamplesAreOwn'
  BY <1>1, <1>3, <1>4 DEF SamplesAreOwn
<1>7. BatchInBuffer'
  <2>1. ASSUME thread = "read" PROVE batch.end <= Len(pushed'[batch.cpu])
    <3>1. batch.cpu \in Cpus /\ batch.end \in Nat /\ batch.end <= Len(pushed[batch.cpu])
      BY <1>1, <2>1 DEF TypeOK, BatchInBuffer
    <3> QED BY <1>2, <1>3, <3>1
  <2> QED BY <1>1, <1>4, <2>1 DEF BatchInBuffer, readVars
<1>8. DumpsFollowBuffer'
  <2>1. \A b \in Cpus : Read(b)' = Read(b) /\ printed'[b] = printed[b]
    BY <1>4 DEF Read, readVars
  <2>2. \A b \in Cpus : Len(printed[b]) <= Len(pushed[b])
    BY <1>1 DEF DumpsFollowBuffer, Read, BatchInBuffer, TypeOK
  <2>3. ASSUME NEW b \in Cpus, NEW n \in 1..Len(printed[b])
        PROVE  pushed'[b][n] = pushed[b][n]
    <3>1. Len(printed[b]) \in Nat /\ Len(pushed[b]) \in Nat
      BY <1>1, <1>2 DEF TypeOK
    <3>2. n \in 1..Len(pushed[b])
      BY <2>2, <3>1
    <3> QED BY <1>3, <3>2
  <2> QED BY <1>1, <2>1, <2>3 DEF DumpsFollowBuffer
<1> QED BY <1>5, <1>6, <1>7, <1>8 DEF IInv

\* The thread sets itself up, or ends.
LEMMA SetUpInvariant ==
  ASSUME IInv, SetUp \/ PollFails
  PROVE  IInv'
<1> USE StackAssumption
<1>1. TypeOK /\ SamplesAreOwn /\ BatchInBuffer /\ DumpsFollowBuffer
  BY DEF IInv
<1>2. UNCHANGED <<kernelVars, readVars>> /\ thread # "read" /\ thread' # "read"
  BY DEF SetUp, SkipCpu, AttachCpu, AttachFails, CreateSymbolizer, OpenBuffers, PollFails
<1>3. TypeOK'
  <2>1. cpu \in 0..NumCpus /\ attached \in SUBSET Cpus /\ opened \in SUBSET Cpus
    BY <1>1 DEF TypeOK
  <2>2. thread' \in {"attach", "buffer", "poll", "read", "stopped"}
    BY <1>1 DEF TypeOK, SetUp, SkipCpu, AttachCpu, AttachFails, CreateSymbolizer,
                OpenBuffers, PollFails
  <2>3. cpu' \in 0..NumCpus
    BY <2>1 DEF SetUp, SkipCpu, AttachCpu, AttachFails, CreateSymbolizer,
                OpenBuffers, PollFails
  <2>4. attached' = attached \/ (attached' = attached \cup {cpu} /\ cpu \in Online)
    BY DEF SetUp, SkipCpu, AttachCpu, AttachFails, CreateSymbolizer, OpenBuffers,
           PollFails
  <2>5. opened' = opened \/ opened' = {c \in Online : c < PerfSlots}
    BY DEF SetUp, SkipCpu, AttachCpu, AttachFails, CreateSymbolizer, OpenBuffers,
           PollFails
  <2>6. attached' \in SUBSET Cpus /\ opened' \in SUBSET Cpus
    BY <2>1, <2>4, <2>5 DEF Cpus
  <2> QED BY <1>1, <1>2, <2>2, <2>3, <2>6 DEF TypeOK, kernelVars, readVars
<1>4. SamplesAreOwn' /\ BatchInBuffer' /\ DumpsFollowBuffer'
  BY <1>1, <1>2 DEF SamplesAreOwn, BatchInBuffer, DumpsFollowBuffer, Read,
                    kernelVars, readVars
<1> QED BY <1>3, <1>4 DEF IInv

\* The thread looks where a buffer ends.
LEMMA StartBatchInvariant ==
  ASSUME IInv, NEW c \in Cpus, StartBatch(c)
  PROVE  IInv'
<1>1. TypeOK /\ SamplesAreOwn /\ DumpsFollowBuffer
  BY DEF IInv
<1>2. tail[c] \in Nat /\ Len(pushed[c]) \in Nat
  BY <1>1 DEF TypeOK
<1>3. batch' = [cpu |-> c, next |-> tail[c] + 1, end |-> Len(pushed[c])]
  BY DEF StartBatch
<1>4. thread = "poll" /\ thread' = "read" /\ tail[c] < Len(pushed[c])
  BY DEF StartBatch
<1>5. UNCHANGED <<cpu, attached, opened, kernelVars, tail, printed>>
  BY DEF StartBatch
<1>6. TypeOK'
  BY <1>1, <1>2, <1>3, <1>4, <1>5 DEF TypeOK, kernelVars
<1>7. SamplesAreOwn'
  BY <1>1, <1>5 DEF SamplesAreOwn, kernelVars
<1>8. BatchInBuffer'
  BY <1>2, <1>3, <1>4, <1>5 DEF BatchInBuffer, kernelVars
<1>9. DumpsFollowBuffer'
  <2>1. \A b \in Cpus : Read(b)' = Read(b)
    BY <1>2, <1>3, <1>4, <1>5 DEF Read
  <2> QED BY <1>1, <1>5, <2>1 DEF DumpsFollowBuffer, kernelVars
<1> QED BY <1>6, <1>7, <1>8, <1>9 DEF IInv

\* stack_event_handler shows the next sample of the batch.
LEMMA HandleSampleInvariant ==
  ASSUME IInv, HandleSample
  PROVE  IInv'
<1>0. PICK c \in Cpus : c = batch.cpu
  BY DEF IInv, TypeOK
<1> DEFINE s == pushed[c][batch.next]
           dump == [pos |-> batch.next, sample |-> s,
                    kernShown |-> KernShown(s), userShown |-> UserShown(s)]
<1>1. TypeOK /\ SamplesAreOwn /\ BatchInBuffer /\ DumpsFollowBuffer
  BY DEF IInv
<1>2. thread = "read" /\ thread' = "read" /\ batch.next <= batch.end
  BY DEF HandleSample
<1>3. /\ c \in Cpus
      /\ batch.next \in 1..Len(pushed[c])
      /\ tail[c] < batch.next
      /\ tail \in [Cpus -> Nat]
      /\ batch.end \in Nat /\ batch.end <= Len(pushed[c])
  BY <1>0, <1>1, <1>2 DEF TypeOK, BatchInBuffer
<1>4. s \in Sample
  BY <1>1, <1>3 DEF TypeOK
<1>5. dump \in Dump
  BY <1>3, <1>4, DumpType
<1>6. IsDumpOf(dump, s) /\ dump.pos = batch.next
  BY DEF IsDumpOf
<1>7. printed' = [printed EXCEPT ![c] = Append(printed[c], dump)]
  BY <1>0 DEF HandleSample
<1>8. batch' = [batch EXCEPT !.next = batch.next + 1]
  BY DEF HandleSample
<1>9. UNCHANGED <<cpu, attached, opened, kernelVars, tail>>
  BY DEF HandleSample
<1>10. printed[c] \in Seq(Dump) /\ printed \in [Cpus -> Seq(Dump)]
  BY <1>1, <1>3 DEF TypeOK
<1>11. Len(printed[c]) = batch.next - 1
  BY <1>0, <1>1, <1>2, <1>3 DEF DumpsFollowBuffer, Read
<1> HIDE DEF dump
<1>12. batch' \in [cpu : Cpus, next : Nat, end : Nat]
  <2>1. batch \in [cpu : Cpus, next : Nat, end : Nat] /\ batch.next + 1 \in Nat
    BY <1>1, <1>3 DEF TypeOK
  <2> QED BY <1>8, <2>1
<1>13. TypeOK'
  <2>1. printed' \in [Cpus -> Seq(Dump)]
    <3>1. Append(printed[c], dump) \in Seq(Dump)
      BY <1>5, <1>10
    <3> QED BY <1>3, <1>7, <1>10, <3>1
  <2> QED BY <1>1, <1>2, <1>9, <1>12, <2>1 DEF TypeOK, kernelVars
<1>14. SamplesAreOwn'
  BY <1>1, <1>9 DEF SamplesAreOwn, kernelVars
<1>15. batch'.cpu = c /\ batch'.next = batch.next + 1 /\ batch'.end = batch.end
  BY <1>0, <1>1, <1>8 DEF TypeOK
<1>16. BatchInBuffer'
  BY <1>0, <1>2, <1>3, <1>9, <1>15 DEF BatchInBuffer, kernelVars
<1>17. DumpsFollowBuffer'
  <2>1. ASSUME NEW b \in Cpus, b # c
        PROVE  printed'[b] = printed[b] /\ Read(b)' = Read(b)
    BY <1>0, <1>2, <1>7, <1>9, <1>10, <1>15, <2>1 DEF Read
  <2>2. /\ Read(c)' = batch.next
        /\ printed'[c] = Append(printed[c], dump)
    BY <1>2, <1>3, <1>7, <1>10, <1>15 DEF Read
  <2>3. /\ Len(printed'[c]) = batch.next
        /\ printed'[c][batch.next] = dump
        /\ \A n \in 1..Len(printed[c]) : printed'[c][n] = printed[c][n]
    BY <1>3, <1>5, <1>10, <1>11, <2>2
  <2>4. \A n \in 1..Len(printed'[c]) :
          printed'[c][n].pos = n /\ IsDumpOf(printed'[c][n], pushed[c][n])
    <3>1. ASSUME NEW n \in 1..Len(printed'[c])
          PROVE  n \in 1..Len(printed[c]) \/ n = batch.next
      BY <1>3, <1>11, <2>3
    <3> QED BY <1>1, <1>3, <1>6, <2>3, <3>1 DEF DumpsFollowBuffer
  <2>5. pushed' = pushed
    BY <1>9 DEF kernelVars
  <2>6. ASSUME NEW b \in Cpus
        PROVE  /\ Len(printed'[b]) = Read(b)'
               /\ \A n \in 1..Len(printed'[b]) :
                    printed'[b][n].pos = n /\ IsDumpOf(printed'[b][n], pushed'[b][n])
    <3>1. CASE b = c
      BY <2>2, <2>3, <2>4, <2>5, <3>1
    <3>2. CASE b # c
      BY <1>1, <2>1, <2>5, <3>2 DEF DumpsFollowBuffer
    <3> QED BY <3>1, <3>2
  <2> QED BY <2>6 DEF DumpsFollowBuffer, IsDumpOf
<1> QED BY <1>13, <1>14, <1>16, <1>17 DEF IInv

\* The batch is given back.
LEMMA EndBatchInvariant ==
  ASSUME IInv, EndBatch
  PROVE  IInv'
<1> DEFINE c == batch.cpu
<1>1. TypeOK /\ SamplesAreOwn /\ BatchInBuffer /\ DumpsFollowBuffer
  BY DEF IInv
<1>2. /\ thread = "read" /\ thread' = "poll"
      /\ tail' = [tail EXCEPT ![c] = batch.end]
      /\ UNCHANGED <<cpu, attached, opened, kernelVars, batch, printed>>
  BY DEF EndBatch
<1>3. /\ c \in Cpus /\ batch.end \in Nat /\ batch.next \in Nat
      /\ batch.next = batch.end + 1
      /\ batch.end <= Len(pushed[c])
  BY <1>1, <1>2 DEF TypeOK, BatchInBuffer, EndBatch
<1>4. tail' \in [Cpus -> Nat] /\ \A b \in Cpus : tail'[b] <= Len(pushed[b])
  BY <1>1, <1>2, <1>3 DEF TypeOK
<1>5. TypeOK'
  BY <1>1, <1>2, <1>4 DEF TypeOK, kernelVars
<1>6. SamplesAreOwn'
  BY <1>1, <1>2 DEF SamplesAreOwn, kernelVars
<1>7. BatchInBuffer'
  BY <1>2 DEF BatchInBuffer
<1>8. DumpsFollowBuffer'
  <2>1. \A b \in Cpus : Read(b)' = Read(b)
    BY <1>1, <1>2, <1>3 DEF Read, TypeOK
  <2> QED BY <1>1, <1>2, <2>1 DEF DumpsFollowBuffer, kernelVars
<1> QED BY <1>5, <1>6, <1>7, <1>8 DEF IInv

LEMMA StutterInvariant ==
  ASSUME IInv, UNCHANGED vars
  PROVE  IInv'
<1>1. TypeOK'
  BY DEF IInv, TypeOK, vars
<1>2. SamplesAreOwn' /\ BatchInBuffer' /\ DumpsFollowBuffer'
  BY DEF IInv, SamplesAreOwn, BatchInBuffer, DumpsFollowBuffer, Read, vars
<1> QED BY <1>1, <1>2 DEF IInv

\* The invariant holds in every state of every behaviour.
THEOREM StackInvariance == Spec => []IInv
<1>1. ASSUME IInv, [Next]_vars PROVE IInv'
  <2>1. CASE \E c \in Cpus : TakeSample(c) \/ Output(c)
    BY <1>1, <2>1, TakeSampleInvariant, OutputInvariant
  <2>2. CASE SetUp \/ PollFails
    BY <1>1, <2>2, SetUpInvariant
  <2>3. CASE Poll
    BY <1>1, <2>3, StartBatchInvariant, HandleSampleInvariant, EndBatchInvariant DEF Poll
  <2>4. CASE UNCHANGED vars
    BY <1>1, <2>4, StutterInvariant
  <2> QED BY <1>1, <2>1, <2>2, <2>3, <2>4 DEF Next
<1> QED BY InitInvariant, <1>1, PTL DEF Spec

\* Every variable of the backtrace pipeline keeps its type.
THEOREM StackTypeCorrect == Spec => []TypeOK
<1>1. IInv => TypeOK
  BY DEF IInv
<1> QED BY StackInvariance, <1>1, PTL

\* What perf_buffer__poll takes from a buffer is shown, each sample once.
THEOREM NoneSkipped == Spec => []DumpsFollowBuffer
<1>1. IInv => DumpsFollowBuffer
  BY DEF IInv
<1> QED BY StackInvariance, <1>1, PTL

\* Where kernel stacks do not fail, a dump shows no frame left over from an
\* older sample of the CPU's entry in stackdata_map.
THEOREM OwnFrames ==
  ASSUME ~KernelErrors
  PROVE  Spec => []ShowsOwnFrames
<1>1. IInv => ShowsOwnFrames
  <2> SUFFICES ASSUME IInv, NEW c \in Cpus, NEW d \in 1..Len(printed[c])
               PROVE  /\ \A n \in 1..Min2(printed[c][d].kernShown, MaxFrames) :
                           printed[c][d].sample.kern[n] = printed[c][d].sample.by
                      /\ \A n \in 1..Min2(printed[c][d].userShown, MaxFrames) :
                           printed[c][d].sample.user[n] = printed[c][d].sample.by
    BY DEF ShowsOwnFrames
  <2> DEFINE s == pushed[c][d]
  <2>1. d \in 1..Len(pushed[c])
    BY DEF IInv, TypeOK, BatchInBuffer, DumpsFollowBuffer, Read
  <2>2. IsDumpOf(printed[c][d], s)
    BY DEF IInv, DumpsFollowBuffer
  <2>3. s \in Sample /\ IsOwn(s)
    BY <2>1 DEF IInv, TypeOK, SamplesAreOwn
  <2>4. /\ s.kernSize \in Failed..MaxFrames /\ s.userSize \in Failed..MaxFrames
        /\ s.kernSize # Failed
    BY <2>3 DEF Sample, IsOwn
  <2>5. \A n \in 1..Min2(KernShown(s), MaxFrames) : s.kern[n] = s.by
    BY <2>3, <2>4, StackAssumption DEF Min2, KernShown, IsOwn, Failed
  <2>6. \A n \in 1..Min2(UserShown(s), MaxFrames) : s.user[n] = s.by
    BY <2>3, <2>4, StackAssumption DEF Min2, UserShown, IsOwn, Failed
  <2> QED BY <2>2, <2>5, <2>6 DEF IsDumpOf
<1> QED BY StackInvariance, <1>1, PTL

-----------------------------------------------------------------------------
(***************************************************************************)
(* The buffer of CPU 0 is a channel.                                       *)
(***************************************************************************)

\* A step of get_stacktrace accepts a ticket or does nothing to the channel.
LEMMA ProgramStep ==
  ASSUME IInv, NEW c \in Cpus, TakeSample(c) \/ Output(c)
  PROVE  [Channel!Next]_Channel!vars
<1>0. 0 \in Cpus
  BY StackAssumption DEF Cpus
<1>1. /\ thread' = thread /\ printed' = printed
      /\ Read(0)' = Read(0) /\ Read(0) \in Nat
      /\ Len(pushed[0]) \in Nat /\ Read(0) <= Len(pushed[0])
  <2>1. UNCHANGED <<thread, printed, tail, batch>>
    BY DEF TakeSample, Output, readVars
  <2>2. Read(0)' = Read(0)
    BY <2>1 DEF Read
  <2>3. /\ Len(pushed[0]) \in Nat /\ tail[0] \in Nat /\ tail[0] <= Len(pushed[0])
        /\ batch.next \in Nat /\ batch.end \in Nat
        /\ thread = "read" /\ batch.cpu = 0 =>
             /\ tail[0] < batch.next /\ batch.next <= batch.end + 1
             /\ batch.end <= Len(pushed[0])
    BY <1>0 DEF IInv, TypeOK, BatchInBuffer
  <2>4. Read(0) \in Nat /\ Read(0) <= Len(pushed[0])
    BY <2>3 DEF Read
  <2> QED BY <2>1, <2>2, <2>3, <2>4
<1>2. pushed'[0] = pushed[0] \/ pushed'[0] = Append(pushed[0], data[0])
  <2>1. pushed \in [Cpus -> Seq(Sample)]
    BY DEF IInv, TypeOK
  <2>2. pushed' = pushed \/ pushed' = [pushed EXCEPT ![c] = Append(pushed[c], data[c])]
    BY DEF TakeSample, Output
  <2> QED BY <1>0, <2>1, <2>2
<1>3. CASE pushed'[0] = pushed[0]
  BY <1>1, <1>3 DEF Channel!vars
<1>4. CASE pushed'[0] = Append(pushed[0], data[0])
  <2>1. Len(pushed'[0]) = Len(pushed[0]) + 1
    BY <1>0, <1>4 DEF IInv, TypeOK
  <2>2. Channel!Accept
    BY <1>1, <2>1 DEF Channel!Accept
  <2> QED BY <2>2 DEF Channel!Next
<1> QED BY <1>2, <1>3, <1>4

\* A step of the thread delivers the oldest ticket, closes, or does nothing.
LEMMA ThreadStep ==
  ASSUME IInv, SetUp \/ Poll \/ PollFails
  PROVE  [Channel!Next]_Channel!vars
<1>0. 0 \in Cpus
  BY StackAssumption DEF Cpus
<1>1. /\ pushed' = pushed
      /\ Len(pushed[0]) \in Nat
      /\ printed \in [Cpus -> Seq(Dump)]
  BY <1>0 DEF IInv, TypeOK, SetUp, SkipCpu, AttachCpu, AttachFails, CreateSymbolizer,
              OpenBuffers, Poll, StartBatch, HandleSample, EndBatch, PollFails, kernelVars
<1>2. CASE SetUp \/ PollFails
  <2>1. /\ printed' = printed /\ Read(0)' = Read(0)
        /\ thread # "stopped"
    BY <1>2 DEF SetUp, SkipCpu, AttachCpu, AttachFails, CreateSymbolizer, OpenBuffers,
                PollFails, readVars, Read
  <2>2. CASE thread' = "stopped"
    <3>1. Channel!Close
      BY <1>1, <2>1, <2>2 DEF Channel!Close
    <3> QED BY <3>1 DEF Channel!Next
  <2>3. CASE thread' # "stopped"
    BY <1>1, <2>1, <2>3 DEF Channel!vars
  <2> QED BY <2>2, <2>3
<1>3. CASE (\E c \in Cpus : StartBatch(c)) \/ EndBatch
  <2>1. printed' = printed /\ thread # "stopped" /\ thread' # "stopped"
    BY <1>3 DEF StartBatch, EndBatch
  <2>2. Read(0)' = Read(0)
    <3>1. tail[0] \in Nat /\ batch.next \in Nat /\ batch.end \in Nat
      BY <1>0 DEF IInv, TypeOK
    <3>2. ASSUME NEW c \in Cpus, StartBatch(c) PROVE Read(0)' = Read(0)
      <4>1. tail[c] \in Nat
        BY DEF IInv, TypeOK
      <4> QED BY <3>1, <3>2, <4>1 DEF StartBatch, Read
    <3>3. CASE EndBatch
      <4>1. /\ tail \in [Cpus -> Nat]
            /\ batch.next <= batch.end + 1 /\ batch.end < batch.next
        BY <3>1, <3>3 DEF IInv, TypeOK, BatchInBuffer, EndBatch
      <4> QED BY <1>0, <3>1, <3>3, <4>1 DEF EndBatch, Read
    <3> QED BY <1>3, <3>2, <3>3
  <2> QED BY <1>1, <2>1, <2>2 DEF Channel!vars
<1>4. CASE HandleSample
  <2>1. /\ batch.cpu \in Cpus /\ batch.next \in Nat /\ tail[0] \in Nat
        /\ thread = "read" /\ thread' = "read" /\ tail' = tail
        /\ batch.next \in 1..Len(pushed[batch.cpu])
    BY <1>0, <1>4 DEF IInv, TypeOK, BatchInBuffer, HandleSample
  <2>2. batch' = [batch EXCEPT !.next = batch.next + 1]
    BY <1>4 DEF HandleSample
  <2>3. batch'.cpu = batch.cpu /\ batch'.next = batch.next + 1
    BY <2>2 DEF IInv, TypeOK
  <2>4. CASE batch.cpu # 0
    <3>1. printed'[0] = printed[0] /\ Read(0)' = Read(0)
      BY <1>0, <1>1, <1>4, <2>1, <2>3, <2>4 DEF HandleSample, Read
    <3> QED BY <1>1, <2>1, <3>1 DEF Channel!vars
  <2>5. CASE batch.cpu = 0
    <3>1. /\ Read(0) = batch.next - 1 /\ Read(0)' = batch.next
      BY <2>1, <2>3, <2>5 DEF Read
    <3> DEFINE s == pushed[0][batch.next]
               dump == [pos |-> batch.next, sample |-> s,
                        kernShown |-> KernShown(s), userShown |-> UserShown(s)]
               before == [n \in 1..Len(printed[0]) |-> printed[0][n].pos]
               after == [n \in 1..Len(printed'[0]) |-> printed'[0][n].pos]
    <3>2. printed'[0] = Append(printed[0], dump)
      BY <1>0, <1>1, <1>4, <2>5 DEF HandleSample
    <3>3. dump.pos = batch.next
      OBVIOUS
    <3>4. dump \in Dump
      BY <1>0, <2>1, <2>5, DumpType DEF IInv, TypeOK
    <3> HIDE DEF dump
    <3>5. /\ Len(printed'[0]) = Len(printed[0]) + 1
          /\ printed'[0][Len(printed[0]) + 1] = dump
          /\ \A n \in 1..Len(printed[0]) : printed'[0][n] = printed[0][n]
      BY <1>0, <1>1, <3>2, <3>4
    <3>6. before \in Seq(Nat)
      <4>1. printed[0] \in Seq(Dump)
        BY <1>0, <1>1
      <4>2. ASSUME NEW n \in 1..Len(printed[0]) PROVE printed[0][n].pos \in Nat
        <5>1. printed[0][n] \in Dump
          BY <4>1
        <5> QED BY <5>1 DEF Dump
      <4> QED BY <4>1, <4>2
    <3>7. after = Append(before, batch.next)
      BY <1>0, <1>1, <3>3, <3>5, <3>6
    <3> PICK k \in Nat : k = batch.next
      BY <2>1
    <3>8. Channel!Deliver(k)
      <4>1. (Read(0)' + 1)..Len(pushed'[0])
              = ((Read(0) + 1)..Len(pushed[0])) \ {k}
        BY <1>1, <2>1, <3>1
      <4>2. /\ k \in (Read(0) + 1)..Len(pushed[0])
            /\ \A j \in (Read(0) + 1)..Len(pushed[0]) : k <= j
        BY <1>1, <2>1, <2>5, <3>1
      <4> QED BY <1>1, <2>1, <3>7, <4>1, <4>2 DEF Channel!Deliver
    <3>9. k \in (Read(0) + 1)..Len(pushed[0])
      BY <1>1, <2>1, <2>5, <3>1
    <3> QED BY <3>8, <3>9 DEF Channel!Next
  <2> QED BY <2>4, <2>5
<1> QED BY <1>2, <1>3, <1>4 DEF Poll

\* The perf buffer pipeline implements EventChannel.
THEOREM StackRefinement == Spec => StackChannel
<1>1. Init => Channel!Init
  <2> SUFFICES ASSUME Init PROVE Channel!Init
    OBVIOUS
  <2>1. 0 \in Cpus
    BY StackAssumption DEF Cpus
  <2>2. pushed[0] = << >> /\ printed[0] = << >> /\ Read(0) = 0 /\ thread # "stopped"
    BY <2>1 DEF Init, Read
  <2> QED BY <2>2 DEF Channel!Init
<1>2. ASSUME IInv, [Next]_vars PROVE [Channel!Next]_Channel!vars
  <2>1. CASE \E c \in Cpus : TakeSample(c) \/ Output(c)
    BY <1>2, <2>1, ProgramStep
  <2>2. CASE SetUp \/ Poll \/ PollFails
    BY <1>2, <2>2, ThreadStep
  <2>3. CASE UNCHANGED vars
    BY <2>3 DEF vars, Channel!vars, Read
  <2> QED BY <1>2, <2>1, <2>2, <2>3 DEF Next
<1> QED BY <1>1, <1>2, StackInvariance, PTL DEF Spec, StackChannel, Channel!Spec

-----------------------------------------------------------------------------
(***************************************************************************)
(* Every sample in the buffer is shown.  The provers take ENABLED as it    *)
(* stands, so fairness is stated by the guard it is about: RunsOn.         *)
(***************************************************************************)

\* Only the buffer of CPU 0 ever fills, up to its size.
LEMMA FirstCpu == Spec => []FirstCpuOnly
<1>1. Init => FirstCpuOnly
  BY DEF Init, FirstCpuOnly
<1>2. ASSUME IInv, FirstCpuOnly, [Next]_vars
      PROVE  FirstCpuOnly'
  <2>1. CASE \E c \in Cpus : TakeSample(c)
    BY <1>2, <2>1 DEF FirstCpuOnly, TakeSample
  <2>2. ASSUME NEW c \in Cpus, Output(c)
        PROVE  FirstCpuOnly'
    <3>1. UNCHANGED <<thread, opened>> /\ pushed \in [Cpus -> Seq(Sample)]
      BY <1>2, <2>2 DEF IInv, TypeOK, Output
    <3>2. ASSUME NEW b \in Cpus, pushed'[b] # pushed[b]
          PROVE  b = 0 /\ b \in opened
      BY <2>2, <3>1, <3>2 DEF Output, Accepts, OutputSlot
    <3> QED BY <1>2, <3>1, <3>2 DEF FirstCpuOnly
  <2>3. CASE OpenBuffers
    BY <1>2, <2>3 DEF FirstCpuOnly, OpenBuffers, kernelVars
  <2>4. CASE SkipCpu \/ AttachCpu \/ AttachFails \/ CreateSymbolizer
    BY <1>2, <2>4 DEF FirstCpuOnly, SkipCpu, AttachCpu, AttachFails, CreateSymbolizer,
                      kernelVars
  <2>5. CASE Poll \/ PollFails \/ UNCHANGED vars
    BY <1>2, <2>5 DEF FirstCpuOnly, Poll, StartBatch, HandleSample, EndBatch, PollFails,
                      kernelVars, vars
  <2> QED BY <1>2, <2>1, <2>2, <2>3, <2>4, <2>5 DEF Next, SetUp
<1> QED BY <1>1, <1>2, StackInvariance, PTL DEF Spec

LEMMA Bounded == Spec => []BufferBounded
<1>1. Init => BufferBounded
  BY StackAssumption DEF Init, BufferBounded
<1>2. ASSUME IInv, BufferBounded, [Next]_vars
      PROVE  BufferBounded'
  <2>0. /\ pushed \in [Cpus -> Seq(Sample)]
        /\ tail \in [Cpus -> Nat]
        /\ data \in [Cpus -> Sample]
    BY <1>2 DEF IInv, TypeOK
  <2>1. CASE UNCHANGED <<pushed, tail>>
    BY <1>2, <2>1 DEF BufferBounded
  <2>2. ASSUME NEW c \in Cpus, Output(c), pushed' # pushed
        PROVE  BufferBounded'
    <3>1. Len(pushed[c]) - tail[c] < RingSamples /\ tail' = tail
      BY <2>2 DEF Output, Accepts, readVars
    <3>2. pushed' = [pushed EXCEPT ![c] = Append(pushed[c], data[c])]
      BY <2>2 DEF Output
    <3>3. ASSUME NEW b \in Cpus PROVE Len(pushed'[b]) - tail'[b] <= RingSamples
      <4>1. CASE b # c
        BY <1>2, <2>0, <3>1, <3>2, <4>1 DEF BufferBounded
      <4>2. CASE b = c
        <5>1. Len(pushed'[c]) = Len(pushed[c]) + 1
          BY <2>0, <3>2
        <5> QED BY <2>0, <3>1, <4>2, <5>1, StackAssumption
      <4> QED BY <4>1, <4>2
    <3> QED BY <3>3 DEF BufferBounded
  <2>3. CASE EndBatch
    <3>1. /\ tail' = [tail EXCEPT ![batch.cpu] = batch.end] /\ pushed' = pushed
          /\ batch.cpu \in Cpus /\ batch.end \in Nat
          /\ tail[batch.cpu] <= batch.end
      BY <1>2, <2>3 DEF EndBatch, IInv, TypeOK, BatchInBuffer, kernelVars
    <3> QED BY <1>2, <2>0, <3>1, StackAssumption DEF BufferBounded
  <2>4. \/ UNCHANGED <<pushed, tail>> \/ EndBatch
        \/ \E c \in Cpus : Output(c) /\ pushed' # pushed
    <3>1. CASE \E c \in Cpus : TakeSample(c)
      BY <3>1 DEF TakeSample, readVars
    <3>2. CASE \E c \in Cpus : Output(c)
      BY <3>2 DEF Output, readVars
    <3>3. CASE SetUp \/ Poll \/ PollFails \/ UNCHANGED vars
      BY <3>3 DEF SetUp, SkipCpu, AttachCpu, AttachFails, CreateSymbolizer, OpenBuffers,
                  Poll, StartBatch, HandleSample, PollFails, kernelVars, readVars, vars
    <3> QED BY <1>2, <3>1, <3>2, <3>3 DEF Next
  <2> QED BY <2>1, <2>2, <2>3, <2>4
<1> QED BY <1>1, <1>2, StackInvariance, PTL DEF Spec

\* Sample j of CPU 0 is in the buffer, and the next to be dealt with or dealt with
\* already; it has been dealt with, or the thread is gone.
Due(j)     == j <= Len(pushed[0]) /\ j <= Read(0) + 1
Settled(j) == j <= Read(0) \/ thread = "stopped"

\* Where a thread is that has not got to a sample which is due.
Reading   == thread = "read" /\ batch.next <= batch.end
Finishing == thread = "read" /\ batch.next > batch.end
Looking   == thread = "poll"

\* What a step does to the buffer and the position of the thread in it.
LEMMA ReadMoves ==
  ASSUME IInv, [Next]_vars
  PROVE  /\ Read(0) \in Nat /\ Read(0)' \in Nat /\ Read(0) <= Read(0)'
         /\ Len(pushed[0]) \in Nat /\ Len(pushed'[0]) \in Nat
         /\ Len(pushed[0]) <= Len(pushed'[0])
         /\ thread = "stopped" => thread' = "stopped"
<1>0. 0 \in Cpus
  BY StackAssumption DEF Cpus
<1>1. /\ pushed \in [Cpus -> Seq(Sample)] /\ data \in [Cpus -> Sample]
      /\ tail \in [Cpus -> Nat]
      /\ batch \in [cpu : Cpus, next : Nat, end : Nat]
      /\ thread = "read" => tail[batch.cpu] < batch.next
  BY DEF IInv, TypeOK, BatchInBuffer
<1>2. Len(pushed[0]) \in Nat /\ Read(0) \in Nat
  BY <1>0, <1>1 DEF Read
<1>3. Len(pushed'[0]) \in Nat /\ Len(pushed[0]) <= Len(pushed'[0])
  <2>1. pushed' = pushed \/ \E c \in Cpus : pushed' = [pushed EXCEPT ![c] = Append(@, data[c])]
    BY DEF Next, TakeSample, Output, SetUp, SkipCpu, AttachCpu, AttachFails,
           CreateSymbolizer, OpenBuffers, Poll, StartBatch, HandleSample, EndBatch,
           PollFails, kernelVars, vars
  <2>2. ASSUME NEW c \in Cpus, pushed' = [pushed EXCEPT ![c] = Append(@, data[c])]
        PROVE  pushed'[0] = pushed[0] \/ pushed'[0] = Append(pushed[0], data[0])
    BY <1>0, <1>1, <2>2
  <2>3. pushed[0] \in Seq(Sample) /\ data[0] \in Sample
    BY <1>0, <1>1
  <2>4. Len(Append(pushed[0], data[0])) = Len(pushed[0]) + 1
    BY <2>3
  <2> QED BY <1>2, <2>1, <2>2, <2>4
<1>4. Read(0)' \in Nat /\ Read(0) <= Read(0)'
  <2>1. ASSUME tail' = tail, batch' = batch,
               thread' = thread \/ (thread # "read" /\ thread' # "read")
        PROVE  Read(0)' \in Nat /\ Read(0) <= Read(0)'
    <3>1. Read(0)' = Read(0)
      BY <2>1 DEF Read
    <3> QED BY <1>2, <3>1
  <2>2. CASE \E c \in Cpus : TakeSample(c) \/ Output(c)
    <3>1. UNCHANGED <<thread, tail, batch>>
      BY <2>2 DEF TakeSample, Output, readVars
    <3> QED BY <2>1, <3>1
  <2>3. CASE SetUp \/ PollFails
    BY <2>1, <2>3 DEF SetUp, SkipCpu, AttachCpu, AttachFails, CreateSymbolizer,
                            OpenBuffers, PollFails, readVars
  <2>4. CASE UNCHANGED vars
    BY <2>1, <2>4 DEF vars
  <2>5. CASE \E c \in Cpus : StartBatch(c)
    <3>1. PICK c \in Cpus : StartBatch(c)
      BY <2>5
    <3>2. tail[c] \in Nat
      BY <1>1
    <3> QED BY <1>2, <3>1, <3>2 DEF StartBatch, Read
  <2>6. CASE HandleSample
    <3>1. batch'.cpu = batch.cpu /\ batch'.next = batch.next + 1
      BY <1>1, <2>6 DEF HandleSample
    <3> QED BY <1>1, <1>2, <2>6, <3>1 DEF HandleSample, Read
  <2>7. CASE EndBatch
    <3>1. batch.next <= batch.end + 1 /\ batch.next > batch.end
      BY <2>7 DEF EndBatch, IInv, BatchInBuffer
    <3> QED BY <1>0, <1>1, <1>2, <2>7, <3>1 DEF EndBatch, Read
  <2> QED BY <2>2, <2>3, <2>4, <2>5, <2>6, <2>7 DEF Next, Poll
<1>5. thread = "stopped" => thread' = "stopped"
  BY DEF Next, TakeSample, Output, SetUp, SkipCpu, AttachCpu, AttachFails,
         CreateSymbolizer, OpenBuffers, Poll, StartBatch, HandleSample, EndBatch,
         PollFails, vars
<1> QED BY <1>2, <1>3, <1>4, <1>5

\* A sample that is due stays so, and one that is settled too.
LEMMA DueStays ==
  ASSUME IInv, [Next]_vars, NEW j \in Nat \ {0}
  PROVE  /\ Due(j) => Due(j)'
         /\ Settled(j) => Settled(j)'
BY ReadMoves DEF Due, Settled

\* A thread that has a sample due finishes the batch it has read, begins another and
\* shows the sample.
LEMMA ThreadMoves ==
  ASSUME IInv, FirstCpuOnly, [Next]_vars, NEW j \in Nat \ {0}, Due(j), ~Settled(j)
  PROVE  /\ Reading \/ Finishing \/ Looking
         /\ Reading => Reading' \/ Settled(j)'
         /\ Finishing => Finishing' \/ Looking'
         /\ Looking => Looking' \/ Reading' \/ Settled(j)'
         /\ Reading /\ Poll => Settled(j)'
         /\ Finishing /\ Poll => Looking'
         /\ Looking /\ Poll => Reading'
         /\ ThreadMayMove
<1>0. 0 \in Cpus
  BY StackAssumption DEF Cpus
<1>1. /\ pushed \in [Cpus -> Seq(Sample)] /\ tail \in [Cpus -> Nat]
      /\ batch \in [cpu : Cpus, next : Nat, end : Nat]
      /\ thread \in {"attach", "buffer", "poll", "read", "stopped"}
      /\ opened \subseteq Cpus
  BY DEF IInv, TypeOK
<1>2. j = Read(0) + 1 /\ j \in 1..Len(pushed[0]) /\ thread # "stopped"
  BY ReadMoves DEF Due, Settled
<1>3. 0 \in opened /\ thread \in {"poll", "read"}
  <2>1. pushed[0] # << >>
    BY <1>2
  <2> QED BY <1>0, <1>1, <1>2, <2>1 DEF FirstCpuOnly
<1>4. ASSUME NEW c \in Cpus, tail[c] < Len(pushed[c]) PROVE c = 0
  <2>1. pushed[c] # << >>
    BY <1>1, <1>4
  <2> QED BY <2>1 DEF FirstCpuOnly
<1>5. Reading \/ Finishing \/ Looking
  BY <1>1, <1>3 DEF Reading, Finishing, Looking
<1>6. Looking => tail[0] < Len(pushed[0])
  BY <1>0, <1>1, <1>2 DEF Looking, Read
<1>7. ThreadMayMove
  BY <1>3, <1>5, <1>6 DEF ThreadMayMove, Looking
<1>8. Reading => batch.cpu = 0
  <2>1. Reading => tail[batch.cpu] < Len(pushed[batch.cpu])
    BY <1>1 DEF Reading, IInv, BatchInBuffer
  <2> QED BY <1>1, <1>4, <2>1
<1>9. CASE Poll
  <2>1. ASSUME Reading PROVE Settled(j)'
    <3>1. HandleSample
      BY <1>1, <1>9, <2>1 DEF Poll, Reading, StartBatch, EndBatch
    <3>2. batch'.cpu = batch.cpu /\ batch'.next = batch.next + 1 /\ thread' = "read"
      BY <1>1, <2>1, <3>1 DEF HandleSample, Reading
    <3> QED BY <1>1, <1>2, <1>8, <2>1, <3>2 DEF Read, Settled, Reading
  <2>2. ASSUME Finishing PROVE Looking'
    BY <1>1, <1>9, <2>2 DEF Poll, Finishing, Looking, StartBatch, HandleSample, EndBatch
  <2>3. ASSUME Looking PROVE Reading'
    <3>1. PICK c \in Cpus : StartBatch(c)
      BY <1>9, <2>3 DEF Poll, Looking, HandleSample, EndBatch
    <3>2. tail[c] \in Nat /\ Len(pushed[c]) \in Nat
      BY <1>1
    <3> QED BY <3>1, <3>2 DEF StartBatch, Reading
  <2>4. /\ ~(Reading /\ (Finishing \/ Looking)) /\ ~(Finishing /\ Looking)
    BY <1>1 DEF Reading, Finishing, Looking
  <2> QED BY <1>5, <1>7, <2>1, <2>2, <2>3, <2>4
<1>10. CASE ~Poll
  <2>1. CASE PollFails
    BY <1>5, <1>7, <1>10, <2>1 DEF PollFails, Settled, Reading, Finishing, Looking
  <2>2. CASE ~PollFails
    <3>1. UNCHANGED <<thread, batch>>
      BY <1>3, <1>10, <2>2 DEF Next, TakeSample, Output, SetUp, SkipCpu, AttachCpu, AttachFails,
             CreateSymbolizer, OpenBuffers, readVars, vars
    <3> QED BY <1>5, <1>7, <1>10, <3>1 DEF Reading, Finishing, Looking
  <2> QED BY <2>1, <2>2
<1> QED BY <1>9, <1>10

\* A sample that is due gets shown.
GetsSettled(j) == Due(j) ~> Settled(j)

\* No sample is left in the buffer by a thread that has got to it: those that arrive
\* while it reads a batch are found when it looks again.
LEMMA DueGetsShown ==
  ASSUME NEW j \in Nat \ {0}
  PROVE  Spec /\ RunsOn => GetsSettled(j)
<1> DEFINE Inv == IInv /\ FirstCpuOnly
<1>1. Inv /\ [Next]_vars => (Due(j) => Due(j)') /\ (Settled(j) => Settled(j)')
  BY DueStays
<1>2. Inv /\ [Next]_vars /\ Due(j) /\ ~Settled(j) =>
        /\ Reading \/ Finishing \/ Looking
        /\ Reading => Reading' \/ Settled(j)'
        /\ Finishing => Finishing' \/ Looking'
        /\ Looking => Looking' \/ Reading' \/ Settled(j)'
        /\ Reading /\ <<Poll>>_vars => Settled(j)'
        /\ Finishing /\ <<Poll>>_vars => Looking'
        /\ Looking /\ <<Poll>>_vars => Reading'
        /\ ThreadMayMove
  BY ThreadMoves
<1>3. Spec => []Inv
  BY StackInvariance, FirstCpu, PTL
<1> HIDE DEF Inv
<1>4. Spec /\ RunsOn => ((Due(j) /\ Reading) ~> Settled(j))
  BY <1>1, <1>2, <1>3, PTL DEF RunsOn, Spec
<1>5. Spec /\ RunsOn => ((Due(j) /\ Looking) ~> (Settled(j) \/ (Due(j) /\ Reading)))
  BY <1>1, <1>2, <1>3, PTL DEF RunsOn, Spec
<1>6. Spec /\ RunsOn => ((Due(j) /\ Finishing) ~> (Settled(j) \/ (Due(j) /\ Looking)))
  BY <1>1, <1>2, <1>3, PTL DEF RunsOn, Spec
<1>7. Spec => [](Due(j) => Settled(j) \/ (Due(j) /\ Reading) \/ (Due(j) /\ Finishing)
                                 \/ (Due(j) /\ Looking))
  BY <1>2, <1>3, PTL DEF Spec
<1> QED BY <1>4, <1>5, <1>6, <1>7, PTL DEF GetsSettled

-----------------------------------------------------------------------------
(***************************************************************************)
(* From one sample to all of them, as for the records of SyscallTracer:    *)
(* Leads and Hop are reasoned about by name, and a distance that is        *)
(* covered once is covered twice.                                          *)
(***************************************************************************)

\* Sample n of CPU 0 exists, and all but d samples up to it have been dealt with.
Behind(n, d) == n <= Len(pushed[0]) /\ (n <= Read(0) + d \/ thread = "stopped")

Leads(n, d, e) == Behind(n, d) ~> Behind(n, e)
Hop(m) == \A n \in Nat \ {0}, d \in Nat : Leads(n, d + m, d)

\* The next sample is shown.
LEMMA HopOne == Spec /\ RunsOn => Hop(1)
<1>1. ASSUME NEW n \in Nat \ {0}, NEW d \in Nat
      PROVE  Spec /\ RunsOn => Leads(n, d + 1, d)
  <2> DEFINE Exists == n <= Len(pushed[0])
  <2>1. IInv => Read(0) \in Nat /\ Len(pushed[0]) \in Nat
    <3>1. 0 \in Cpus
      BY StackAssumption DEF Cpus
    <3> QED BY <3>1 DEF IInv, TypeOK, BatchInBuffer, Read
  <2>2. IInv /\ [Next]_vars => (Exists => Exists')
    BY ReadMoves
  <2>3. CASE d >= n
    <3>1. IInv /\ Behind(n, d + 1) => Behind(n, d)
      BY <2>1, <2>3 DEF Behind
    <3> QED BY <3>1, StackInvariance, PTL DEF Leads
  <2>4. CASE ~(d >= n)
    <3> DEFINE j == n - d
    <3>1. j \in Nat \ {0}
      BY <2>4
    <3>2. IInv /\ Behind(n, d + 1) => Exists /\ (Due(j) \/ Settled(j))
      BY <2>1, <2>4 DEF Behind, Due, Settled
    <3>3. IInv /\ [Next]_vars => (Settled(j) => Settled(j)')
      BY <3>1, DueStays
    <3>4. IInv /\ Exists /\ Settled(j) => Behind(n, d)
      BY <2>1, <2>4 DEF Behind, Settled
    <3>5. Spec /\ RunsOn => GetsSettled(j)
      BY <3>1, DueGetsShown
    <3> HIDE DEF j, Exists
    <3> QED BY <2>2, <3>2, <3>3, <3>4, <3>5, StackInvariance, PTL
            DEF Spec, Leads, GetsSettled
  <2> QED BY <2>3, <2>4
<1> QED BY <1>1 DEF Hop

\* A distance that is covered can be covered twice in a row, and sixteen times.
LEMMA HopTwice == ASSUME NEW m \in Nat PROVE Hop(m) => Hop(2 * m)
<1>1. ASSUME NEW n \in Nat \ {0}, NEW d \in Nat
      PROVE  Hop(m) => Leads(n, d + 2 * m, d)
  <2>1. Hop(m) => Leads(n, (d + m) + m, d + m) /\ Leads(n, d + m, d)
    BY DEF Hop
  <2>2. (d + m) + m = d + 2 * m
    OBVIOUS
  <2>3. Hop(m) => Leads(n, d + 2 * m, d + m) /\ Leads(n, d + m, d)
    BY <2>1, <2>2
  <2> QED BY <2>3, PTL DEF Leads
<1> QED BY <1>1 DEF Hop

LEMMA HopSixteen == ASSUME NEW m \in Nat PROVE Hop(m) => Hop(16 * m)
<1>1. Hop(m) => Hop(2 * m)
  BY HopTwice
<1>2. Hop(2 * m) => Hop(4 * m)
  BY HopTwice, 2 * (2 * m) = 4 * m
<1>3. Hop(4 * m) => Hop(8 * m)
  BY HopTwice, 2 * (4 * m) = 8 * m
<1>4. Hop(8 * m) => Hop(16 * m)
  BY HopTwice, 2 * (8 * m) = 16 * m
<1> QED BY <1>1, <1>2, <1>3, <1>4

\* However full the buffer is.
LEMMA HopFar == Spec /\ RunsOn => Hop(4294967296)
<1>1. Hop(1) => Hop(16)
  BY HopSixteen, 16 * 1 = 16
<1>2. Hop(16) => Hop(256)
  BY HopSixteen, 16 * 16 = 256
<1>3. Hop(256) => Hop(4096)
  BY HopSixteen, 16 * 256 = 4096
<1>4. Hop(4096) => Hop(65536)
  BY HopSixteen, 16 * 4096 = 65536
<1>5. Hop(65536) => Hop(1048576)
  BY HopSixteen, 16 * 65536 = 1048576
<1>6. Hop(1048576) => Hop(16777216)
  BY HopSixteen, 16 * 1048576 = 16777216
<1>7. Hop(16777216) => Hop(268435456)
  BY HopSixteen, 16 * 16777216 = 268435456
<1>8. Hop(268435456) => Hop(4294967296)
  BY HopSixteen, 16 * 268435456 = 4294967296
<1> QED BY HopOne, <1>1, <1>2, <1>3, <1>4, <1>5, <1>6, <1>7, <1>8

\* Every sample that got into a buffer is shown in the end, or the thread has ended: none
\* is left there although the thread looks at the end of the buffer only between batches.
THEOREM EverySampleShown ==
  ASSUME RingSamples < 4294967296
  PROVE  Spec /\ RunsOn => PushedGetsShown
<1>0. 0 \in Cpus
  BY StackAssumption DEF Cpus
<1>1. ASSUME NEW c \in Cpus, NEW n \in 1..MaxSamples
      PROVE  Spec /\ RunsOn => GetsShown(c, n)
  <2>1. n \in Nat \ {0}
    BY StackAssumption
  <2>2. CASE c # 0
    <3>1. IInv /\ FirstCpuOnly => ~(n <= Len(pushed[c]))
      BY <2>1, <2>2 DEF IInv, TypeOK, FirstCpuOnly
    <3> QED BY <3>1, StackInvariance, FirstCpu, PTL DEF GetsShown
  <2>3. CASE c = 0
    <3>1. Spec /\ RunsOn => Leads(n, 0 + 4294967296, 0)
      BY <2>1, HopFar DEF Hop
    <3>2. IInv => Read(0) \in Nat /\ Len(pushed[0]) \in Nat /\ tail[0] \in Nat
                    /\ tail[0] <= Read(0)
      BY <1>0 DEF IInv, TypeOK, BatchInBuffer, Read
    <3>3. IInv /\ BufferBounded /\ n <= Len(pushed[0]) => Behind(n, 0 + 4294967296)
      BY <1>0, <2>1, <3>2, StackAssumption DEF BufferBounded, Behind
    <3>4. IInv /\ Behind(n, 0) => n <= Read(0) \/ thread = "stopped"
      BY <2>1, <3>2 DEF Behind
    <3>5. Spec /\ RunsOn => GetsShown(0, n)
      BY <3>1, <3>3, <3>4, StackInvariance, Bounded, PTL DEF Leads, GetsShown
    <3> QED BY <2>3, <3>5
  <2> QED BY <2>2, <2>3
<1> QED BY <1>1 DEF PushedGetsShown
=============================================================================
