---------------------------- MODULE TargetFilter ----------------------------
(***************************************************************************)
(* is_target_program and str_equals (eptracer.bpf.c): does the thread that *)
(* caused an event belong to the process the user asked for?  The only     *)
(* thing the BPF side has is the identifier in program_map, a name or a    *)
(* number in ASCII; it is compared with the thread's name, then read as a  *)
(* number and compared with the thread's pid.                              *)
(*                                                                         *)
(* One behaviour is one evaluation; the loops go one character at a time.  *)
(* A character is a digit, 0 .. Base-1, or any other number; Nul ends a    *)
(* string.                                                                 *)
(***************************************************************************)
EXTENDS Integers

CONSTANTS
  IdLen,     \* MAX_PROGRAM_STRING_LEN, the size of both buffers
  Base,      \* 10
  WordSize,  \* 2^64, the number of values of pid_to_trace
  Letters,   \* characters that are neither digits nor Nul
  Ids,       \* what initialize_array may have stored in program_map
  Comms,     \* the thread names
  Pids       \* the pids, 0 being the idle task's

Nul   == -1
Digit == 0..(Base - 1)
Char  == Digit \cup Letters \cup {Nul}
Buffer == [0..(IdLen - 1) -> Char]

ASSUME FilterAssumption ==
  /\ IdLen \in Nat \ {0}
  /\ Base \in Nat \ {0}
  /\ WordSize \in Nat \ {0}
  /\ Letters \subseteq Int
  /\ Letters \cap (Digit \cup {Nul}) = {}
  /\ Ids \subseteq Buffer
  /\ Comms \subseteq Buffer
  /\ Pids \subseteq 0..(WordSize - 1)

VARIABLES
  id,     \* program_to_trace
  comm,   \* program_name
  pid,    \* the pid of the current thread
  pc,     \* "start", "failed", "compare", "digits" or "done"
  i,      \* index of the running loop
  acc,    \* pid_to_trace
  result  \* what is_target_program returns

vars == <<id, comm, pid, pc, i, acc, result>>
inputs == <<id, comm, pid>>

TypeOK ==
  /\ id \in Buffer /\ comm \in Buffer /\ pid \in Pids
  /\ pc \in {"start", "failed", "compare", "digits", "done"}
  /\ i \in 0..IdLen
  /\ acc \in 0..(WordSize - 1)
  /\ result \in {0, pid}

Init ==
  /\ id \in Ids /\ comm \in Comms /\ pid \in Pids
  /\ pc = "start"
  /\ i = 0
  /\ acc = 0
  /\ result = 0

GoTo(next) == pc' = next /\ i' = 0

\* bpf_get_current_comm and bpf_map_lookup_elem; if one fails, it returns 0.
ReadNames ==
  /\ pc = "start"
  /\ GoTo("compare") \/ GoTo("failed")
  /\ UNCHANGED <<acc, result, inputs>>

\* An iteration of str_equals on two equal characters.
SameChar ==
  /\ pc = "compare"
  /\ i < IdLen /\ comm[i] = id[i] /\ id[i] # Nul
  /\ i' = i + 1
  /\ UNCHANGED <<pc, acc, result, inputs>>

\* Mutant of EndOfString: the end of the identifier is enough.
EndOfId ==
  /\ pc = "compare"
  /\ i < IdLen => id[i] = Nul
  /\ GoTo("done")
  /\ result' = pid
  /\ UNCHANGED <<acc, inputs>>

\* Both strings end here, or the buffers do: the names are equal.
EndOfString ==
  /\ pc = "compare"
  /\ i < IdLen => comm[i] = Nul /\ id[i] = Nul
  /\ GoTo("done")
  /\ result' = pid
  /\ UNCHANGED <<acc, inputs>>

\* Two characters differ: the identifier may be a number.
OtherChar ==
  /\ pc = "compare"
  /\ i < IdLen /\ comm[i] # id[i]
  /\ GoTo("digits")
  /\ acc' = 0
  /\ UNCHANGED <<result, inputs>>

\* Mutant of ReadDigit: a number wider than the machine's.
ReadDigitUnbounded ==
  /\ pc = "digits"
  /\ i < IdLen /\ id[i] \in Digit
  /\ acc' = acc * Base + id[i]
  /\ i' = i + 1
  /\ UNCHANGED <<pc, result, inputs>>

\* An iteration of the loop that reads the number, in 64 bits.
ReadDigit ==
  /\ pc = "digits"
  /\ i < IdLen /\ id[i] \in Digit
  /\ acc' = (acc * Base + id[i]) % WordSize
  /\ i' = i + 1
  /\ UNCHANGED <<pc, result, inputs>>

\* The first character that is no digit ends the number.
EndOfNumber ==
  /\ pc = "digits"
  /\ i < IdLen => id[i] \notin Digit
  /\ GoTo("done")
  /\ result' = IF acc = 0 \/ acc # pid THEN 0 ELSE pid
  /\ UNCHANGED <<acc, inputs>>

Next ==
  \/ ReadNames \/ SameChar \/ EndOfString \/ OtherChar \/ ReadDigit \/ EndOfNumber

Spec == Init /\ [][Next]_vars

-----------------------------------------------------------------------------
(***************************************************************************)
(* What the identifier means.                                              *)
(***************************************************************************)

\* Two buffers hold the same C string.
SameString(s, t) ==
  \A k \in 0..(IdLen - 1) :
    (\A j \in 0..(k - 1) : s[j] # Nul) => s[k] = t[k]

\* The number that the first n characters of the identifier write.
Value[n \in 0..IdLen] == IF n = 0 THEN 0 ELSE Value[n - 1] * Base + id[n - 1]

\* n characters, all digits, and nothing after them.
IsNumeral(n) ==
  /\ \A k \in 0..(n - 1) : id[k] \in Digit
  /\ n = IdLen \/ id[n] = Nul

IsPid == \E n \in 1..IdLen : IsNumeral(n) /\ Value[n] = pid

Target == SameString(id, comm) \/ IsPid

\* An identifier that begins with a digit is a numeral below 2^64.
Sensible ==
  id[0] \in Digit => \E n \in 1..IdLen : IsNumeral(n) /\ Value[n] < WordSize

-----------------------------------------------------------------------------
(***************************************************************************)
(* Properties.                                                             *)
(***************************************************************************)

\* For a sensible identifier the filter lets through the threads of the named
\* pid and the threads of that name, with their pid, and nobody else; the idle
\* task, whose pid is 0, is let through by no identifier.
FilterIsExact ==
  pc = "done" /\ Sensible => result = IF Target THEN pid ELSE 0

\* "Filters events by target PID/program name": whoever is let through is the
\* target by its pid or by its name.
LetsOnlyTargetThrough == result # 0 => Target
=============================================================================
