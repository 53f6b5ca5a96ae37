--------------------------- MODULE MCTargetFilter ---------------------------
(***************************************************************************)
(* TargetFilter on short buffers: two digits, one or two letters, a word   *)
(* that the longest numerals overflow.                                     *)
(***************************************************************************)
EXTENDS TargetFilter

CONSTANTS
  MaxId,   \* length of the longest identifier; IdLen fills the buffer
  MaxComm  \* length of the longest name, below TASK_COMM_LEN

\* Buffers that hold a string of from lo to hi characters, padded with Nul.
Strings(lo, hi) ==
  UNION {{[k \in 0..(IdLen - 1) |-> IF k < n THEN s[k] ELSE Nul] :
            s \in [0..(n - 1) -> Char \ {Nul}]} : n \in lo..hi}

MCIds   == Strings(1, MaxId)
MCComms == Strings(0, MaxComm)
=============================================================================
