----------------------------- MODULE TracerLife -----------------------------
(***************************************************************************)
(* The life of a tracing process as its parts may rely on it, with no      *)
(* signals, skeleton or child: the tracepoint program is attached at most  *)
(* once, the reader of its events starts after that, and the end of the    *)
(* process takes both away for good.                                       *)
(***************************************************************************)
VARIABLES
  link,    \* of the tracepoint program: "none", "attached", "detached"
  reader,  \* of its events: "none", "reading", "gone"
  alive    \* FALSE once the process has ended

vars == <<link, reader, alive>>

Init ==
  /\ link = "none"
  /\ reader = "none"
  /\ alive = TRUE

Attach ==
  /\ alive
  /\ link = "none"
  /\ link' = "attached"
  /\ UNCHANGED <<reader, alive>>

Read ==
  /\ alive
  /\ reader = "none"
  /\ link # "none"
  /\ reader' = "reading"
  /\ UNCHANGED <<link, alive>>

Stop ==
  /\ alive
  /\ reader = "reading"
  /\ reader' = "gone"
  /\ UNCHANGED <<link, alive>>

Detach ==
  /\ alive
  /\ link = "attached"
  /\ link' = "detached"
  /\ UNCHANGED <<reader, alive>>

Exit ==
  /\ alive
  /\ alive' = FALSE
  /\ reader' = "gone"
  /\ link' = IF link = "attached" THEN "detached" ELSE link

Next == Attach \/ Read \/ Stop \/ Detach \/ Exit

Spec == Init /\ [][Next]_vars
=============================================================================
