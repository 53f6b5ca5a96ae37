----------------------------- MODULE MCLifecycle -----------------------------
(***************************************************************************)
(* Instances of Lifecycle for TLC: short command lines of words x and      *)
(* spaces.                                                                 *)
(***************************************************************************)
EXTENDS Lifecycle

CONSTANT x

\* A name alone, a name with an argument, spaces alone, one word fewer than
\* the limits allow, and a string that is too long.
CommandLines ==
  {<<x>>, <<x, Space, x>>, <<Space, Space>>, <<x, Space, x, x>>,
   <<x, Space, x, Space, x, Space, x>>}

\* With the limits of the source, the longest sequence of one-letter words fits.
ASSUME LET p == [i \in 1..100 |-> IF i % 2 = 1 THEN x ELSE Space] IN Words(p) = 50
=============================================================================
