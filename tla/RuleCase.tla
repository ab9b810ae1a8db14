------------------------------ MODULE RuleCase -------------------------------
(***************************************************************************)
(* A case of what is computed without steps of its own: one input and its  *)
(* result.                                                                 *)
(***************************************************************************)
VARIABLES
  part,   \* what is computed
  in,     \* its input
  out,    \* its result
  done    \* whether the result is there

vars == <<part, in, out, done>>

\* The result of part p is there.
Has(p) == part = p /\ done

\* A map without keys.
NoMap == <<>>
=============================================================================
