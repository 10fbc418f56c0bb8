---------------------------- MODULE JobContract -----------------------------
(***************************************************************************)
(* What a cancellable job promises to those who submit and stop it: its    *)
(* sandbox work starts at most once; it then has one result or is          *)
(* cancelled, never both; a request that is answered with a result is      *)
(* answered with that one.  JobExecution implements it.                    *)
(***************************************************************************)
CONSTANTS
  Attempts,   \* those who may do the work
  None

VARIABLES
  started,    \* who has started the work
  result,     \* whose result is the job's
  cancelled,  \* whether somebody was told that the job is cancelled
  told        \* whose result the request was answered with

vars == <<started, result, cancelled, told>>

Init == started = {} /\ result = None /\ cancelled = FALSE /\ told = None

Start ==
  /\ started = {} /\ \E a \in Attempts : started' = {a}
  /\ UNCHANGED <<result, cancelled, told>>

Complete ==
  /\ result = None /\ ~cancelled /\ result' \in started
  /\ UNCHANGED <<started, cancelled, told>>

Cancel ==
  /\ result = None /\ cancelled' = TRUE
  /\ UNCHANGED <<started, result, told>>

Tell ==
  /\ result # None /\ told' = result
  /\ UNCHANGED <<started, result, cancelled>>

Next == Start \/ Complete \/ Cancel \/ Tell

Spec == Init /\ [][Next]_vars
=============================================================================
