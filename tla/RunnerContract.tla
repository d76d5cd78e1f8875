--------------------------- MODULE RunnerContract ---------------------------
(***************************************************************************)
(* The runner implements the session's contract.                           *)
(***************************************************************************)
EXTENDS RunnerHistory

Contract == INSTANCE SessionContract WITH
  Inputs <- Inputs,
  Calls <- Calls,
  mailbox <- [i \in Inputs |-> IF i > s.accepted THEN "unsent"
                               ELSE IF i \in s.inputs THEN "waiting" ELSE "read"],
  turn <- IF ~s.on THEN "off" ELSE IF s.cancel THEN "cancelling" ELSE "on",
  outcome <- s.outcome,
  call <- [c \in Calls |-> IF c > s.issued THEN "unused"
                           ELSE IF c \in Unsettled(s) THEN "open"
                           ELSE IF c \in Settled(s) THEN "settled" ELSE "closed"]

\* Every step of the runner is a step the contract allows, or invisible.
ContractHolds == Contract!Spec
=============================================================================
