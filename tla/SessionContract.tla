-------------------------- MODULE SessionContract --------------------------
(***************************************************************************)
(* What a session promises its clients and its tools, with no runner, no   *)
(* provider and no log.  An input waits in the mailbox until a request of  *)
(* a turn takes the whole mailbox.  A call opens within a turn, settles    *)
(* once, and is closed when its result is told or no longer matters.  A    *)
(* cancelling turn makes no request, opens no call, and ends cancelled.    *)
(***************************************************************************)
CONSTANTS Inputs, Calls

VARIABLES mailbox,   \* for each input: unsent, waiting or read
          turn,      \* off, on or cancelling
          outcome,   \* how the last turn ended
          call       \* for each call: unused, open, settled or closed

vars == <<mailbox, turn, outcome, call>>

Becomes(f, cs, v) == [x \in DOMAIN f |-> IF x \in cs THEN v ELSE f[x]]
At(f, v) == {x \in DOMAIN f : f[x] = v}

Init ==
  /\ mailbox = [i \in Inputs |-> "unsent"] /\ turn = "off"
  /\ outcome = "none" /\ call = [c \in Calls |-> "unused"]

Accept ==
  /\ \E i \in At(mailbox, "unsent") : mailbox' = Becomes(mailbox, {i}, "waiting")
  /\ UNCHANGED <<turn, outcome, call>>

Begin ==
  /\ turn = "off" /\ turn' = "on" /\ outcome' = "none"
  /\ UNCHANGED <<mailbox, call>>

AskCancel ==
  /\ turn = "on" /\ turn' = "cancelling"
  /\ UNCHANGED <<mailbox, outcome, call>>

\* A request reads the whole mailbox or none of it, and tells settled results.
Request ==
  /\ turn = "on"
  /\ mailbox' \in {mailbox, Becomes(mailbox, At(mailbox, "waiting"), "read")}
  /\ \E told \in SUBSET At(call, "settled") : call' = Becomes(call, told, "closed")
  /\ UNCHANGED <<turn, outcome>>

\* A request that could not be served puts its inputs back.
GiveBack ==
  /\ turn = "on"
  /\ \E back \in SUBSET At(mailbox, "read") : mailbox' = Becomes(mailbox, back, "waiting")
  /\ UNCHANGED <<turn, outcome, call>>

\* An answer opens calls; those that need no running are settled or closed at
\* once, and results that an accepted document retains are told.
Answer ==
  /\ turn = "on"
  /\ \E new \in SUBSET At(call, "unused"), told \in SUBSET At(call, "settled"),
        v \in {"open", "settled", "closed"} :
       call' = Becomes(Becomes(call, told, "closed"), new, v)
  /\ UNCHANGED <<mailbox, turn, outcome>>

Settle ==
  /\ \E cs \in SUBSET At(call, "open") : call' = Becomes(call, cs, "settled")
  /\ UNCHANGED <<mailbox, turn, outcome>>

End ==
  /\ turn # "off" /\ turn' = "off"
  /\ outcome' \in IF turn = "cancelling" THEN {"cancelled"} ELSE {"finished", "failed"}
  /\ \E moot \in SUBSET At(call, "settled") : call' = Becomes(call, moot, "closed")
  /\ UNCHANGED mailbox

Next == Accept \/ Begin \/ AskCancel \/ Request \/ GiveBack \/ Answer \/ Settle \/ End

Spec == Init /\ [][Next]_vars
=============================================================================
