------------------------------- MODULE Ledger -------------------------------
(***************************************************************************)
(* What tts_upstream_total promises: every synthesis is counted once when  *)
(* it starts and once, under its outcome, when it is finished, each time   *)
(* in a single step.                                                       *)
(***************************************************************************)
EXTENDS Naturals

CONSTANTS Calls, Outcomes, Formats, FormatOf

VARIABLES total, stage

LInit ==
  /\ total = [k \in ({"started"} \cup Outcomes) \X Formats |-> 0]
  /\ stage = [c \in Calls |-> "not started"]

Start(c) ==
  /\ stage[c] = "not started"
  /\ stage' = [stage EXCEPT ![c] = "started"]
  /\ total' = [total EXCEPT ![<<"started", FormatOf[c]>>] = @ + 1]

Finish(c, outcome) ==
  /\ stage[c] = "started"
  /\ stage' = [stage EXCEPT ![c] = "finished"]
  /\ total' = [total EXCEPT ![<<outcome, FormatOf[c]>>] = @ + 1]

LNext == \E c \in Calls : Start(c) \/ \E outcome \in Outcomes : Finish(c, outcome)

LSpec == LInit /\ [][LNext]_<<total, stage>>

=============================================================================
