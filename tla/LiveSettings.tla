---------------------------- MODULE LiveSettings ----------------------------
(***************************************************************************)
(* What the administration pages promise: a change that has been stored    *)
(* takes effect at once, without a restart.  The service lives by some     *)
(* configuration; a change is stored only while the service lives by the   *)
(* one that is stored, and the next thing that happens to either is that   *)
(* the change takes effect, as a whole.                                    *)
(***************************************************************************)
VARIABLES
  stored,    \* the configuration in the database
  effective  \* the configuration the service works with

lvars == <<stored, effective>>

LInit == effective = stored

Store ==
  /\ effective = stored
  /\ stored' # stored
  /\ UNCHANGED effective

TakeEffect ==
  /\ effective # stored
  /\ effective' = stored
  /\ UNCHANGED stored

LNext == Store \/ TakeEffect

LSpec == LInit /\ [][LNext]_lvars /\ WF_lvars(TakeEffect)

=============================================================================
