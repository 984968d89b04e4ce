-------------------------- MODULE MCRuntimeConfig --------------------------
(* Instances of RuntimeConfig for model checking.                             *)
EXTENDS RuntimeConfig, TLC

\* Keys are left out of the symmetry: one of them is the environment's.
ConfigSymmetry ==
  Permutations(Handlers) \cup Permutations(Values) \cup Permutations(Names)

AllJobs == Jobs

\* For the overlapping runs: updates of one field or of all, and every form of
\* the other requests, without those that differ only in a second field.
FewJobs ==
  { j \in Jobs :
      \/ /\ j.kind = "update"
         /\ <<j.rate, j.def>> = <<None, None>> \/ (j.conf = None /\ j.rate # None /\ j.def # None)
      \/ j.kind = "cors" /\ (j.all = None \/ j.origins = None)
      \/ j.kind \notin {"update", "cors"} }

\* One administrator changes an option while another sets an admin key.
UpdateAndAdminKey ==
  { j \in Jobs :
      \/ j.kind = "update" /\ j.conf # None /\ <<j.rate, j.def>> = <<None, None>>
      \/ j.kind = "admin_key" /\ j.key # None }

=============================================================================
