------------------------------ MODULE MCSpeech ------------------------------
(* Symmetry and requests for the run of Speech.                               *)
EXTENDS Speech, TLC

SpeechSymmetry ==
  Permutations(Values) \cup Permutations(Names) \cup Permutations(Keys)

\* One admin request of every kind that changes what a speech request reads.
AdminJobs ==
  { j \in Jobs :
      \/ /\ j.kind = "update"
         /\ j.conf = j.rate
         /\ (j.conf = None) # (j.def = None)
      \/ j.kind = "cors" /\ j.all # None /\ j.origins # None /\ (j.all => j.origins = {})
      \/ j.kind \notin {"update", "cors", "admin_key"} }

\* A page of another origin that names nothing, and scripts that name a voice.
FewAsks ==
  { r \in SpeechRequests :
      /\ r.key # None
      /\ (r.origin = None) # (r.voice = None)
      /\ r.format = (r.voice # None) }

\* The lists start out with every origin; the CORS requests make them all others.
StartInit == SpeechInit /\ ~db.all /\ db.origins = Origins
StartSpec == StartInit /\ [][SpeechNext]_all

=============================================================================
