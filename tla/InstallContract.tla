--------------------------- MODULE InstallContract ---------------------------
(***************************************************************************)
(* What the installer promises, without a process, a handler or a file:    *)
(* a setup that is open until it is closed by the lock, a configuration    *)
(* that can be written only while setup is open and gets into the file     *)
(* some time later, and an archive that keeps what was in the file when a  *)
(* repair took it out of service.                                          *)
(***************************************************************************)
CONSTANTS Payloads, None

VARIABLES
  closed,   \* setup has been closed by a lock
  conf,     \* the configuration in force, or None
  file,     \* the configuration that the database file holds by itself, or None
  archive   \* configurations taken out of service by a repair

cvars == <<closed, conf, file, archive>>

CInit ==
  /\ closed  = FALSE
  /\ conf    = None
  /\ file    = None
  /\ archive = {}

\* A submission commits.
Configure(p) ==
  /\ ~closed
  /\ conf' = p
  /\ UNCHANGED <<closed, file, archive>>

\* What has been committed gets into the file.
Settle ==
  /\ file' = conf
  /\ UNCHANGED <<closed, conf, archive>>

\* The lock is written, which it may be only over a committed configuration.
Close ==
  /\ conf # None
  /\ closed' = TRUE
  /\ UNCHANGED <<conf, file, archive>>

\* A database file is archived, as it is ...
Archive ==
  /\ archive' = archive \cup {file}
  /\ conf'    = None
  /\ file'    = None
  /\ UNCHANGED closed

\* ... and setup is opened again, which happens only after an archive.
Reopen ==
  /\ closed
  /\ conf = None
  /\ archive # {}
  /\ closed' = FALSE
  /\ UNCHANGED <<conf, file, archive>>

CNext ==
  \/ \E p \in Payloads : Configure(p)
  \/ Settle
  \/ Close
  \/ Archive
  \/ Reopen

CSpec == CInit /\ [][CNext]_cvars

=============================================================================
