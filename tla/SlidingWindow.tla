---------------------------- MODULE SlidingWindow ----------------------------
(***************************************************************************)
(* An ideal rate limiter: it knows each client's grants of the last Width  *)
(* instants, neither more nor less, and grants a request when there are    *)
(* fewer than Limit of them.  Whenever more than MaxEntries clients have   *)
(* any, it may forget about some, but never about one that was granted a   *)
(* request later than one that it remembers.                               *)
(***************************************************************************)
EXTENDS Integers, FiniteSets

CONSTANTS Clients, Limit, Width, MaxEntries

VARIABLES clock, window

wvars == <<clock, window>>

WInit ==
  /\ clock  = 0
  /\ window = [c \in Clients |-> {}]

\* Clients that may be forgotten, when left holds the grants of each that are
\* still in the window.
MayForget(out, left) ==
  LET active == {c \in Clients : left[c] # {}}
  IN  \/ out = {}
      \/ /\ Cardinality(active) > MaxEntries
         /\ out \subseteq active
         /\ \A a \in out, b \in active \ out :
              \A t \in left[a] : \E u \in left[b] : t <= u

\* Client k's request at the instant now, when known holds what is remembered.
Answer(k, now, known) ==
  window' = IF Cardinality(known[k]) < Limit THEN [known EXCEPT ![k] = @ \cup {now}]
                                             ELSE known

\* A client asks, at an instant after the last and no later than the next.
Ask ==
  /\ clock' > clock
  /\ LET left == [c \in Clients |-> {t \in window[c] : t > clock' - Width}]
     IN  \E out \in SUBSET Clients :
           /\ MayForget(out, left)
           /\ \E k \in Clients, now \in clock + 1 .. clock' :
                Answer(k, now, [c \in Clients |-> IF c \in out THEN {} ELSE left[c]])

WSpec == WInit /\ [][Ask]_wvars

=============================================================================
