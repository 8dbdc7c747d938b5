---------------------------- MODULE ReplayFilter ----------------------------
(***************************************************************************)
(* What security.Session promises about packet counters, without the       *)
(* sliding bit mask: a side remembers every counter it ever accepted, and  *)
(* a packet is accepted exactly when its counter is new and fewer than W   *)
(* behind the highest one accepted.  Session (the bit mask) is shown to    *)
(* implement this module.                                                  *)
(***************************************************************************)
EXTENDS Integers

CONSTANTS Sides,   \* the two ends of a session
          Ctrs,    \* the packet counters
          W        \* width of the replay window, in packets

VARIABLES seen,    \* seen[s]: the counters side s has accepted
          answer   \* answer[s]: the last counter s judged and the verdict

fvars == <<seen, answer>>

\* Counter c is not behind any accepted counter by W or more.
Recent(s, c) == \A x \in seen[s] : x < c + W

FInit == /\ seen = [s \in Sides |-> {}]
         /\ answer = [s \in Sides |-> <<0, "none">>]

Admit(s, c) ==
  /\ c \notin seen[s]
  /\ Recent(s, c)
  /\ seen' = [seen EXCEPT ![s] = @ \cup {c}]
  /\ answer' = [answer EXCEPT ![s] = <<c, "accept">>]

Refuse(s, c) ==
  /\ c \in seen[s] \/ ~Recent(s, c)
  /\ answer' = [answer EXCEPT ![s] = <<c, "replay">>]
  /\ UNCHANGED seen

FNext == \E s \in Sides : \E c \in Ctrs : Admit(s, c) \/ Refuse(s, c)

FSpec == FInit /\ [][FNext]_fvars
=============================================================================
