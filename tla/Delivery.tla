------------------------------- MODULE Delivery -------------------------------
(* What the group channel promises, whatever paths a message takes: "never    *)
(* let a direct-path failure lose a token" (p2p/links.py).  A message handed  *)
(* over is on its way; it leaves only when it has been heard, or when there   *)
(* is an excuse for it; it is heard once, or a second time when one path was  *)
(* tried after the other.  Links implements this.                             *)
EXTENDS Naturals, Sequences, FiniteSets, SequencesExt

CONSTANT Msgs    \* how many messages the task sends

VARIABLES sent,     \* how many it has sent
          away,     \* those on their way
          heard,    \* what the other task was given, in order
          excused   \* those that may never be heard
deliveryVars == <<sent, away, heard, excused>>

TimesHeard(m) == Cardinality({i \in DOMAIN heard : heard[i] = m})

DeliveryInit == sent = 0 /\ away = {} /\ heard = <<>> /\ excused = {}

Send ==
    /\ sent < Msgs /\ sent' = sent + 1
    /\ \/ away' = away \union {sent'} /\ UNCHANGED excused
       \/ excused' = excused \union {sent'} /\ UNCHANGED away
    /\ UNCHANGED heard

\* Heard, while another copy of it may still be under way.
Hear(m) ==
    /\ TimesHeard(m) < 2 /\ heard' = Append(heard, m)
    /\ away' \in {away, away \ {m}}
    /\ UNCHANGED <<sent, excused>>

\* Some are lost; of those another copy may be under way.
Excuse(lost) ==
    /\ excused' = excused \union lost
    /\ \E gone \in SUBSET lost : away' = away \ gone
    /\ UNCHANGED <<sent, heard>>

\* What is left of some that have been heard or excused comes to nothing.
Settled(rest) ==
    /\ rest \subseteq Range(heard) \union excused
    /\ away' = away \ rest
    /\ UNCHANGED <<sent, heard, excused>>

DeliveryNext ==
    \/ Send
    \/ \E m \in away : Hear(m)
    \/ \E some \in (SUBSET away) \ {{}} : Excuse(some) \/ Settled(some)

DeliverySpec == DeliveryInit /\ [][DeliveryNext]_deliveryVars
=============================================================================
