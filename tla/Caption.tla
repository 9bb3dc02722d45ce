------------------------------ MODULE Caption ------------------------------
(***************************************************************************)
(* What a reader of captions may expect, without sockets, lines and polls: *)
(* of every kind of caption he sees one that was current at some time, and *)
(* never an older one after a newer one.                                   *)
(***************************************************************************)
EXTENDS Naturals

CONSTANTS Kinds         \* the kinds of captions

VARIABLES current,      \* the number of the latest caption of each kind
          seen          \* the one the reader sees

captionVars == <<current, seen>>

Init == current = [k \in Kinds |-> 0] /\ seen = [k \in Kinds |-> 0]

Say ==
  /\ current' \in {[current EXCEPT ![k] = @ + 1] : k \in Kinds}
  /\ UNCHANGED seen

See ==
  /\ seen' \in [Kinds -> Nat]
  /\ \A k \in Kinds : seen[k] <= seen'[k] /\ seen'[k] <= current[k]
  /\ UNCHANGED current

Next == Say \/ See

Spec == Init /\ [][Next]_captionVars
=============================================================================
