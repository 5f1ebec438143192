--------------------------- MODULE InOrderReplication ---------------------------
(***************************************************************************)
(* What one direction of sync promises, with no protocol in sight: a       *)
(* source gives each change a version, a destination holds some of the     *)
(* changes and a mark, and whatever reaches the destination reaches it as  *)
(* everything up to some version, together with the mark that says so.     *)
(* A mark never goes back, so a destination that asks for what lies above  *)
(* its mark never misses a change.                                         *)
(***************************************************************************)
EXTENDS Naturals

CONSTANT Change

VARIABLES source,  \* change -> version at the source, 0 before it is written
          held,    \* the changes the destination holds
          mark     \* the version up to which the destination has seen the source

vars == <<source, held, mark>>

UpTo(v) == {c \in Change : 0 < source[c] /\ source[c] <= v}

Init ==
  /\ source = [c \in Change |-> 0]
  /\ held = {}
  /\ mark = 0

\* A new change gets a version above every other and above the mark.
Write(c) ==
  /\ source[c] = 0
  /\ source'[c] \in Nat
  /\ source'[c] > mark
  /\ \A d \in Change : source'[c] > source[d]
  /\ source' = [source EXCEPT ![c] = source'[c]]
  /\ UNCHANGED <<held, mark>>

\* Everything up to the version of some change c arrives, perhaps again.
Deliver(c) ==
  /\ source[c] > 0
  /\ held' = held \cup UpTo(source[c])
  /\ mark' = IF source[c] > mark THEN source[c] ELSE mark
  /\ UNCHANGED source

Next == \E c \in Change : Write(c) \/ Deliver(c)

Spec == Init /\ [][Next]_vars

\* The destination holds everything up to its mark.
Contiguous == UpTo(mark) \subseteq held
=============================================================================
