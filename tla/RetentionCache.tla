--------------------------- MODULE RetentionCache ---------------------------
(***************************************************************************)
(* What every bounded KV cache of the repository promises its model,       *)
(* independent of the policy and of the storage layout: which tokens of    *)
(* the sequence each KV head still holds.                                  *)
(*                                                                         *)
(*   - a token once dropped by a head never comes back;                    *)
(*   - tokens are dropped only in rounds, and a round leaves every head    *)
(*     with exactly Limit tokens;                                          *)
(*   - a round never drops any of the Window newest tokens;                *)
(*   - the number of leading tokens a head pins is settled by its first    *)
(*     round and no later round drops one of them.                         *)
(*                                                                         *)
(* EvictLayer and Qwen35Layer are shown to implement this specification.   *)
(***************************************************************************)
EXTENDS Integers, FiniteSets

CONSTANTS Heads, Limit, Window

VARIABLES
  seen,      \* tokens of the sequence so far
  held,      \* head -> positions it holds
  pin,       \* head -> number of leading positions it pins
  trimmed    \* some round has run

rvars == <<seen, held, pin, trimmed>>

Init ==
  /\ seen = 0
  /\ held = [h \in Heads |-> {}]
  /\ pin = [h \in Heads |-> 0]
  /\ trimmed = FALSE

(* n tokens enter and every head keeps them.                               *)
Admit(n) ==
  /\ seen' = seen + n
  /\ held' = [h \in Heads |-> held[h] \cup seen..(seen + n - 1)]
  /\ UNCHANGED <<pin, trimmed>>

(* n tokens enter and a round drops tokens from every head.                *)
Round(n) ==
  /\ seen' = seen + n
  /\ IF trimmed THEN UNCHANGED pin ELSE pin' \in [Heads -> 0..(Limit - Window)]
  /\ held' \in [Heads -> SUBSET (0..(seen + n - 1))]
  /\ \A h \in Heads :
       /\ held'[h] \subseteq held[h] \cup seen..(seen + n - 1)
       /\ Cardinality(held'[h]) = Limit
       /\ 0..(pin'[h] - 1) \subseteq held'[h]
       /\ (seen + n - Window)..(seen + n - 1) \subseteq held'[h]
  /\ trimmed' = TRUE

(* The prompt enters as a whole, generated tokens one at a time; a round   *)
(* runs with the token that makes it due, or right behind it (n = 0).      *)
Next ==
  \/ seen = 0 /\ seen' \in Nat \ {0} /\ Admit(seen')
  \/ seen > 0 /\ Admit(1)
  \/ seen > 0 /\ \E n \in {0, 1} : Round(n)

Spec == Init /\ [][Next]_rvars
=============================================================================
