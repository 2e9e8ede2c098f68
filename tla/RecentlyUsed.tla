----------------------------- MODULE RecentlyUsed -----------------------------
(***************************************************************************)
(* What a cache promises that keeps what was used last: it holds what is   *)
(* used, never more than its capacity, and gives up the key that was not   *)
(* used for the longest time, and only to make room.  Its owner may drop   *)
(* any keys at any time; the order of the others is not touched by that.   *)
(***************************************************************************)
EXTENDS Integers, FiniteSets

CONSTANTS Keys, Cap

VARIABLES
    held,      \* the keys in the cache
    before     \* <<x, y>>: both are held and x was not used since y was

vars == <<held, before>>

Init == held = {} /\ before = {}

\* Among the keys S, k is the one used last.
UsedLast(S, k) == {p \in before : {p[1], p[2]} \subseteq S \ {k}} \cup (S \ {k}) \X {k}

\* There is room for k.
Keep(k) ==
    /\ Cardinality(held \cup {k}) <= Cap
    /\ held' = held \cup {k}
    /\ before' = UsedLast(held', k)

\* k takes the place of the key that was not used for the longest time.
Replace(k) ==
    /\ Cardinality(held \cup {k}) > Cap
    /\ \E v \in held \ {k} :
          /\ \A w \in held \ {k, v} : <<v, w>> \in before
          /\ held' = (held \ {v}) \cup {k}
    /\ before' = UsedLast(held', k)

Drop(S) ==
    /\ held' = held \ S
    /\ before' = {p \in before : {p[1], p[2]} \cap S = {}}

Next ==
    \/ \E S \in SUBSET held : Drop(S)
    \/ \E k \in Keys : Keep(k) \/ Replace(k)

Spec == Init /\ [][Next]_vars

=============================================================================
