-------------------------------- MODULE Slots --------------------------------
(***************************************************************************)
(* What the bulk slots promise: at most Concurrency requests hold one, and *)
(* a request is turned away only while all of them are held.               *)
(***************************************************************************)
EXTENDS Naturals, FiniteSets

CONSTANTS Handler, Concurrency

VARIABLES
    held,       \* requests that hold a slot
    limited     \* requests answered 429

vars == <<held, limited>>

Init == held = {} /\ limited = {}

Take(c) ==
    /\ c \notin held /\ Cardinality(held) < Concurrency
    /\ held' = held \cup {c}
    /\ UNCHANGED limited

Limit(c) ==
    /\ c \notin held /\ Cardinality(held) = Concurrency
    /\ limited' = limited \cup {c}
    /\ UNCHANGED held

Free(c) ==
    /\ c \in held
    /\ held' = held \ {c}
    /\ UNCHANGED limited

Forget(c) ==
    /\ limited' = limited \ {c}
    /\ UNCHANGED held

Next == \E c \in Handler : Take(c) \/ Limit(c) \/ Free(c) \/ Forget(c)

Spec == Init /\ [][Next]_vars

=============================================================================
