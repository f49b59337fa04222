----------------------------- MODULE DurableMap -----------------------------
(***************************************************************************)
(* What a store with a data directory promises: a map.  An operation that  *)
(* puts an entry does so at once or not at all, a Get returns what the map *)
(* holds, and nothing else changes either, however often the server stops. *)
(***************************************************************************)
CONSTANTS
    Keys,       \* shortcodes
    Values,     \* entries
    None        \* no entry

VARIABLES
    map,        \* the entry of each key
    answer      \* what the latest Get returned

vars == <<map, answer>>

Init ==
    /\ map = [k \in Keys |-> None]
    /\ answer = None

Put(k, e) ==
    /\ map' = [map EXCEPT ![k] = e]
    /\ UNCHANGED answer

Get(k) ==
    /\ answer' = map[k]
    /\ UNCHANGED map

Next == \E k \in Keys : Get(k) \/ \E e \in Values : Put(k, e)

Spec == Init /\ [][Next]_vars
=============================================================================
