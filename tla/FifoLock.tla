------------------------------ MODULE FifoLock ------------------------------
(***************************************************************************)
(* What the locks of schemat/common/structs.js promise to the code that    *)
(* calls them: for every key there is one line of callers; a caller joins  *)
(* at the end, only the caller at the head is inside, and the next one     *)
(* gets in when the head leaves.  Mutexes.tla shows that the implementation *)
(* keeps this promise; the modules of the storage layer use it in place of *)
(* the implementation.                                                     *)
(***************************************************************************)
EXTENDS Sequences

CONSTANTS Keys,    \* what is locked: one key, or the single key of a Mutex
          Procs    \* calls of run_exclusive()

VARIABLE line      \* line[k]: the callers of key k in the order of arrival

InLine(p) == \E k \in Keys : \E i \in DOMAIN line[k] : line[k][i] = p

Holds(p, k) == line[k] # <<>> /\ Head(line[k]) = p

Init == line = [k \in Keys |-> <<>>]

Join(p, k) == line' = [line EXCEPT ![k] = Append(@, p)]

Leave(p, k) == Holds(p, k) /\ line' = [line EXCEPT ![k] = Tail(@)]

Next == \E p \in Procs, k \in Keys : \/ ~InLine(p) /\ Join(p, k)
                                     \/ Leave(p, k)

Spec == Init /\ [][Next]_line
=============================================================================
