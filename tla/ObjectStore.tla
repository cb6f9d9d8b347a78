---------------------------- MODULE ObjectStore ----------------------------
(***************************************************************************)
(* What a stack of rings promises to its clients about one object: its     *)
(* copies form a pile, the topmost one is the object; an update changes    *)
(* the object as it is at that moment, once, or puts a changed copy on top *)
(* of a copy that is read-only; a deletion takes the topmost copy away; a  *)
(* select returns the object as it was at some moment during the call; a   *)
(* call that fails changes nothing.  RingStack is shown to implement it.   *)
(*                                                                         *)
(* A copy is the set of updates that it contains.                          *)
(***************************************************************************)
EXTENDS Sequences

CONSTANT Calls      \* select, update and delete calls, each made once

VARIABLES copies,   \* the copies, the topmost one first
          answer,   \* answer[c]: outcome of call c and the value it returns
          seen      \* seen[c]: what the object has been since call c started

vars == <<copies, answer, seen>>

Missing == {"missing"}      \* the object does not exist
Visible(pile) == IF pile = <<>> THEN Missing ELSE Head(pile)

Init == /\ answer = [c \in Calls |-> <<"none", Missing>>]
        /\ seen = [c \in Calls |-> {}]

Open(c) == answer[c][1] = "none"

Start(c) == /\ Open(c) /\ seen[c] = {}
            /\ seen' = [seen EXCEPT ![c] = {Visible(copies)}]
            /\ UNCHANGED <<copies, answer>>

\* Call c, which is open, ends with outcome a and leaves the pile as `pile`.
Take(c, a, pile) ==
    /\ Open(c) /\ seen[c] # {}
    /\ copies' = pile
    /\ answer' = [answer EXCEPT ![c] = a]
    /\ seen' = [d \in Calls |-> IF seen[d] # {} /\ Open(d)
                                THEN seen[d] \union {Visible(pile)} ELSE seen[d]]

Select(c) == \E v \in seen[c] : Take(c, <<"value", v>>, copies)
Nothing(c) == Missing \in seen[c] /\ Take(c, <<"nothing", Missing>>, copies)
Update(c) == copies # <<>> /\ Take(c, <<"done", Missing>>, <<Head(copies) \union {c}>> \o Tail(copies))
Cover(c) == copies # <<>> /\ Take(c, <<"done", Missing>>, <<Head(copies) \union {c}>> \o copies)
Delete(c) == copies # <<>> /\ Take(c, <<"done", Missing>>, Tail(copies))

\* One or, if a process dies, several calls fail.
Fail(cs) ==
    /\ \A c \in cs : Open(c) /\ seen[c] # {}
    /\ answer' = [c \in Calls |-> IF c \in cs THEN <<"failed", Missing>> ELSE answer[c]]
    /\ UNCHANGED <<copies, seen>>

Next == \/ \E c \in Calls : \/ Start(c) \/ Select(c) \/ Nothing(c)
                            \/ Update(c) \/ Cover(c) \/ Delete(c)
        \/ \E cs \in SUBSET Calls : Fail(cs)

Spec == Init /\ [][Next]_vars
=============================================================================
