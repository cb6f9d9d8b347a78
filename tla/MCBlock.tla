------------------------------ MODULE MCBlock ------------------------------
(* The locks of a data block (Mutexes) and the ids that it gives out (IdAssignment), side by side: `part` picks one of them,
   and the variables of the other keep one value. *)
EXTENDS Mutexes

CONSTANTS Bounds, ShardedFrom, RingShards, MaxRings, MaxId,                                 \* IdAssignment, with its rings
          Inserts, BlockShards, Modes, Overrides, FixedIds, MaxLower, MaxEntries, MaxRestarts

VARIABLES part,
          stack, block, shard, mode, lower, store, auto, reserved, pending, saving, restarts, strayed, removed
idvars == <<stack, block, shard, mode, lower, store, auto, reserved, pending, saving, restarts, strayed, removed>>
blockvars == <<part, vars, idvars>>

Ids == INSTANCE IdAssignment WITH Calls <- Inserts

\* Two shards of the rings, and a block with and without a shard
MCRingShards == {[offset |-> 0, base |-> 3], [offset |-> 1, base |-> 3]}
MCBlockShards == {[offset |-> 0, base |-> 0], [offset |-> 1, base |-> 2]}

ASSUME BlockAssumption == Ids!IdsAssumption

BlockInit == /\ part \in {"locks", "ids"}
             /\ Init /\ (part # "locks" => key = [p \in Procs |-> CHOOSE k \in Keys : TRUE])
             /\ Ids!InitBlock
             /\ part # "ids" => shard = (CHOOSE s \in BlockShards : TRUE) /\ mode = (CHOOSE m \in Modes : TRUE)
BlockNext == \/ part = "locks" /\ Next /\ UNCHANGED <<part, idvars>>
             \/ part = "ids" /\ Ids!NextBlock /\ UNCHANGED <<part, vars>>
             \/ part = "ids" /\ UNCHANGED blockvars    \* inserts end at their bounds; for locks deadlock is checked
BlockSpec == BlockInit /\ [][BlockNext]_blockvars /\ Fairness

----------------------------------------------------------------------------
\* No id is given twice, and new ones fit into the zones and shards (IdAssignment).
IdsAreSound == Ids!NoIdTwice /\ Ids!CandidatesFit
=============================================================================
