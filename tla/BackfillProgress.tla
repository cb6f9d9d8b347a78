-------------------------- MODULE BackfillProgress --------------------------
(***************************************************************************)
(* How a derived sequence gets to be marked as filled (schemat/db/block.js: *)
(* Monitor, $master.backfill, restart_backfill, __start__ of the source    *)
(* block; schemat/db/sequence.js: _deploy, rebuild, edit.commit_backfill,  *)
(* _add_range).                                                            *)
(*                                                                         *)
(* The progress is known in four places: the Monitor in memory, the        *)
(* backfill file of the block, the list filled_ranges in the record of the *)
(* sequence, with its flag `filled`, and the copy of that record that the  *)
(* process of the source block has loaded.  Each round of the Monitor      *)
(* writes the file and saves a commit_backfill edit of the sequence, which *)
(* is not awaited: such edits may overtake each other, fail, or be lost.   *)
(* Nor is the request for a Monitor that the creation of the sequence sends *)
(* to the source block awaited; the agent of that block, when it starts,   *)
(* makes Monitors only for the sequences it knows from `derived` of the    *)
(* source.  A round that throws leaves a gap: the offset in memory was     *)
(* moved, nothing was sent or reported.                                    *)
(*                                                                         *)
(* The source is one block whose keys 1..NKeys do not change; how changes  *)
(* are captured in the meantime is the matter of ChangeCapture.            *)
(***************************************************************************)
EXTENDS Naturals, Sequences, FiniteSetsExt

CONSTANTS NKeys,        \* keys of the source block
          Limit,        \* batch size of Monitor.backfill(): 100 in the code
          MaxRestarts,  \* bound: restarts of the agent of the source block
          MaxLosses,    \* bound: requests, rounds and commit_backfill edits that fail
          MaxRebuilds   \* bound: rebuilds of the sequence

BackfillProgressAssumption ==
    NKeys \in Nat /\ Limit \in Nat \ {0} /\ {MaxRestarts, MaxLosses, MaxRebuilds} \subseteq Nat

Keys == 1..NKeys
Zero == 0               \* Binary.zero
Null == NKeys + 1       \* null: the upper bound of keys; of an offset: all done
NoFile == NKeys + 2
NoMonitor == NKeys + 2

VARIABLES request,  \* the call of $master.backfill by _deploy() is on its way
          listed,   \* the sequence is in `derived` of the source, as far as the
                    \* process of the source block has loaded it
          offset,   \* Monitor.backfill_offset, NoMonitor if there is no monitor
          file,     \* offset in the backfill file, or NoFile
          edits,    \* commit_backfill edits <<left, right>> not saved yet
          ranges,   \* filled_ranges in the record of the sequence
          filled,   \* filled in that record
          loaded,   \* `filled` as the process of the source block has loaded it
          sent,     \* history: keys whose operations were sent since the last erase
          saved,    \* history: edits saved since the last erase
          lost,     \* history: an edit, a round, the request or the monitor was
                    \* lost since the last erase
          outdated, \* history: a rebuild found the file of an earlier backfill
          used      \* used[x]: how much of bound x is used up

vars == <<request, listed, offset, file, edits, ranges, filled, loaded, sent, saved, lost,
          outdated, used>>

Ranges == {range \in (Zero..NKeys) \X (1..Null) : range[1] < range[2]}

TypeOK == /\ offset \in Zero..Null \union {NoMonitor}
          /\ file \in Zero..Null \union {NoFile}
          /\ edits \subseteq Ranges
          /\ ranges \in Seq(Ranges)
          /\ {request, listed, filled, loaded, lost, outdated} \subseteq BOOLEAN
          /\ sent \subseteq Keys /\ saved \subseteq Ranges
          /\ \A i \in 1..(Len(ranges) - 1) : ranges[i][2] < ranges[i + 1][1]

\* create_derived() is in _deploy(): the request was sent, `derived` is not saved yet.
Init == /\ request = TRUE /\ listed = FALSE
        /\ offset = NoMonitor /\ file = NoFile
        /\ edits = {} /\ ranges = <<>>
        /\ filled = FALSE /\ loaded = FALSE
        /\ sent = {} /\ saved = {} /\ lost = FALSE /\ outdated = FALSE
        /\ used = [restarts |-> 0, losses |-> 0, rebuilds |-> 0]

-----------------------------------------------------------------------------
\* One more of the failures that MaxLosses bounds.
Loss == /\ used.losses < MaxLosses
        /\ used' = [used EXCEPT !.losses = @ + 1]
        /\ lost' = TRUE

\* Monitor.constructor() for a sequence that is not filled, as far as known.
Resumed == IF file = NoFile THEN Zero ELSE file

\* $master.backfill() of the source block: nothing is done if the monitor is there,
\* and a monitor for a sequence that is known to be filled is refused.
Backfill ==
    /\ request
    /\ request' = FALSE
    /\ offset' = IF offset = NoMonitor /\ ~loaded THEN Resumed ELSE offset
    /\ UNCHANGED <<listed, file, edits, ranges, filled, loaded, sent, saved, lost, outdated, used>>

\* The request does not arrive, or is rejected; nobody waits for it.
LoseRequest ==
    /\ request
    /\ Loss
    /\ request' = FALSE
    /\ UNCHANGED <<listed, offset, file, edits, ranges, filled, loaded, sent, saved, outdated>>

\* The creation is saved, and the process of the source block loads the record of
\* the source again.
List ==
    /\ ~listed
    /\ listed' = TRUE
    /\ UNCHANGED <<request, offset, file, edits, ranges, filled, loaded, sent, saved, lost, outdated, used>>

\* The records of one round: the next ones above the offset.
Batch == {k \in Keys : k > offset /\ k <= offset + Limit}

\* The offset after the round: a batch that is not full is the last one.
After == IF offset + Limit > NKeys THEN Null ELSE offset + Limit

\* Mutant of Round: nothing is reported when the scan is over.
Round_SilentEnd ==
    /\ offset < Null
    /\ offset' = After
    /\ file' = After
    /\ edits' = IF After = Null THEN edits ELSE edits \union {<<offset, After>>}
    /\ sent' = sent \union Batch
    /\ UNCHANGED <<request, listed, ranges, filled, loaded, saved, lost, outdated, used>>

\* Monitor.backfill(): the file is written, the edit of the sequence sent off.
Round ==
    /\ offset < Null
    /\ offset' = After
    /\ file' = After
    /\ edits' = edits \union {<<offset, After>>}
    /\ sent' = sent \union Batch
    /\ UNCHANGED <<request, listed, ranges, filled, loaded, saved, lost, outdated, used>>

\* A round that throws, on a record it cannot decode or derive from or when it writes
\* the file: it sends and reports nothing, but the next one goes on from where it was.
RoundFails ==
    /\ offset < Null
    /\ Loss
    /\ offset' \in Batch \union {After}
    /\ UNCHANGED <<request, listed, file, edits, ranges, filled, loaded, sent, saved, outdated>>

\* Sequence._add_range(): ranges below stay, those that overlap or touch the new
\* one are merged with it, ranges above stay.
AddRange(rs, left, right) ==
    LET \* the first range that is not below the new one
        pos == Min({n \in 1..Len(rs) + 1 : n \in DOMAIN rs => rs[n][2] >= left})
        \* upper end of the new one after the merge with the ranges before n
        Reach(n) == Max({right} \union {rs[i][2] : i \in pos..n - 1})
        \* the first range, from there on, that begins above this end
        end == Min({n \in pos..Len(rs) + 1 : n \in DOMAIN rs => rs[n][1] > Reach(n)})
        from == IF pos \in DOMAIN rs /\ rs[pos][1] < left THEN rs[pos][1] ELSE left
    IN SubSeq(rs, 1, pos - 1) \o <<<<from, Reach(end)>>>> \o SubSeq(rs, end, Len(rs))

\* edit.commit_backfill() is applied to the record of the sequence and saved.
CommitBackfill(e) ==
    /\ ranges' = AddRange(ranges, e[1], e[2])
    /\ filled' = (filled \/ ranges' = <<<<Zero, Null>>>>)
    /\ edits' = edits \ {e}
    /\ saved' = saved \union {e}
    /\ UNCHANGED <<request, listed, offset, file, loaded, sent, lost, outdated, used>>

\* The save of an edit fails; nobody waits for it or tries again.
LoseEdit(e) ==
    /\ Loss
    /\ edits' = edits \ {e}
    /\ UNCHANGED <<request, listed, offset, file, ranges, filled, loaded, sent, saved, outdated>>

\* The process of the source block loads the record of the sequence again.
Reload ==
    /\ loaded # filled
    /\ loaded' = filled
    /\ UNCHANGED <<request, listed, offset, file, edits, ranges, filled, sent, saved, lost, outdated, used>>

\* The agent of the source block is started again, if it knows the sequence: its
\* Monitor resumes from the file, which is removed if the sequence is known to be
\* filled.
Restart ==
    /\ listed /\ used.restarts < MaxRestarts
    /\ used' = [used EXCEPT !.restarts = @ + 1]
    /\ offset' = IF loaded THEN Null ELSE Resumed
    /\ file' = IF loaded THEN NoFile ELSE file
    /\ UNCHANGED <<request, listed, edits, ranges, filled, loaded, sent, saved, lost, outdated>>

\* If it does not, the monitor it had is gone.
RestartUnlisted ==
    /\ ~listed /\ used.restarts < MaxRestarts
    /\ used' = [used EXCEPT !.restarts = @ + 1]
    /\ offset' = NoMonitor
    /\ lost' = (lost \/ offset # NoMonitor)
    /\ UNCHANGED <<request, listed, file, edits, ranges, filled, loaded, sent, saved, outdated>>

\* Mutant of Rebuild: the ranges of the earlier backfill are kept.
Rebuild_KeepsRanges ==
    /\ filled /\ used.rebuilds < MaxRebuilds
    /\ used' = [used EXCEPT !.rebuilds = @ + 1]
    /\ filled' = FALSE /\ loaded' = FALSE
    /\ offset' = Resumed
    /\ sent' = {} /\ saved' = {} /\ lost' = FALSE
    /\ outdated' = (file # NoFile)
    /\ UNCHANGED <<request, listed, file, edits, ranges>>

\* Sequence.rebuild(): the sequence is erased, the source block loads its record
\* again and makes a new Monitor, which reads the backfill file.
Rebuild ==
    /\ filled /\ used.rebuilds < MaxRebuilds
    /\ used' = [used EXCEPT !.rebuilds = @ + 1]
    /\ filled' = FALSE /\ ranges' = <<>> /\ loaded' = FALSE
    /\ offset' = Resumed
    /\ sent' = {} /\ saved' = {} /\ lost' = FALSE
    /\ outdated' = (file # NoFile)
    /\ UNCHANGED <<request, listed, file, edits>>

\* restart_backfill() is rejected: the process of the source block has not loaded the
\* record of the sequence in the time it is given, or the call fails.  The sequence is
\* erased, the monitor stays as it is.
RebuildFails ==
    /\ filled /\ used.rebuilds < MaxRebuilds
    /\ used.losses < MaxLosses
    /\ used' = [used EXCEPT !.rebuilds = @ + 1, !.losses = @ + 1]
    /\ filled' = FALSE /\ ranges' = <<>>
    /\ sent' = {} /\ saved' = {} /\ lost' = TRUE
    /\ outdated' = (file # NoFile)
    /\ UNCHANGED <<request, listed, offset, file, edits, loaded>>

Next == \/ Backfill \/ LoseRequest \/ List \/ Round \/ RoundFails
        \/ Reload \/ Restart \/ RestartUnlisted \/ Rebuild \/ RebuildFails
        \/ \E e \in edits : CommitBackfill(e) \/ LoseEdit(e)

Spec == Init /\ [][Next]_vars

\* The request arrives or gets lost, the frame calls background() again and again, and
\* edits that are sent are saved in the end or fail.
Fairness == /\ WF_vars(Backfill) /\ WF_vars(Round)
            /\ WF_vars(\E e \in edits : CommitBackfill(e))
FairSpec == Spec /\ Fairness

-----------------------------------------------------------------------------

\* A sequence that is marked as filled was sent every record of the source.
FilledIsComplete == filled => sent = Keys

\* Every backfill ends with the sequence marked as filled, unless the request for the
\* monitor, a round or an edit was lost, the agent was started again before it knew of
\* the sequence, or a rebuild failed or found the file of an earlier backfill.
FillsUnlessDisturbed == ~filled ~> (filled \/ lost \/ outdated)

=============================================================================
