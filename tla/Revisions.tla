------------------------------ MODULE Revisions ------------------------------
(* Versions of web objects (schemat/core/object.js: _bump_version, _create_revision, _seal_dependencies, _sync_dependencies,
   edit.assert_version, edit.overwrite; schemat/core/schemat.js: get_version; schemat/core/revision.js). An update gives the
   object the next version number, keeps the record it replaces in a Revision that the new one points to, and writes down
   the versions of the prototypes and categories, which are then loaded in these versions. A client may ask that its edits
   are applied only to the version it saw. The row of the object is locked during an update. Content is the number of the
   update that wrote it. *)
EXTENDS Naturals, Sequences, FiniteSets

CONSTANTS Objects,
          Deps,         \* [Objects -> sequences of objects]: prototypes and categories
          Settings,     \* choices of [numbered, archived, sealing]: objects whose category sets __ver, __prev, __seal
          Processes,
          Home,         \* the process of the data block
          NoSeal, None,
          MaxUpdates    \* bound

VARIABLES set,          \* the setting
          record,       \* records in the database [content, ver, prev, seal]; 0 for no version and no revision
          revisions,    \* content of all Revisions, in the order they were made
          copies,       \* copies[p][o]: record of o that process p has loaded
          scanned,      \* records read by a scan that may write them again (Database._update_references)
          job,          \* [record, held, outdated]: the update of each object that is going on
          updates,
          saved,        \* history: saved[o][v], the last record of o with version v
          blind,        \* history: objects whose checked edits were applied to another record than the client saw
          outdated      \* history: objects overwritten with data that was not the latest
revvars == <<set, record, revisions, copies, scanned, job, updates, saved, blind, outdated>>

RevisionsAssumption == MaxUpdates \in Nat /\ Home \in Processes /\ Deps \in [Objects -> Seq(Objects)]
                       /\ \A s \in Settings : s.numbered \subseteq Objects

NoSuchVersion == [content |-> None]

----------------------------------------------------------------------------
\* get_version(): from the given record back along __prev, as long as the version is greater.
Restore(rev) == revisions[rev]
GetVersion(r, v) ==
    LET From(s, back) == IF s.ver > v THEN back[s.prev] ELSE IF s.ver = v THEN s ELSE NoSuchVersion
        back[i \in 0 .. Len(revisions)] == IF i = 0 THEN NoSuchVersion ELSE From(Restore(i), back)
    IN From(r, back)

\* _sync_dependencies(): the records of the dependencies an object is linked to when its record r is loaded in process p.
Dependencies(p, o, r) ==
    [i \in DOMAIN Deps[o] |-> LET d == copies[p][Deps[o][i]]
                              IN IF r.seal = NoSeal \/ d.ver = r.seal[i] THEN d ELSE GetVersion(d, r.seal[i])]
Loadable(p, o, r) == \A i \in DOMAIN Deps[o] : Dependencies(p, o, r)[i] # NoSuchVersion

\* _seal_dependencies(): the versions of the dependencies, which must all have been sealed themselves.
CanSeal(o, ver, deps) == ver > 0 /\ \A i \in DOMAIN deps : deps[i].ver > 0 /\ deps[i].seal # NoSeal
SealOf(o, deps) == IF o \in set.sealing THEN [i \in DOMAIN deps |-> deps[i].ver] ELSE NoSeal

\* _bump_version()
Bumped_Numbered(o, ver) == IF o \in set.numbered /\ ver = 0 THEN 1 ELSE ver      \* mutant: only the first version is numbered
Bumped(o, ver) == IF ver > 0 \/ o \in set.numbered THEN ver + 1 ELSE 0

----------------------------------------------------------------------------
NoJob == [record |-> None, held |-> None]
Newborn(o) == [content |-> 0, ver |-> IF o \in set.numbered THEN 1 ELSE 0, prev |-> 0,
               seal |-> IF o \in set.sealing THEN [i \in DOMAIN Deps[o] |-> 1] ELSE NoSeal]
Init == /\ set \in Settings
        /\ record = [o \in Objects |-> Newborn(o)]
        /\ revisions = << >> /\ updates = 0
        /\ copies = [p \in Processes |-> record] /\ scanned = record
        /\ job = [o \in Objects |-> NoJob]
        /\ saved = [o \in Objects |-> [v \in {record[o].ver} |-> record[o]]]
        /\ blind = {} /\ outdated = {}

\* A process gets a fresh copy; a scan reads the record.
Load(p, o) == /\ copies[p][o] # record[o]
              /\ copies' = [copies EXCEPT ![p][o] = record[o]]
              /\ UNCHANGED <<set, record, revisions, scanned, job, updates, saved, blind, outdated>>
Scan(o) == /\ scanned[o] # record[o]
           /\ scanned' = [scanned EXCEPT ![o] = record[o]]
           /\ UNCHANGED <<set, record, revisions, copies, job, updates, saved, blind, outdated>>

(* The block locks the row and computes the new record: `base` is what the edits leave of the properties __ver and __prev, and
   `deps` the dependencies, those that the former record was sealed with unless the edits link to others. A Revision of the
   former record is saved at once. *)
PrevOf(o, base) == IF o \in set.archived THEN Len(revisions) + 1 ELSE base.prev
Revised(o, former) == IF o \in set.archived THEN Append(revisions, former) ELSE revisions
Compute(o, base, deps, old) ==
    LET ver == Bumped(o, base.ver)
    IN /\ job[o] = NoJob /\ updates < MaxUpdates /\ updates' = updates + 1
       /\ Loadable(Home, o, record[o])
       /\ o \in set.sealing => CanSeal(o, ver, deps)
       /\ job' = [job EXCEPT ![o] = [record |-> [content |-> updates', ver |-> ver, prev |-> PrevOf(o, base), seal |-> SealOf(o, deps)],
                                     held |-> old]]
       /\ revisions' = Revised(o, record[o])
       /\ UNCHANGED <<set, record, copies, scanned, saved>>

Pinned(o) == Dependencies(Home, o, record[o])
Current(o) == [i \in DOMAIN Deps[o] |-> copies[Home][Deps[o][i]]]
Update(o) == Compute(o, record[o], Pinned(o), FALSE) /\ UNCHANGED <<blind, outdated>>
Relink(o) == /\ Deps[o] # << >> /\ Compute(o, record[o], Current(o), FALSE) /\ UNCHANGED <<blind, outdated>>

\* edit.assert_version() of the version of the client's copy comes before the edits.
SameVersion(p, o) == copies[p][o].ver = record[o].ver
UpdateChecked(p, o) ==
    /\ copies[p][o].ver > 0 /\ SameVersion(p, o)
    /\ Compute(o, record[o], Pinned(o), FALSE)
    /\ blind' = IF copies[p][o].content # record[o].content THEN blind \cup {o} ELSE blind
    /\ UNCHANGED outdated

\* edit.overwrite() replaces all properties, these included.
Overwrite(o) == Compute(o, scanned[o], Current(o), scanned[o] # record[o]) /\ UNCHANGED <<blind, outdated>>

\* The record is written, by upsave in a higher ring if need be; or not, and then the Revision stays.
Write(o) == /\ job[o] # NoJob
            /\ record' = [record EXCEPT ![o] = job[o].record]
            /\ saved' = [saved EXCEPT ![o] = [v \in DOMAIN @ \cup {job[o].record.ver} |->
                                                 IF v = job[o].record.ver THEN job[o].record ELSE @[v]]]
            /\ outdated' = IF job[o].held THEN outdated \cup {o} ELSE outdated
            /\ job' = [job EXCEPT ![o] = NoJob]
            /\ UNCHANGED <<set, revisions, copies, scanned, updates, blind>>
Abandon(o) == /\ job[o] # NoJob
              /\ job' = [job EXCEPT ![o] = NoJob]
              /\ UNCHANGED <<set, record, revisions, copies, scanned, updates, saved, blind, outdated>>

Next == \E o \in Objects : \/ Update(o) \/ Relink(o) \/ Overwrite(o) \/ Write(o) \/ Abandon(o) \/ Scan(o)
                           \/ \E p \in Processes : Load(p, o) \/ UpdateChecked(p, o)
Spec == Init /\ [][Next]_revvars

----------------------------------------------------------------------------
(* Edits with a version check are applied to the record that the client saw (edit.assert_version, add_version_check()), unless
   the object was overwritten with data read before an update: then two records had the same version. *)
ChecksHold == blind \subseteq outdated

(* Every version of an object that keeps revisions can be got back as it was (get_version()), whatever happened to updates
   that failed, with the same exception. *)
VersionsReadBack ==
    \A o \in (set.numbered \cap set.archived) \ outdated :
        \A v \in 1 .. record[o].ver : GetVersion(record[o], v) = saved[o][v]

(* An object with a seal can be loaded by each process that has copies of its dependencies no older than the seal, if these
   keep revisions, and were not overwritten. *)
SealedLoads ==
    \A p \in Processes, o \in Objects :
        LET sealed == {i \in DOMAIN Deps[o] : record[o].seal # NoSeal}
            Kept(i) == LET d == Deps[o][i] IN d \in set.archived \ outdated /\ copies[p][d].ver >= record[o].seal[i]
        IN (\A i \in sealed : Kept(i)) => Loadable(p, o, record[o])

VersionsAreSound == ChecksHold /\ VersionsReadBack /\ SealedLoads
=============================================================================
