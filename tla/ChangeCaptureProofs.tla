------------------------- MODULE ChangeCaptureProofs -------------------------
(***************************************************************************)
(* What a write call has read stays current until it stores, and the index *)
(* follows the records of the block except for the changes that the history *)
(* variable names: for any number of writers, keys and features, any batch *)
(* size and any bounds of ChangeCapture.                                   *)
(*                                                                         *)
(* First part: ReadStaysCurrent alone is not inductive.  An update or      *)
(* delete is safe from others of its kind since it stands at the head of   *)
(* the line of its row from the reading on (RowKept); inserts, which take  *)
(* no row lock, are safe from each other since ids are unique              *)
(* (InsertsApart); and the two kinds do not meet, since one of them found  *)
(* the record and the other did not (PrevFitsEdit).                        *)
(*                                                                         *)
(* Second part: what the index will have is decided entry by entry by the  *)
(* last of the operations on it that are on their way or wait to be sent;  *)
(* lemmas say how these sequences grow, shrink and are reordered.          *)
(* IndexFollowsStoreUnlessMissed is not inductive.  A record changes in    *)
(* the store when its operations were derived already, from a record and   *)
(* an offset read earlier: the record is still there (ReadStaysCurrent),   *)
(* and the offset has not passed the key, or the key is named              *)
(* (DerivedInTime).  The operations not sent yet are those of one caller,  *)
(* as it holds the block-wide lock from storing or scanning to sending     *)
(* (Locked).  A crash takes the offset back to the file: nothing beyond    *)
(* the offset that the round began with may have reached the index         *)
(* (Captured), and that offset is the one in the file unless a round has   *)
(* failed since, when the history names the keys between (OffsetSaved).    *)
(***************************************************************************)
EXTENDS ChangeCapture, SequenceTheorems, FiniteSetTheorems, WellFoundedInduction, TLAPS

\* A call is idle, or a record with the fields of Call.
IsCall(c) == \/ c = Idle
             \/ /\ c = Call(c.pc, c.key, c.edit, c.prev, c.ops)
                /\ c.pc \in {"row", "derive", "all", "stored", "exit"}
                /\ c.key \in Keys
                /\ c.edit.kind \in {"insert", "add", "remove", "delete"}

WellFormed == /\ rows \in [Keys -> Seq(Writers)]
              /\ DOMAIN call = Writers
              /\ \A w \in Writers : IsCall(call[w])
              /\ DOMAIN store = Keys
              /\ \A k \in Keys : ~store[k].exists => store[k] = Absent

IsInsert(c) == c.edit.kind = "insert"
HasRow(c) == c.pc \in {"derive", "all", "stored", "exit"} /\ ~IsInsert(c)
Relies(c) == c.pc \in {"derive", "all"}

RowKept == \A w \in Writers : HasRow(call[w]) => Row!Holds(w, call[w].key)

InsertsApart ==
    \A v, w \in Writers : /\ call[v] # Idle /\ IsInsert(call[v])
                          /\ call[w] # Idle /\ IsInsert(call[w])
                          /\ call[v].key = call[w].key
                          => v = w

FitsEdit(c) == /\ c.pc \in {"row", "exit"} => ~IsInsert(c)
               /\ Relies(c) => (c.prev.exists <=> ~IsInsert(c))

PrevFitsEdit == \A w \in Writers : FitsEdit(call[w])

Inv == WellFormed /\ RowKept /\ InsertsApart /\ PrevFitsEdit /\ ReadStaysCurrent

-----------------------------------------------------------------------------
\* The fields of a call that is not idle.
LEMMA CallFields ==
    ASSUME NEW pc, NEW k, NEW edit, NEW prev, NEW ops
    PROVE  LET c == Call(pc, k, edit, prev, ops)
           IN c.pc = pc /\ c.key = k /\ c.edit = edit /\ c.prev = prev /\ c.ops = ops
  BY DEF Call

\* A call that goes on without new values.
LEMMA CallUpdates ==
    ASSUME NEW c, c = Call(c.pc, c.key, c.edit, c.prev, c.ops), NEW pc
    PROVE  [c EXCEPT !.pc = pc] = Call(pc, c.key, c.edit, c.prev, c.ops)
<1>1. PICK p, k, e, v, o : p = c.pc /\ k = c.key /\ e = c.edit /\ v = c.prev /\ o = c.ops
  OBVIOUS
<1>2. c = [pc |-> p, key |-> k, edit |-> e, prev |-> v, ops |-> o]
  BY <1>1, Zenon DEF Call
<1>3. [c EXCEPT !.pc = pc] = [pc |-> pc, key |-> k, edit |-> e, prev |-> v, ops |-> o]
  BY <1>2
<1> QED BY <1>1, <1>3 DEF Call

\* An idle call neither holds a row nor relies on a record.
LEMMA IdleFits ==
    /\ IsCall(Idle) /\ ~HasRow(Idle) /\ ~Relies(Idle) /\ FitsEdit(Idle)
    /\ Idle.pc = "idle"
  BY DEF IsCall, HasRow, Relies, FitsEdit, Idle

\* A record made by Call, of a key and an edit, is a call and not idle.
LEMMA CallIsCall ==
    ASSUME NEW pc \in {"row", "derive", "all", "stored", "exit"}, NEW k \in Keys,
           NEW edit, edit.kind \in {"insert", "add", "remove", "delete"}, NEW prev, NEW ops
    PROVE  IsCall(Call(pc, k, edit, prev, ops)) /\ Call(pc, k, edit, prev, ops) # Idle
  BY CallFields, IdleFits DEF IsCall

\* A caller that joins a line comes after those that are in it.
LEMMA JoinKeepsHolders ==
    ASSUME WellFormed, NEW w \in Writers, NEW k \in Keys, Row!Join(w, k)
    PROVE  /\ rows' \in [Keys -> Seq(Writers)]
           /\ \A v \in Writers, l \in Keys : Row!Holds(v, l) => Row!Holds(v, l)'
<1>1. /\ rows[k] \in Seq(Writers)
      /\ rows' = [rows EXCEPT ![k] = Append(rows[k], w)]
  BY DEF WellFormed, Row!Join
<1>2. /\ Append(rows[k], w) \in Seq(Writers)
      /\ Append(rows[k], w) # <<>>
      /\ rows[k] # <<>> => Head(Append(rows[k], w)) = Head(rows[k])
  BY <1>1
<1> QED BY <1>1, <1>2 DEF WellFormed, Row!Holds

\* The caller that leaves a line is its head: no other one loses its place.
LEMMA LeaveKeepsHolders ==
    ASSUME WellFormed, NEW w \in Writers, NEW k \in Keys, Row!Leave(w, k)
    PROVE  /\ rows' \in [Keys -> Seq(Writers)]
           /\ \A v \in Writers \ {w}, l \in Keys : Row!Holds(v, l) => Row!Holds(v, l)'
<1>1. /\ rows[k] \in Seq(Writers) /\ rows[k] # <<>> /\ Head(rows[k]) = w
      /\ rows' = [rows EXCEPT ![k] = Tail(rows[k])]
  BY DEF WellFormed, Row!Leave, Row!Holds
<1>2. Tail(rows[k]) \in Seq(Writers)
  BY <1>1
<1> QED BY <1>1, <1>2 DEF WellFormed, Row!Holds

\* A step of one call that leaves the records alone.
LEMMA OneCallInv ==
    ASSUME Inv, NEW w \in Writers, NEW c, IsCall(c),
           DOMAIN call' = Writers, call'[w] = c,
           \A v \in Writers \ {w} : call'[v] = call[v],
           store' = store,
           rows' \in [Keys -> Seq(Writers)],
           \A v \in Writers \ {w}, k \in Keys : Row!Holds(v, k) => Row!Holds(v, k)',
           HasRow(c) => Row!Holds(w, c.key)',
           c # Idle /\ IsInsert(c) =>
               \A v \in Writers \ {w} : call[v] # Idle /\ IsInsert(call[v]) => call[v].key # c.key,
           FitsEdit(c),
           Relies(c) => store[c.key] = c.prev
    PROVE  Inv'
<1>1. WellFormed'
  BY DEF Inv, WellFormed
<1>2. RowKept'
  <2>1. \A v \in Writers \ {w} : HasRow(call[v]) => call[v].key \in Keys
    BY IdleFits DEF Inv, WellFormed, IsCall
  <2> QED BY <2>1 DEF Inv, RowKept
<1>3. InsertsApart'
  BY DEF Inv, InsertsApart
<1>4. PrevFitsEdit'
  BY DEF Inv, PrevFitsEdit
<1>5. ReadStaysCurrent'
  BY DEF Inv, ReadStaysCurrent, Relies
<1> QED BY <1>1, <1>2, <1>3, <1>4, <1>5 DEF Inv

-----------------------------------------------------------------------------
\* The invariant holds as long as no call was made.
LEMMA InitInv == Init => Inv
<1> SUFFICES ASSUME Init PROVE Inv
  OBVIOUS
<1>1. /\ rows = [k \in Keys |-> <<>>] /\ call = [w \in Writers |-> Idle]
      /\ DOMAIN store = Keys
      /\ \A k \in Keys : ~store[k].exists => store[k] = Absent
  BY DEF Init, Records, Record
<1>2. WellFormed
  BY <1>1, IdleFits DEF WellFormed
<1> QED BY <1>1, <1>2, IdleFits DEF Inv, RowKept, InsertsApart, PrevFitsEdit,
           ReadStaysCurrent, Relies

\* Steps of the background task and of the derived block.
LEMMA OthersInv ==
    ASSUME Inv, UNCHANGED <<rows, store, call>>
    PROVE  Inv'
  BY DEF Inv, WellFormed, RowKept, InsertsApart, PrevFitsEdit, ReadStaysCurrent, Row!Holds

\* A crash ends all calls.
LEMMA CrashInv ==
    ASSUME Inv, Crash
    PROVE  Inv'
<1>1. /\ rows' = [k \in Keys |-> <<>>] /\ call' = [w \in Writers |-> Idle]
      /\ store' = store
  BY DEF Crash
<1>2. WellFormed'
  BY <1>1, IdleFits DEF Inv, WellFormed
<1> QED BY <1>1, <1>2, IdleFits DEF Inv, RowKept, InsertsApart, PrevFitsEdit,
           ReadStaysCurrent, Relies

\* The edits are of the four kinds.
LEMMA EditKinds ==
    ASSUME NEW edit \in Edits
    PROVE  edit.kind \in {"insert", "add", "remove", "delete"}
  BY DEF Edits

\* An insert starts: the record is not there and nobody else inserts it.
LEMMA InsertInv ==
    ASSUME Inv, NEW w \in Writers, NEW k \in Keys, NEW edit \in Edits, Insert(w, k, edit)
    PROVE  Inv'
<1>1. PICK c : c = Call("derive", k, edit, Absent, <<>>)
  OBVIOUS
<1>2. /\ call[w] = Idle /\ edit.kind = "insert"
      /\ ~store[k].exists
      /\ \A v \in Writers : call[v] # Idle => ~(call[v].key = k /\ IsInsert(call[v]))
      /\ call' = [call EXCEPT ![w] = c]
      /\ rows' = rows /\ store' = store
  BY <1>1 DEF Insert, IsInsert
<1>3. c.pc = "derive" /\ c.key = k /\ c.edit = edit /\ c.prev = Absent
  BY <1>1, CallFields
<1>4. IsCall(c)
  BY <1>1, EditKinds, CallIsCall
<1>5. store[k] = Absent
  BY <1>2 DEF Inv, WellFormed
<1>6. /\ DOMAIN call' = Writers /\ call'[w] = c
      /\ \A v \in Writers \ {w} : call'[v] = call[v]
      /\ rows' \in [Keys -> Seq(Writers)]
      /\ \A v \in Writers \ {w}, l \in Keys : Row!Holds(v, l) => Row!Holds(v, l)'
  BY <1>2 DEF Inv, WellFormed, Row!Holds
<1>7. ~HasRow(c) /\ FitsEdit(c)
  BY <1>2, <1>3 DEF HasRow, FitsEdit, IsInsert, Relies, Absent
<1>8. \A v \in Writers \ {w} : call[v] # Idle /\ IsInsert(call[v]) => call[v].key # c.key
  BY <1>2, <1>3
<1>9. store[c.key] = c.prev
  BY <1>3, <1>5
<1> QED BY <1>2, <1>4, <1>6, <1>7, <1>8, <1>9, OneCallInv

\* An update or delete queues for its row.
LEMMA AskRowInv ==
    ASSUME Inv, NEW w \in Writers, NEW k \in Keys, NEW edit \in Edits, AskRow(w, k, edit)
    PROVE  Inv'
<1>1. PICK c : c = Call("row", k, edit, Absent, <<>>)
  OBVIOUS
<1>2. /\ edit.kind # "insert" /\ Row!Join(w, k) /\ store' = store
      /\ call' = [call EXCEPT ![w] = c]
  BY <1>1 DEF AskRow
<1>3. c.pc = "row" /\ c.key = k /\ c.edit = edit
  BY <1>1, CallFields
<1>4. IsCall(c)
  BY <1>1, EditKinds, CallIsCall
<1>5. /\ rows' \in [Keys -> Seq(Writers)]
      /\ \A v \in Writers, l \in Keys : Row!Holds(v, l) => Row!Holds(v, l)'
  BY <1>2, JoinKeepsHolders DEF Inv
<1>6. /\ DOMAIN call' = Writers /\ call'[w] = c
      /\ \A v \in Writers \ {w} : call'[v] = call[v]
  BY <1>2 DEF Inv, WellFormed
<1>7. ~HasRow(c) /\ ~Relies(c) /\ FitsEdit(c) /\ ~IsInsert(c)
  BY <1>2, <1>3 DEF HasRow, FitsEdit, IsInsert, Relies
<1> QED BY <1>2, <1>4, <1>5, <1>6, <1>7, OneCallInv

\* The fields of a call that is somewhere on its way.
LEMMA CallOnItsWay ==
    ASSUME Inv, NEW w \in Writers, call[w].pc # "idle"
    PROVE  /\ call[w] # Idle
           /\ call[w] = Call(call[w].pc, call[w].key, call[w].edit, call[w].prev, call[w].ops)
           /\ call[w].key \in Keys
           /\ call[w].edit.kind \in {"insert", "add", "remove", "delete"}
  BY IdleFits DEF Inv, WellFormed, IsCall

\* A call ends and leaves its row, as ReadNothing and Exit do.
LEMMA LeaveRowInv ==
    ASSUME Inv, NEW w \in Writers, call[w].pc # "idle",
           Row!Leave(w, call[w].key), call' = [call EXCEPT ![w] = Idle], store' = store
    PROVE  Inv'
<1>1. /\ rows' \in [Keys -> Seq(Writers)]
      /\ \A v \in Writers \ {w}, l \in Keys : Row!Holds(v, l) => Row!Holds(v, l)'
  BY CallOnItsWay, LeaveKeepsHolders DEF Inv
<1>2. /\ DOMAIN call' = Writers /\ call'[w] = Idle
      /\ \A v \in Writers \ {w} : call'[v] = call[v]
  BY DEF Inv, WellFormed
<1> QED BY <1>1, <1>2, IdleFits, OneCallInv

\* A step of a call that leaves lines of rows and records alone and goes on with
\* the same key and edit, knowing what it must.
LEMMA GoOnInv ==
    ASSUME Inv, NEW w \in Writers, call[w].pc # "idle",
           NEW pc \in {"row", "derive", "all", "stored", "exit"}, NEW prev, NEW ops,
           call' = [call EXCEPT ![w] = Call(pc, call[w].key, call[w].edit, prev, ops)],
           store' = store, rows' = rows,
           ~IsInsert(call[w]) => Row!Holds(w, call[w].key),
           pc \in {"row", "exit"} => ~IsInsert(call[w]),
           pc \in {"derive", "all"} => /\ prev.exists <=> ~IsInsert(call[w])
                                       /\ store[call[w].key] = prev
    PROVE  Inv'
<1>1. PICK c : c = Call(pc, call[w].key, call[w].edit, prev, ops)
  OBVIOUS
<1>2. c.pc = pc /\ c.key = call[w].key /\ c.edit = call[w].edit /\ c.prev = prev
  BY <1>1, CallFields
<1>3. IsCall(c)
  BY <1>1, CallOnItsWay, CallIsCall
<1>4. /\ DOMAIN call' = Writers /\ call'[w] = c
      /\ \A v \in Writers \ {w} : call'[v] = call[v]
      /\ rows' \in [Keys -> Seq(Writers)]
      /\ \A v \in Writers, l \in Keys : Row!Holds(v, l) => Row!Holds(v, l)'
  BY <1>1 DEF Inv, WellFormed, Row!Holds
<1>5. IsInsert(c) <=> IsInsert(call[w])
  BY <1>2 DEF IsInsert
<1>6. HasRow(c) => Row!Holds(w, c.key)'
  BY <1>2, <1>4, <1>5, CallOnItsWay DEF HasRow
<1>7. IsInsert(c) =>
         \A v \in Writers \ {w} : call[v] # Idle /\ IsInsert(call[v]) => call[v].key # c.key
  BY <1>2, <1>5, CallOnItsWay DEF Inv, InsertsApart
<1>8. FitsEdit(c) /\ (Relies(c) => store[c.key] = c.prev)
  BY <1>2, <1>5 DEF FitsEdit, Relies
<1> QED BY <1>3, <1>4, <1>6, <1>7, <1>8, OneCallInv

\* The record is read and is what the call relies on from here.
LEMMA ReadInv ==
    ASSUME Inv, NEW w \in Writers, Read(w)
    PROVE  Inv'
<1>1. /\ call[w].pc = "row" /\ Row!Holds(w, call[w].key) /\ store[call[w].key].exists
      /\ call' = [call EXCEPT ![w] = Call("derive", call[w].key, call[w].edit,
                                          store[call[w].key], call[w].ops)]
      /\ store' = store /\ rows' = rows
  BY DEF Read
<1>2. ~IsInsert(call[w])
  BY <1>1 DEF Inv, PrevFitsEdit, FitsEdit
<1> QED BY <1>1, <1>2, GoOnInv

\* The operations are derived from the record that was read.
LEMMA DeriveInv ==
    ASSUME Inv, NEW w \in Writers, Derive(w)
    PROVE  Inv'
<1>1. PICK ops :
         call' = [call EXCEPT ![w] = Call("all", call[w].key, call[w].edit, call[w].prev, ops)]
  BY DEF Derive
<1>2. call[w].pc = "derive" /\ store' = store /\ rows' = rows
  BY DEF Derive
<1>3. ~IsInsert(call[w]) => Row!Holds(w, call[w].key)
  BY <1>2 DEF Inv, RowKept, HasRow
<1>4. (call[w].prev.exists <=> ~IsInsert(call[w])) /\ store[call[w].key] = call[w].prev
  BY <1>2 DEF Inv, PrevFitsEdit, FitsEdit, Relies, ReadStaysCurrent
<1> QED BY <1>1, <1>2, <1>3, <1>4, GoOnInv

\* What a call stores is a record or its absence.
LEMMA AppliedFits ==
    ASSUME NEW edit, NEW prev, edit.kind \in {"insert", "add", "remove", "delete"}
    PROVE  ~Apply(edit, prev).exists => Apply(edit, prev) = Absent
<1>1. CASE edit.kind = "insert" BY <1>1 DEF Apply, Record
<1>2. CASE edit.kind = "add" BY <1>2 DEF Apply, Record
<1>3. CASE edit.kind = "remove" BY <1>3 DEF Apply, Record
<1>4. CASE edit.kind = "delete" BY <1>4 DEF Apply, Absent
<1> QED BY <1>1, <1>2, <1>3, <1>4

\* No two calls rely on the same record: two updates or deletes would stand at
\* the head of one line, two inserts would have been given one id, and of an
\* insert and another call only one can have found what is in the store.
LEMMA OneRelies ==
    ASSUME Inv, NEW v \in Writers, NEW w \in Writers,
           Relies(call[v]), Relies(call[w]), call[v].key = call[w].key
    PROVE  v = w
<1>1. call[v] # Idle /\ call[w] # Idle
  BY IdleFits
<1>2. IsInsert(call[v]) <=> IsInsert(call[w])
  BY DEF Inv, PrevFitsEdit, FitsEdit, ReadStaysCurrent, Relies
<1>3. CASE IsInsert(call[v])
  BY <1>1, <1>2, <1>3 DEF Inv, InsertsApart
<1>4. CASE ~IsInsert(call[v])
  <2>1. Row!Holds(v, call[v].key) /\ Row!Holds(w, call[w].key)
    BY <1>2, <1>4 DEF Inv, RowKept, HasRow, Relies
  <2> QED BY <2>1 DEF Row!Holds
<1> QED BY <1>3, <1>4

\* The record is stored: nobody else relied on the one it replaces.
LEMMA StoreInv ==
    ASSUME Inv, NEW w \in Writers, Store(w)
    PROVE  Inv'
<1>1. PICK k, next : /\ k = call[w].key
                     /\ next = Apply(call[w].edit, call[w].prev)
  OBVIOUS
<1>2. /\ call[w].pc = "all"
      /\ store' = [store EXCEPT ![k] = next]
      /\ call' = [call EXCEPT ![w].pc = "stored"]
      /\ rows' = rows
  BY <1>1 DEF Store
<1>3. /\ k \in Keys /\ call[w] # Idle
      /\ ~next.exists => next = Absent
  BY <1>1, <1>2, CallOnItsWay, AppliedFits
<1>4. PICK c : c = Call("stored", k, call[w].edit, call[w].prev, call[w].ops)
  OBVIOUS
<1>5. call' = [call EXCEPT ![w] = c]
  <2>1. [call[w] EXCEPT !.pc = "stored"] = c
    BY <1>1, <1>2, <1>4, CallOnItsWay, CallUpdates
  <2> QED BY <1>2, <2>1
<1>6. /\ c.pc = "stored" /\ c.key = k /\ c.edit = call[w].edit
      /\ IsCall(c) /\ (IsInsert(c) <=> IsInsert(call[w]))
  BY <1>1, <1>2, <1>4, CallFields, CallOnItsWay, CallIsCall DEF IsInsert
<1>7. /\ DOMAIN call' = Writers /\ call'[w] = c
      /\ \A v \in Writers \ {w} : call'[v] = call[v]
  BY <1>5 DEF Inv, WellFormed
<1>8. WellFormed'
  <2>1. DOMAIN store' = Keys /\ \A l \in Keys : store'[l] = IF l = k THEN next ELSE store[l]
    BY <1>2, <1>3 DEF Inv, WellFormed
  <2> QED BY <1>2, <1>3, <1>6, <1>7, <2>1 DEF Inv, WellFormed
<1>9. RowKept'
  BY <1>1, <1>2, <1>6, <1>7 DEF Inv, RowKept, HasRow, Row!Holds
<1>10. InsertsApart'
  BY <1>1, <1>3, <1>6, <1>7 DEF Inv, InsertsApart
<1>11. PrevFitsEdit'
  BY <1>6, <1>7 DEF Inv, PrevFitsEdit, FitsEdit, Relies
<1>12. ReadStaysCurrent'
  <2> SUFFICES ASSUME NEW v \in Writers, call'[v].pc \in {"derive", "all"}
               PROVE  store'[call'[v].key] = call'[v].prev
    BY DEF ReadStaysCurrent
  <2>1. v # w /\ call'[v] = call[v]
    BY <1>6, <1>7
  <2>2. Relies(call[v]) /\ Relies(call[w])
    BY <1>2, <2>1 DEF Relies
  <2>3. call[v].key # k
    BY <1>1, <2>1, <2>2, OneRelies
  <2>4. store[call[v].key] = call[v].prev
    BY <2>2 DEF Inv, ReadStaysCurrent, Relies
  <2> QED BY <1>2, <2>1, <2>3, <2>4
<1> QED BY <1>8, <1>9, <1>10, <1>11, <1>12 DEF Inv

\* submit_ops() ends: an insert is over, the others still have their row.
LEMMA AfterSubmitInv ==
    ASSUME Inv, NEW w \in Writers, call[w].pc = "stored",
           call' = [call EXCEPT ![w] = AfterSubmit(w)], store' = store, rows' = rows
    PROVE  Inv'
<1>1. CASE IsInsert(call[w])
  <2>1. call' = [call EXCEPT ![w] = Idle]
    BY <1>1 DEF AfterSubmit, IsInsert
  <2>2. /\ DOMAIN call' = Writers /\ call'[w] = Idle
        /\ \A v \in Writers \ {w} : call'[v] = call[v]
        /\ rows' \in [Keys -> Seq(Writers)]
        /\ \A v \in Writers, l \in Keys : Row!Holds(v, l) => Row!Holds(v, l)'
    BY <2>1 DEF Inv, WellFormed, Row!Holds
  <2> QED BY <2>2, IdleFits, OneCallInv
<1>2. CASE ~IsInsert(call[w])
  <2>1. AfterSubmit(w) = Call("exit", call[w].key, call[w].edit, call[w].prev, call[w].ops)
    <3>1. AfterSubmit(w) = [call[w] EXCEPT !.pc = "exit"]
      BY <1>2 DEF AfterSubmit, IsInsert
    <3> QED BY <3>1, CallOnItsWay, CallUpdates
  <2>2. Row!Holds(w, call[w].key)
    BY <1>2 DEF Inv, RowKept, HasRow
  <2> QED BY <1>2, <2>1, <2>2, GoOnInv
<1> QED BY <1>1, <1>2

-----------------------------------------------------------------------------
\* Every step keeps the invariant.
LEMMA NextInv == Inv /\ [Next]_vars => Inv'
<1> SUFFICES ASSUME Inv, [Next]_vars PROVE Inv'
  OBVIOUS
<1>1. ASSUME NEW w \in Writers, NEW k \in Keys, NEW edit \in Edits,
             Insert(w, k, edit) \/ AskRow(w, k, edit)
      PROVE  Inv'
  BY <1>1, InsertInv, AskRowInv
<1>2. ASSUME NEW w \in Writers, WriteStep(w)
      PROVE  Inv'
  <2>1. CASE ReadNothing(w)
    BY <2>1, LeaveRowInv DEF ReadNothing
  <2>2. CASE Read(w)
    BY <2>2, ReadInv
  <2>3. CASE Derive(w)
    BY <2>3, DeriveInv
  <2>4. CASE Store(w)
    BY <2>4, StoreInv
  <2>5. CASE Send(w) \/ FailReplication(w)
    BY <2>5, AfterSubmitInv DEF Send, FailReplication
  <2>6. CASE Exit(w)
    BY <2>6, LeaveRowInv DEF Exit
  <2> QED BY <1>2, <2>1, <2>2, <2>3, <2>4, <2>5, <2>6 DEF WriteStep
<1>3. CASE \/ BackgroundStep \/ ExecuteFirst \/ FailScan \/ FailCommit \/ RejectRound
           \/ \E i \in DOMAIN net : ExecuteLater(i) \/ LoseOp(i) \/ LoseAwaited(i)
  <2>1. UNCHANGED <<rows, store, call>>
    BY <1>3 DEF BackgroundStep, StartRound, ScanRecord, Commit, EndRound, FailScan, FailCommit,
                DropBatch, RejectRound, ExecuteFirst, ExecuteLater, LoseOp, LoseAwaited
  <2> QED BY <2>1, OthersInv
<1>4. CASE Crash
  BY <1>4, CrashInv
<1>5. CASE UNCHANGED vars
  BY <1>5, OthersInv DEF vars
<1> QED BY <1>1, <1>2, <1>3, <1>4, <1>5 DEF Next

\* The record an update, a delete or an insert was computed from is still the
\* one in the store when the call stores its own: no lost update, whatever the
\* interleaving of the writers, the background task, failures and crashes.
THEOREM NoLostUpdate == Spec => []ReadStaysCurrent
<1>1. Inv => ReadStaysCurrent
  BY DEF Inv
<1> QED BY <1>1, InitInv, NextInv, PTL DEF Spec

-----------------------------------------------------------------------------
\* What sequences of operations do to one entry.

\* Operations executed after others: the last one on the entry decides.
LEMMA Concatenation ==
    ASSUME NEW s \in Seq(Ops), NEW t \in Seq(Ops), NEW f, NEW k
    PROVE  /\ Silent(s \o t, f, k) <=> Silent(s, f, k) /\ Silent(t, f, k)
           /\ Puts(s \o t, f, k) <=> Puts(t, f, k) \/ (Puts(s, f, k) /\ Silent(t, f, k))
<1>1. /\ Len(s) \in Nat /\ Len(t) \in Nat /\ Len(s \o t) = Len(s) + Len(t)
      /\ DOMAIN s = 1..Len(s) /\ DOMAIN t = 1..Len(t) /\ DOMAIN (s \o t) = 1..(Len(s) + Len(t))
      /\ \A i \in 1..Len(s) : (s \o t)[i] = s[i]
      /\ \A i \in 1..Len(t) : (s \o t)[Len(s) + i] = t[i]
      /\ \A i \in 1..(Len(s) + Len(t)) : i \notin 1..Len(s) => i - Len(s) \in 1..Len(t) /\ (s \o t)[i] = t[i - Len(s)]
  OBVIOUS
<1>2. PICK u : u = s \o t
  OBVIOUS
<1>3. /\ DOMAIN u = 1..(Len(s) + Len(t))
      /\ \A i \in 1..Len(s) : i \in DOMAIN u /\ u[i] = s[i]
      /\ \A i \in 1..Len(t) : Len(s) + i \in DOMAIN u /\ u[Len(s) + i] = t[i]
      /\ \A i \in DOMAIN u : i \in 1..Len(s) \/ \E n \in 1..Len(t) : i = Len(s) + n
  <2>1. \A i \in 1..(Len(s) + Len(t)) : i \notin 1..Len(s) => i = Len(s) + (i - Len(s))
    BY <1>1
  <2> QED BY <1>1, <1>2, <2>1
<1>4. Silent(u, f, k) <=> Silent(s, f, k) /\ Silent(t, f, k)
  <2>1. Silent(u, f, k) => Silent(s, f, k) /\ Silent(t, f, k)
    BY <1>1, <1>3 DEF Silent
  <2>2. ASSUME Silent(s, f, k), Silent(t, f, k), NEW i \in DOMAIN u PROVE ~About(u[i], f, k)
    BY <1>1, <1>3, <2>2 DEF Silent
  <2> QED BY <2>1, <2>2 DEF Silent
<1>5. ASSUME Puts(t, f, k) PROVE Puts(u, f, k)
  <2>1. PICK i \in 1..Len(t) : /\ About(t[i], f, k) /\ t[i].op = "put"
                               /\ \A j \in 1..Len(t) : j > i => ~About(t[j], f, k)
    BY <1>1, <1>5 DEF Puts
  <2>2. /\ Len(s) + i \in DOMAIN u /\ u[Len(s) + i] = t[i]
        /\ \A j \in DOMAIN u : j > Len(s) + i => ~About(u[j], f, k)
    BY <1>1, <1>3, <2>1
  <2> QED BY <2>1, <2>2 DEF Puts
<1>6. ASSUME Puts(s, f, k), Silent(t, f, k) PROVE Puts(u, f, k)
  <2>1. PICK i \in 1..Len(s) : /\ About(s[i], f, k) /\ s[i].op = "put"
                               /\ \A j \in 1..Len(s) : j > i => ~About(s[j], f, k)
    BY <1>1, <1>6 DEF Puts
  <2>2. /\ i \in DOMAIN u /\ u[i] = s[i]
        /\ \A j \in DOMAIN u : j > i => ~About(u[j], f, k)
    BY <1>1, <1>2, <1>6, <2>1 DEF Silent
  <2> QED BY <2>1, <2>2 DEF Puts
<1>7. ASSUME Puts(u, f, k) PROVE Puts(t, f, k) \/ (Puts(s, f, k) /\ Silent(t, f, k))
  <2>1. PICK i \in DOMAIN u : /\ About(u[i], f, k) /\ u[i].op = "put"
                              /\ \A j \in DOMAIN u : j > i => ~About(u[j], f, k)
    BY <1>7 DEF Puts
  <2>2. CASE i \in 1..Len(s)
    <3>1. /\ About(s[i], f, k) /\ s[i].op = "put"
          /\ \A j \in 1..Len(s) : j > i => ~About(s[j], f, k)
          /\ \A j \in 1..Len(t) : ~About(t[j], f, k)
      BY SMTT(60), <1>1, <1>3, <2>1, <2>2
    <3> QED BY <1>1, <2>2, <3>1 DEF Puts, Silent
  <2>3. CASE i \notin 1..Len(s)
    <3>1. PICK n \in 1..Len(t) : i = Len(s) + n
      BY <1>3, <2>3
    <3>2. /\ About(t[n], f, k) /\ t[n].op = "put"
          /\ \A j \in 1..Len(t) : j > n => ~About(t[j], f, k)
      <4>1. \A j \in 1..Len(t) : j > n => Len(s) + j > i
        BY <1>1, <3>1
      <4> QED BY <1>3, <2>1, <3>1, <4>1
    <3> QED BY <1>1, <3>2 DEF Puts
  <2> QED BY <2>2, <2>3
<1> QED BY <1>2, <1>4, <1>5, <1>6, <1>7

\* No operations change nothing, one operation does what Execute does.
LEMMA OneOperation ==
    ASSUME NEW f, NEW k, NEW o \in Ops
    PROVE  /\ Silent(<<>>, f, k) /\ ~Puts(<<>>, f, k)
           /\ Silent(<<o>>, f, k) <=> ~About(o, f, k)
           /\ Puts(<<o>>, f, k) <=> About(o, f, k) /\ o.op = "put"
           /\ \A entries : <<f, k>> \in Execute(entries, o) <=> EndsIn(entries, <<o>>, f, k)
<1>1. Silent(<<>>, f, k) /\ ~Puts(<<>>, f, k)
  BY DEF Silent, Puts
<1>2. Silent(<<o>>, f, k) <=> ~About(o, f, k)
  BY DEF Silent
<1>3. Puts(<<o>>, f, k) <=> About(o, f, k) /\ o.op = "put"
  BY DEF Puts
<1>4. o.op \in {"put", "del"}
  BY DEF Ops
<1>5. ASSUME NEW entries PROVE <<f, k>> \in Execute(entries, o) <=> EndsIn(entries, <<o>>, f, k)
  BY <1>2, <1>3, <1>4 DEF Execute, EndsIn, About
<1> QED BY <1>1, <1>2, <1>3, <1>5

\* The same for what is in the index in the end.
LEMMA EndsInConcatenation ==
    ASSUME NEW s \in Seq(Ops), NEW t \in Seq(Ops), NEW f, NEW k, NEW entries
    PROVE  EndsIn(entries, s \o t, f, k) <=>
               Puts(t, f, k) \/ (Silent(t, f, k) /\ EndsIn(entries, s, f, k))
<1>1. Silent(s \o t, f, k) <=> Silent(s, f, k) /\ Silent(t, f, k)
  BY Concatenation
<1>2. Puts(s \o t, f, k) <=> Puts(t, f, k) \/ (Puts(s, f, k) /\ Silent(t, f, k))
  BY Concatenation
<1> QED BY <1>1, <1>2 DEF EndsIn

\* The first operation is executed.
LEMMA ExecuteHead ==
    ASSUME NEW s \in Seq(Ops), s # <<>>, NEW f, NEW k, NEW entries
    PROVE  EndsIn(Execute(entries, Head(s)), Tail(s), f, k) <=> EndsIn(entries, s, f, k)
<1>1. Head(s) \in Ops /\ Tail(s) \in Seq(Ops) /\ <<Head(s)>> \in Seq(Ops) /\ s = <<Head(s)>> \o Tail(s)
  OBVIOUS
<1>2. EndsIn(entries, <<Head(s)>> \o Tail(s), f, k) <=>
         Puts(Tail(s), f, k) \/ (Silent(Tail(s), f, k) /\ EndsIn(entries, <<Head(s)>>, f, k))
  BY <1>1, EndsInConcatenation
<1>3. <<f, k>> \in Execute(entries, Head(s)) <=> EndsIn(entries, <<Head(s)>>, f, k)
  BY <1>1, OneOperation
<1>4. EndsIn(entries, s, f, k) <=> EndsIn(entries, <<Head(s)>> \o Tail(s), f, k)
  BY <1>1
<1> QED BY <1>2, <1>3, <1>4 DEF EndsIn

\* A later operation is executed that is not about an entry of an earlier one.
LEMMA ExecuteInside ==
    ASSUME NEW s \in Seq(Ops), NEW t \in Seq(Ops), NEW o \in Ops, NEW f, NEW k, NEW entries,
           About(o, f, k) => Silent(s, f, k)
    PROVE  EndsIn(Execute(entries, o), s \o t, f, k) <=> EndsIn(entries, (s \o <<o>>) \o t, f, k)
<1>1. <<o>> \in Seq(Ops) /\ s \o <<o>> \in Seq(Ops)
  OBVIOUS
<1>2. EndsIn(entries, (s \o <<o>>) \o t, f, k) <=>
         Puts(t, f, k) \/ (Silent(t, f, k) /\ EndsIn(entries, s \o <<o>>, f, k))
  BY <1>1, EndsInConcatenation
<1>3. EndsIn(entries, s \o <<o>>, f, k) <=>
         Puts(<<o>>, f, k) \/ (Silent(<<o>>, f, k) /\ EndsIn(entries, s, f, k))
  BY <1>1, EndsInConcatenation
<1>4. EndsIn(Execute(entries, o), s \o t, f, k) <=>
         Puts(t, f, k) \/ (Silent(t, f, k) /\ EndsIn(Execute(entries, o), s, f, k))
  BY EndsInConcatenation
<1>5. /\ Silent(<<o>>, f, k) <=> ~About(o, f, k)
      /\ Puts(<<o>>, f, k) <=> About(o, f, k) /\ o.op = "put"
      /\ <<f, k>> \in Execute(entries, o) <=> EndsIn(entries, <<o>>, f, k)
  BY OneOperation
<1>6. Silent(s, f, k) => ~Puts(s, f, k)
  BY DEF Silent, Puts
<1> QED BY <1>2, <1>3, <1>4, <1>5, <1>6 DEF EndsIn

\* Whether the answers are awaited makes no difference to what operations do.
LEMMA UnawaitedDoTheSame ==
    ASSUME NEW s \in Seq(Ops)
    PROVE  /\ Unawaited(s) \in Seq(Ops)
           /\ DOMAIN Unawaited(s) = DOMAIN s
           /\ \A i \in DOMAIN s : Unawaited(s)[i].key = s[i].key
           /\ \A f, k : Silent(Unawaited(s), f, k) <=> Silent(s, f, k)
           /\ \A f, k : Puts(Unawaited(s), f, k) <=> Puts(s, f, k)
           /\ \A entries, f, k : EndsIn(entries, Unawaited(s), f, k) <=> EndsIn(entries, s, f, k)
<1>1. PICK t : t = Unawaited(s)
  OBVIOUS
<1>2. \A i \in DOMAIN s : s[i] \in Ops
  OBVIOUS
<1>3. DOMAIN t = DOMAIN s /\ \A i \in DOMAIN s : t[i] = [s[i] EXCEPT !.awaited = FALSE]
  BY <1>1 DEF Unawaited
<1>4. \A i \in DOMAIN s : /\ t[i] \in Ops /\ t[i].key = s[i].key
                          /\ t[i].feature = s[i].feature /\ t[i].op = s[i].op
  BY <1>2, <1>3 DEF Ops
<1>5. t \in Seq(Ops)
  <2>1. DOMAIN s = 1..Len(s) /\ Len(s) \in Nat
    OBVIOUS
  <2>2. t = [i \in 1..Len(s) |-> [s[i] EXCEPT !.awaited = FALSE]]
    BY <1>1, <2>1 DEF Unawaited
  <2>3. \A i \in 1..Len(s) : [s[i] EXCEPT !.awaited = FALSE] \in Ops
    BY <1>3, <1>4, <2>1
  <2> QED BY <2>1, <2>2, <2>3
<1>6. \A f, k : Silent(t, f, k) <=> Silent(s, f, k)
  BY <1>3, <1>4 DEF Silent, About
<1>7. \A f, k : Puts(t, f, k) <=> Puts(s, f, k)
  BY <1>3, <1>4 DEF Puts, About
<1>8. \A entries, f, k : EndsIn(entries, t, f, k) <=> EndsIn(entries, s, f, k)
  BY <1>6, <1>7 DEF EndsIn
<1> QED BY <1>1, <1>3, <1>4, <1>5, <1>6, <1>7, <1>8

\* A sequence in two parts.
LEMMA TwoParts ==
    ASSUME NEW s \in Seq(Ops), NEW n \in 0..Len(s)
    PROVE  LET t == SubSeq(s, 1, n)
               u == SubSeq(s, n+1, Len(s))
           IN /\ t \in Seq(Ops) /\ u \in Seq(Ops) /\ s = t \o u
              /\ DOMAIN t = 1..n /\ \A i \in 1..n : t[i] = s[i]
              /\ DOMAIN u = 1..(Len(s) - n) /\ \A i \in 1..(Len(s) - n) : u[i] = s[n + i]
<1>1. /\ Len(s) \in Nat /\ 1 \in 1..Len(s)+1 /\ n \in 1-1..Len(s) /\ Len(s) \in n..Len(s)
      /\ n \in Nat /\ n <= Len(s) /\ n + 1 \in Int /\ Len(s) \in Int
  OBVIOUS
<1>2. SubSeq(s, 1, n) \o SubSeq(s, n+1, Len(s)) = SubSeq(s, 1, Len(s))
  BY <1>1, ConcatAdjacentSubSeq
<1>3. SubSeq(s, 1, Len(s)) = s
  BY SubSeqFull
<1>4. \A i \in 1..Len(s) : s[i] \in Ops
  OBVIOUS
<1>5. /\ SubSeq(s, 1, n) \in Seq(Ops)
      /\ Len(SubSeq(s, 1, n)) = IF 1 <= n THEN n-1+1 ELSE 0
      /\ \A i \in 1..n-1+1 : SubSeq(s, 1, n)[i] = s[1+i-1]
  BY <1>1, <1>4, SubSeqProperties
<1>6. /\ SubSeq(s, n+1, Len(s)) \in Seq(Ops)
      /\ Len(SubSeq(s, n+1, Len(s))) = IF n+1 <= Len(s) THEN Len(s)-(n+1)+1 ELSE 0
      /\ \A i \in 1..Len(s)-(n+1)+1 : SubSeq(s, n+1, Len(s))[i] = s[(n+1)+i-1]
  BY <1>1, <1>4, SubSeqProperties
<1>7. Len(SubSeq(s, 1, n)) = n /\ \A i \in 1..n : SubSeq(s, 1, n)[i] = s[i]
  BY <1>1, <1>5
<1>8. /\ Len(SubSeq(s, n+1, Len(s))) = Len(s) - n
      /\ \A i \in 1..(Len(s) - n) : SubSeq(s, n+1, Len(s))[i] = s[n + i]
  BY <1>1, <1>6
<1>9. PICK t, u : t = SubSeq(s, 1, n) /\ u = SubSeq(s, n+1, Len(s))
  OBVIOUS
<1>10. t \in Seq(Ops) /\ u \in Seq(Ops) /\ s = t \o u
  BY <1>2, <1>3, <1>5, <1>6, <1>9
<1>11. DOMAIN t = 1..n /\ \A i \in 1..n : t[i] = s[i]
  <2>1. Len(t) = n /\ DOMAIN t = 1..Len(t)
    BY <1>7, <1>9, <1>10, LenProperties
  <2> QED BY <1>7, <1>9, <2>1
<1>12. DOMAIN u = 1..(Len(s) - n) /\ \A i \in 1..(Len(s) - n) : u[i] = s[n + i]
  <2>1. Len(u) = Len(s) - n /\ DOMAIN u = 1..Len(u)
    BY <1>8, <1>9, <1>10, LenProperties
  <2> QED BY <1>8, <1>9, <2>1
<1> QED BY <1>9, <1>10, <1>11, <1>12

\* A sequence of operations without the one at place i, as the parts around it.
LEMMA Removed ==
    ASSUME NEW s \in Seq(Ops), NEW i \in DOMAIN s
    PROVE  LET t == SubSeq(s, 1, i-1)
               u == SubSeq(s, i+1, Len(s))
           IN /\ t \in Seq(Ops) /\ u \in Seq(Ops) /\ s[i] \in Ops
              /\ RemoveAt(s, i) = t \o u /\ t \o u \in Seq(Ops)
              /\ s = (t \o <<s[i]>>) \o u
              /\ \A j \in DOMAIN t : \E n \in DOMAIN s : t[j] = s[n]
              /\ \A j \in DOMAIN u : \E n \in DOMAIN s : u[j] = s[n]
<1>1. PICK t, u : t = SubSeq(s, 1, i-1) /\ u = SubSeq(s, i+1, Len(s))
  OBVIOUS
<1>2. i \in 1..Len(s) /\ i \in 0..Len(s) /\ i - 1 \in 0..Len(s) /\ 1 \in 1..Len(s)
  OBVIOUS
<1>3. s[i] \in Ops /\ t \in Seq(Ops) /\ u \in Seq(Ops)
  BY SMTT(60), <1>1, <1>2
<1>4. RemoveAt(s, i) = t \o u /\ t \o u \in Seq(Ops)
  BY <1>1, <1>3 DEF RemoveAt
<1>5. s = SubSeq(s, 1, i) \o u
  BY <1>1, <1>2, TwoParts
<1>6. SubSeq(s, 1, i) = t \o <<s[i]>>
  BY <1>1, <1>2, SubSeqRecursiveSecond
<1>7. \A j \in DOMAIN t : \E n \in DOMAIN s : t[j] = s[n]
  BY SMTT(60), <1>1, <1>2
<1>8. \A j \in DOMAIN u : \E n \in DOMAIN s : u[j] = s[n]
  BY SMTT(60), <1>1, <1>2
<1> QED BY <1>1, <1>3, <1>4, <1>5, <1>6, <1>7, <1>8

-----------------------------------------------------------------------------
\* A finite set as a sequence.
LEMMA SetAsSequence ==
    ASSUME NEW S, IsFiniteSet(S)
    PROVE  /\ SetToSeq(S) \in Seq(S)
           /\ \A x \in S : \E i \in DOMAIN SetToSeq(S) : SetToSeq(S)[i] = x
           /\ \A i, j \in DOMAIN SetToSeq(S) : SetToSeq(S)[i] = SetToSeq(S)[j] => i = j
<1>1. Cardinality(S) \in Nat /\ ExistsBijection(1..Cardinality(S), S)
  BY FS_CardinalityType
<1>2. PICK n \in Nat : n = Cardinality(S)
  BY <1>1
<1>3. PICK g \in Bijection(1..n, S) : TRUE
  BY <1>1, <1>2 DEF ExistsBijection
<1>4. g \in [1..n -> S] /\ IsInjective(g)
  BY <1>3 DEF Bijection, Injection, Surjection, IsInjective
<1>5. PICK h : h = SetToSeq(S)
  OBVIOUS
<1>6. h \in [1..n -> S] /\ IsInjective(h)
  BY <1>2, <1>4, <1>5 DEF SetToSeq
<1>7. Cardinality(1..n) = n
  BY FS_Interval
<1>8. h \in Injection(1..n, S)
  BY <1>6 DEF Injection
<1>9. h \in Surjection(1..n, S)
  BY <1>2, <1>7, <1>8, FS_Injection
<1>10. h \in Seq(S) /\ DOMAIN h = 1..n /\ \A x \in S : \E i \in DOMAIN h : h[i] = x
  BY <1>6, <1>9 DEF Surjection
<1> QED BY <1>5, <1>6, <1>10 DEF IsInjective

\* The operations on some features of a key.
OpsOf(name, fs, k, awaited) == SetToSeq({Op(name, f, k, awaited) : f \in fs})

\* Each is on a feature of its own: the last one on an entry is the only one.
LEMMA OpsOfFeatures ==
    ASSUME NEW name \in {"put", "del"}, NEW fs \in SUBSET Features, NEW k \in Keys,
           NEW awaited \in BOOLEAN
    PROVE  LET s == OpsOf(name, fs, k, awaited)
           IN /\ s \in Seq(Ops)
              /\ \A i \in DOMAIN s : s[i].key = k
              /\ \A f : Silent(s, f, k) <=> f \notin fs
              /\ \A f : Puts(s, f, k) <=> f \in fs /\ name = "put"
<1>1. PICK T : T = {Op(name, f, k, awaited) : f \in fs}
  OBVIOUS
<1>2. PICK s : s = SetToSeq(T)
  OBVIOUS
<1>3. IsFiniteSet(fs)
  BY ChangeCaptureAssumption, FS_Subset
<1>4. [f \in fs |-> Op(name, f, k, awaited)] \in Surjection(fs, T)
  BY <1>1 DEF Surjection
<1>5. IsFiniteSet(T)
  BY <1>3, <1>4, FS_Surjection
<1>6. T \subseteq Ops
  BY <1>1 DEF Op, Ops
<1>7. /\ s \in Seq(T)
      /\ \A x \in T : \E i \in DOMAIN s : s[i] = x
      /\ \A i, j \in DOMAIN s : s[i] = s[j] => i = j
  BY <1>2, <1>5, SetAsSequence
<1>8. s \in Seq(Ops) /\ \A i \in DOMAIN s : s[i] \in T
  BY <1>6, <1>7
<1>9. \A i \in DOMAIN s : \E f \in fs : s[i] = Op(name, f, k, awaited)
  BY <1>1, <1>8
<1>10. \A i \in DOMAIN s : /\ s[i].key = k /\ s[i].op = name /\ s[i].feature \in fs
                           /\ s[i] = Op(name, s[i].feature, k, awaited)
  BY <1>9 DEF Op
<1>11. ASSUME NEW f \in fs
       PROVE  \E i \in DOMAIN s : About(s[i], f, k) /\ \A j \in DOMAIN s : About(s[j], f, k) => j = i
  <2>1. PICK i \in DOMAIN s : s[i] = Op(name, f, k, awaited)
    BY <1>1, <1>7
  <2>2. About(s[i], f, k)
    BY <2>1 DEF About, Op
  <2>3. ASSUME NEW j \in DOMAIN s, About(s[j], f, k) PROVE j = i
    BY <1>7, <1>10, <2>1, <2>3 DEF About
  <2> QED BY <2>2, <2>3
<1>12. \A f : Silent(s, f, k) <=> f \notin fs
  BY <1>10, <1>11 DEF Silent, About
<1>13. ASSUME NEW f PROVE Puts(s, f, k) <=> f \in fs /\ name = "put"
  <2>1. Puts(s, f, k) => f \in fs /\ name = "put"
    BY <1>10 DEF Puts, About
  <2>2. ASSUME f \in fs, name = "put" PROVE Puts(s, f, k)
    <3>1. PICK i \in DOMAIN s : About(s[i], f, k) /\ \A j \in DOMAIN s : About(s[j], f, k) => j = i
      BY <1>11, <2>2
    <3>2. \A j \in DOMAIN s : j > i => ~About(s[j], f, k)
      <4>1. i \in Nat
        BY <1>8
      <4> QED BY <3>1, <4>1
    <3> QED BY <1>10, <2>2, <3>1, <3>2 DEF Puts
  <2> QED BY <2>1, <2>2
<1>14. \A i \in DOMAIN s : s[i].key = k
  BY <1>10
<1> QED BY <1>1, <1>2, <1>8, <1>12, <1>13, <1>14 DEF OpsOf

\* The operations turn the entries of the features prev into those of next.
Turns(ops, k, prev, next) ==
    \A f \in Features : f \in next <=> Puts(ops, f, k) \/ (f \in prev /\ Silent(ops, f, k))

\* What an index derives from two versions of a record.
LEMMA DerivedTurns ==
    ASSUME NEW prev, NEW next, prev.features \subseteq Features, next.features \subseteq Features,
           NEW k \in Keys, NEW awaited \in BOOLEAN
    PROVE  LET s == DeriveOps(k, prev, next, awaited)
           IN /\ s \in Seq(Ops)
              /\ \A i \in DOMAIN s : s[i].key = k
              /\ Turns(s, k, prev.features, next.features)
<1>1. PICK lost, new : lost = prev.features \ next.features /\ new = next.features \ prev.features
  OBVIOUS
<1>2. PICK dels, puts : dels = OpsOf("del", lost, k, awaited) /\ puts = OpsOf("put", new, k, awaited)
  OBVIOUS
<1>3. DeriveOps(k, prev, next, awaited) = dels \o puts
  BY <1>1, <1>2 DEF DeriveOps, OpsOf
<1>4. lost \in SUBSET Features /\ new \in SUBSET Features
  BY <1>1
<1>5. /\ dels \in Seq(Ops) /\ \A i \in DOMAIN dels : dels[i].key = k
      /\ \A f : Silent(dels, f, k) <=> f \notin lost
      /\ \A f : ~Puts(dels, f, k)
  BY <1>2, <1>4, OpsOfFeatures
<1>6. /\ puts \in Seq(Ops) /\ \A i \in DOMAIN puts : puts[i].key = k
      /\ \A f : Silent(puts, f, k) <=> f \notin new
      /\ \A f : Puts(puts, f, k) <=> f \in new
  BY <1>2, <1>4, OpsOfFeatures
<1>7. dels \o puts \in Seq(Ops) /\ \A i \in DOMAIN (dels \o puts) : (dels \o puts)[i].key = k
  BY <1>5, <1>6
<1>8. ASSUME NEW f
      PROVE  /\ Silent(dels \o puts, f, k) <=> f \notin lost /\ f \notin new
             /\ Puts(dels \o puts, f, k) <=> f \in new
  BY <1>5, <1>6, Concatenation
<1>9. Turns(dels \o puts, k, prev.features, next.features)
  BY <1>1, <1>8 DEF Turns
<1> QED BY <1>3, <1>7, <1>9

-----------------------------------------------------------------------------
\* Types.

\* What is stored is a record or its absence.
LEMMA AppliedIsRecord ==
    ASSUME NEW edit \in Edits, NEW prev \in Records \union {Absent}
    PROVE  Apply(edit, prev) \in Records \union {Absent}
<1>1. /\ edit.kind \in {"insert", "add", "remove", "delete"} /\ edit.fs \subseteq Features
      /\ prev.features \subseteq Features
  BY DEF Edits, Records, Record, Absent
<1>2. CASE edit.kind = "insert" BY <1>1, <1>2 DEF Apply, Records
<1>3. CASE edit.kind = "add"
  <2>1. prev.features \union edit.fs \in SUBSET Features
    BY <1>1
  <2> QED BY <1>3, <2>1 DEF Apply, Records
<1>4. CASE edit.kind = "remove"
  <2>1. prev.features \ edit.fs \in SUBSET Features
    BY <1>1
  <2> QED BY <1>4, <2>1 DEF Apply, Records
<1>5. CASE edit.kind = "delete" BY <1>5 DEF Apply
<1> QED BY <1>1, <1>2, <1>3, <1>4, <1>5

\* The features of a record are those of the constant.
LEMMA FeaturesOfRecord ==
    ASSUME NEW r \in Records \union {Absent}
    PROVE  r.features \subseteq Features
  BY DEF Records, Record, Absent

\* The values of a call.
CallStates == {Idle} \union [pc : {"row", "derive", "all", "stored", "exit"}, key : Keys,
                             edit : Edits, prev : Records \union {Absent}, ops : Seq(Ops)]

\* A record made by Call is one of them.
LEMMA CallIsTyped ==
    ASSUME NEW pc \in {"row", "derive", "all", "stored", "exit"}, NEW k \in Keys,
           NEW edit \in Edits, NEW prev \in Records \union {Absent}, NEW ops \in Seq(Ops)
    PROVE  Call(pc, k, edit, prev, ops) \in CallStates
  BY DEF Call, CallStates

\* A call that is on its way has a key, an edit and the rest.
LEMMA CallTypes ==
    ASSUME TypeOK, NEW w \in Writers, call[w].pc # "idle"
    PROVE  /\ call[w].key \in Keys /\ call[w].edit \in Edits
           /\ call[w].prev \in Records \union {Absent} /\ call[w].ops \in Seq(Ops)
           /\ \A pc \in {"row", "derive", "all", "stored", "exit"} :
                 [call[w] EXCEPT !.pc = pc] \in CallStates
<1>1. call[w] \in CallStates
  BY DEF TypeOK, CallStates
<1>2. call[w] # Idle
  BY DEF Idle
<1>3. call[w] \in [pc : {"row", "derive", "all", "stored", "exit"}, key : Keys,
                   edit : Edits, prev : Records \union {Absent}, ops : Seq(Ops)]
  BY <1>1, <1>2 DEF CallStates
<1> QED BY <1>3 DEF CallStates

\* The lines of the two locks are of those who may join them.
LEMMA LinesAreTyped ==
    ASSUME TypeOK
    PROVE  /\ \A w \in Writers, k \in Keys :
                 Row!Join(w, k) \/ Row!Leave(w, k) => rows' \in [Keys -> Seq(Writers)]
           /\ \A p \in Writers \union {Background} :
                 All!Join(p, "all") \/ All!Leave(p, "all") =>
                     all' \in [{"all"} -> Seq(Writers \union {Background})]
<1>1. ASSUME NEW w \in Writers, NEW k \in Keys, Row!Join(w, k) \/ Row!Leave(w, k)
      PROVE  rows' \in [Keys -> Seq(Writers)]
  <2>1. rows \in [Keys -> Seq(Writers)] /\ rows[k] \in Seq(Writers)
    BY DEF TypeOK
  <2>2. CASE Row!Join(w, k)
    BY <2>1, <2>2 DEF Row!Join
  <2>3. CASE Row!Leave(w, k)
    <3>1. Tail(rows[k]) \in Seq(Writers)
      BY <2>1, <2>3 DEF Row!Leave, Row!Holds
    <3> QED BY <2>1, <2>3, <3>1 DEF Row!Leave
  <2> QED BY <1>1, <2>2, <2>3
<1>2. ASSUME NEW p \in Writers \union {Background}, All!Join(p, "all") \/ All!Leave(p, "all")
      PROVE  all' \in [{"all"} -> Seq(Writers \union {Background})]
  <2>1. /\ all \in [{"all"} -> Seq(Writers \union {Background})]
        /\ all["all"] \in Seq(Writers \union {Background})
    BY DEF TypeOK
  <2>2. CASE All!Join(p, "all")
    BY <2>1, <2>2 DEF All!Join
  <2>3. CASE All!Leave(p, "all")
    <3>1. Tail(all["all"]) \in Seq(Writers \union {Background})
      BY <2>1, <2>3 DEF All!Leave, All!Holds
    <3> QED BY <2>1, <2>3, <3>1 DEF All!Leave
  <2> QED BY <1>2, <2>2, <2>3
<1> QED BY <1>1, <1>2

\* A set of numbers that is not empty has a least one.
LEMMA LeastElement ==
    ASSUME NEW S, S \subseteq Nat, S # {}
    PROVE  Min(S) \in S /\ \A n \in S : Min(S) <= n
<1>1. PICK m \in S : \A n \in S : ~(<<n, m>> \in OpToRel(<, Nat))
  BY WFMin, NatLessThanWellFounded
<1>2. \A n \in S : ~(n < m)
  BY <1>1 DEF OpToRel
<1>3. \A n \in S : m <= n
  BY <1>2
<1> QED BY <1>3 DEF Min

\* The next record of the scan is the first one ahead of the offset.
LEMMA NextScanned ==
    ASSUME TypeOK, Ahead # {}
    PROVE  /\ Min(Ahead) \in Keys /\ Min(Ahead) > offset /\ store[Min(Ahead)].exists
           /\ \A k \in Keys : offset < k /\ k < Min(Ahead) => ~store[k].exists
<1>1. Ahead \subseteq Nat /\ NKeys \in Nat
  BY ChangeCaptureAssumption DEF Ahead, Keys
<1>2. Min(Ahead) \in Ahead /\ \A n \in Ahead : Min(Ahead) <= n
  BY <1>1, LeastElement
<1>3. PICK m : m = Min(Ahead)
  OBVIOUS
<1>4. m \in Keys /\ m > offset /\ store[m].exists /\ \A n \in Keys : n > offset /\ store[n].exists => m <= n
  BY <1>2, <1>3 DEF Ahead
<1>5. m \in Nat /\ Keys \subseteq Nat
  BY <1>4, ChangeCaptureAssumption DEF Keys
<1> QED BY <1>3, <1>4, <1>5

\* The block starts within the types.
LEMMA InitTypes == Init => TypeOK
<1> SUFFICES ASSUME Init PROVE TypeOK
  OBVIOUS
<1>1. offset \in Zero..Done
  BY ChangeCaptureAssumption DEF Init, Zero, Done
<1>2. batch \in [pc : {"idle", "lock", "scan", "sent"}, count : 0..Limit, ops : Seq(Ops),
                prev : Zero..Done]
  BY <1>1, ChangeCaptureAssumption DEF Init, NoBatch
<1> QED BY <1>1, <1>2 DEF Init, TypeOK

\* A step of a call that changes nothing but the call and the lines of the locks.
LEMMA WriteTypes ==
    ASSUME TypeOK, NEW w \in Writers, NEW c \in CallStates, call' = [call EXCEPT ![w] = c],
           rows' \in [Keys -> Seq(Writers)], all' \in [{"all"} -> Seq(Writers \union {Background})],
           UNCHANGED <<store, index, net, offset, file, batch, missed>>
    PROVE  TypeOK'
  BY DEF TypeOK, CallStates

\* Every step keeps the types.
LEMMA TypesStay == TypeOK /\ [Next]_vars => TypeOK'
<1> SUFFICES ASSUME TypeOK, [Next]_vars PROVE TypeOK'
  OBVIOUS
<1> USE LinesAreTyped
<1>0. /\ Idle \in CallStates /\ Absent \in Records \union {Absent} /\ <<>> \in Seq(Ops)
      /\ \A o \in Zero..Done :
            /\ NoBatch(o) \in [pc : {"idle", "lock", "scan", "sent"}, count : 0..Limit,
                               ops : Seq(Ops), prev : Zero..Done]
            /\ [NoBatch(o) EXCEPT !.pc = "sent"] \in
                   [pc : {"idle", "lock", "scan", "sent"}, count : 0..Limit,
                    ops : Seq(Ops), prev : Zero..Done]
      /\ offset \in Zero..Done /\ file \in Zero..Done
  <2>1. 0 \in 0..Limit
    BY ChangeCaptureAssumption
  <2>2. <<>> \in Seq(Ops)
    OBVIOUS
  <2>3. ASSUME NEW o \in Zero..Done
        PROVE  /\ NoBatch(o) \in [pc : {"idle", "lock", "scan", "sent"}, count : 0..Limit,
                                  ops : Seq(Ops), prev : Zero..Done]
               /\ [NoBatch(o) EXCEPT !.pc = "sent"] \in
                      [pc : {"idle", "lock", "scan", "sent"}, count : 0..Limit,
                       ops : Seq(Ops), prev : Zero..Done]
    BY <2>1, <2>2, <2>3 DEF NoBatch
  <2>4. offset \in Zero..Done /\ file \in Zero..Done
    BY DEF TypeOK
  <2>5. Idle \in CallStates
    BY DEF CallStates
  <2> QED BY <2>2, <2>3, <2>4, <2>5
<1>1. ASSUME NEW w \in Writers, NEW k \in Keys, NEW edit \in Edits, Insert(w, k, edit) PROVE TypeOK'
  <2>1. Call("derive", k, edit, Absent, <<>>) \in CallStates
    BY <1>0, CallIsTyped
  <2>2. rows' \in [Keys -> Seq(Writers)] /\ all' \in [{"all"} -> Seq(Writers \union {Background})]
    BY <1>1 DEF Insert, TypeOK
  <2> QED BY <1>1, <2>1, <2>2, WriteTypes DEF Insert
<1>2. ASSUME NEW w \in Writers, NEW k \in Keys, NEW edit \in Edits, AskRow(w, k, edit) PROVE TypeOK'
  <2>1. Call("row", k, edit, Absent, <<>>) \in CallStates
    BY <1>0, CallIsTyped
  <2>2. rows' \in [Keys -> Seq(Writers)] /\ all' \in [{"all"} -> Seq(Writers \union {Background})]
    BY <1>2 DEF AskRow, TypeOK
  <2> QED BY <1>2, <2>1, <2>2, WriteTypes DEF AskRow
<1>3. ASSUME NEW w \in Writers, ReadNothing(w) \/ Exit(w) PROVE TypeOK'
  <2>1. call[w].key \in Keys
    BY <1>3, CallTypes DEF ReadNothing, Exit
  <2>2. rows' \in [Keys -> Seq(Writers)] /\ all' \in [{"all"} -> Seq(Writers \union {Background})]
    BY <1>3, <2>1 DEF ReadNothing, Exit, TypeOK
  <2> QED BY <1>0, <1>3, <2>2, WriteTypes DEF ReadNothing, Exit
<1>4. ASSUME NEW w \in Writers, Read(w) PROVE TypeOK'
  <2>1. /\ call[w].key \in Keys /\ call[w].edit \in Edits /\ call[w].ops \in Seq(Ops)
    BY <1>4, CallTypes DEF Read
  <2>2. store[call[w].key] \in Records \union {Absent}
    BY <2>1 DEF TypeOK
  <2>3. Call("derive", call[w].key, call[w].edit, store[call[w].key], call[w].ops) \in CallStates
    BY <2>1, <2>2, CallIsTyped
  <2>4. rows' \in [Keys -> Seq(Writers)] /\ all' \in [{"all"} -> Seq(Writers \union {Background})]
    BY <1>4 DEF Read, TypeOK
  <2> QED BY <1>4, <2>3, <2>4, WriteTypes DEF Read
<1>5. ASSUME NEW w \in Writers, Derive(w) PROVE TypeOK'
  <2>1. /\ call[w].key \in Keys /\ call[w].edit \in Edits
        /\ call[w].prev \in Records \union {Absent}
    BY <1>5, CallTypes DEF Derive
  <2>2. PICK ops \in Seq(Ops) :
           call' = [call EXCEPT ![w] = Call("all", call[w].key, call[w].edit, call[w].prev, ops)]
    <3>1. PICK next : next = Apply(call[w].edit, call[w].prev)
      OBVIOUS
    <3>2. call[w].prev.features \subseteq Features /\ next.features \subseteq Features
      BY <2>1, <3>1, AppliedIsRecord, FeaturesOfRecord
    <3>3. DeriveOps(call[w].key, call[w].prev, next, FALSE) \in Seq(Ops)
      BY <2>1, <3>2, DerivedTurns
    <3> QED BY <1>0, <1>5, <3>1, <3>3 DEF Derive
  <2>3. Call("all", call[w].key, call[w].edit, call[w].prev, ops) \in CallStates
    BY <2>1, CallIsTyped
  <2>4. rows' \in [Keys -> Seq(Writers)] /\ all' \in [{"all"} -> Seq(Writers \union {Background})]
    BY <1>5 DEF Derive, TypeOK
  <2> QED BY <1>5, <2>2, <2>3, <2>4, WriteTypes DEF Derive
<1>6. ASSUME NEW w \in Writers, Store(w) PROVE TypeOK'
  <2>1. /\ call[w].key \in Keys /\ call[w].edit \in Edits
        /\ call[w].prev \in Records \union {Absent}
        /\ [call[w] EXCEPT !.pc = "stored"] \in CallStates
    BY <1>6, CallTypes DEF Store
  <2>2. Apply(call[w].edit, call[w].prev) \in Records \union {Absent}
    BY <2>1, AppliedIsRecord
  <2>3. store' \in [Keys -> Records \union {Absent}]
    BY <1>6, <2>1, <2>2 DEF Store, TypeOK
  <2>4. call' \in [Writers -> CallStates]
    BY <1>6, <2>1 DEF Store, TypeOK, CallStates
  <2>5. UNCHANGED <<index, net, rows, all, offset, file, batch, missed>>
    BY <1>6 DEF Store
  <2> QED BY <2>3, <2>4, <2>5 DEF TypeOK, CallStates
<1>7. ASSUME NEW w \in Writers, Send(w) \/ FailReplication(w) PROVE TypeOK'
  <2>1. /\ call[w].key \in Keys /\ call[w].ops \in Seq(Ops)
        /\ AfterSubmit(w) \in CallStates
    BY <1>0, <1>7, CallTypes DEF Send, FailReplication, AfterSubmit
  <2>2. all' \in [{"all"} -> Seq(Writers \union {Background})]
    BY <1>7 DEF Send, FailReplication
  <2>3. net' \in Seq(Ops)
    <3>1. net \in Seq(Ops) /\ net \o call[w].ops \in Seq(Ops)
      BY <2>1 DEF TypeOK
    <3>2. net' = net \/ net' = net \o call[w].ops
      BY <1>7 DEF Send, FailReplication
    <3> QED BY <3>1, <3>2
  <2>4. missed' \subseteq Keys
    BY <1>7, <2>1 DEF Send, FailReplication, TypeOK
  <2>5. call' \in [Writers -> CallStates]
    BY <1>7, <2>1 DEF Send, FailReplication, TypeOK, CallStates
  <2>6. UNCHANGED <<store, index, rows, offset, file, batch>>
    BY <1>7 DEF Send, FailReplication
  <2> QED BY <2>2, <2>3, <2>4, <2>5, <2>6 DEF TypeOK, CallStates
<1>8. CASE StartRound
  <2>1. all' \in [{"all"} -> Seq(Writers \union {Background})]
    BY <1>8 DEF StartRound
  <2> QED BY <1>8, <2>1 DEF StartRound, TypeOK
<1>9. CASE ScanRecord
  <2>1. PICK k : k = Min(Ahead)
    OBVIOUS
  <2>2. k \in Keys /\ store[k] \in Records \union {Absent}
    BY <1>9, <2>1, NextScanned DEF ScanRecord, TypeOK
  <2>3. store[k].features \subseteq Features /\ Absent.features \subseteq Features
    BY <2>2, FeaturesOfRecord
  <2>4. PICK ops \in Seq(Ops) : ops = DeriveOps(k, Absent, store[k], TRUE)
    BY <2>2, <2>3, DerivedTurns
  <2>5. batch' = [batch EXCEPT !.pc = "scan", !.count = batch.count + 1, !.ops = batch.ops \o ops]
    BY <1>9, <2>1, <2>4 DEF ScanRecord
  <2>6. batch.ops \o ops \in Seq(Ops) /\ batch.count + 1 \in 0..Limit
    BY SMTT(60), <1>9, ChangeCaptureAssumption DEF ScanRecord, TypeOK
  <2>7. offset' = k /\ k \in Zero..Done
    BY <1>9, <2>1, <2>2, ChangeCaptureAssumption DEF ScanRecord, Keys, Zero, Done
  <2>8. missed' \subseteq Keys
    BY ZenonT(60), <1>9, CallTypes DEF ScanRecord, Overrun, TypeOK
  <2>9. UNCHANGED <<store, index, net, rows, all, call, file>>
    BY <1>9 DEF ScanRecord
  <2> QED BY <2>5, <2>6, <2>7, <2>8, <2>9 DEF TypeOK
<1>10. CASE Commit
  <2>1. offset' \in Zero..Done /\ file' \in Zero..Done
    BY SMTT(60), <1>10, ChangeCaptureAssumption DEF Commit, OffsetAfter, TypeOK, Zero, Done
  <2>2. net' \in Seq(Ops)
    <3>1. batch.ops \in Seq(Ops) /\ net \in Seq(Ops)
      BY DEF TypeOK
    <3> QED BY <1>10, <3>1 DEF Commit
  <2>3. batch' \in [pc : {"idle", "lock", "scan", "sent"}, count : 0..Limit, ops : Seq(Ops),
                    prev : Zero..Done]
    BY <1>0, <1>10, <2>1 DEF Commit
  <2>4. missed' \subseteq Keys
    <3>1. \A w \in Writers : call[w].pc = "all" => call[w].key \in Keys
      BY CallTypes
    <3>2. \A n : Overrun(n) \subseteq Keys
      BY <3>1 DEF Overrun
    <3>3. missed' = missed \union Overrun(offset')
      BY <1>10 DEF Commit
    <3> QED BY <3>2, <3>3 DEF TypeOK
  <2>5. UNCHANGED <<store, index, rows, all, call>>
    BY <1>10 DEF Commit
  <2> QED BY <2>1, <2>2, <2>3, <2>4, <2>5 DEF TypeOK
<1>11. CASE EndRound
  <2>1. all' \in [{"all"} -> Seq(Writers \union {Background})]
    BY <1>11 DEF EndRound
  <2>2. batch' \in [pc : {"idle", "lock", "scan", "sent"}, count : 0..Limit, ops : Seq(Ops),
                    prev : Zero..Done]
    BY <1>0, <1>11 DEF EndRound
  <2> QED BY <1>11, <2>1, <2>2 DEF EndRound, TypeOK
<1>12. CASE ExecuteFirst
  <2>1. Head(net) \in Ops /\ Tail(net) \in Seq(Ops)
    BY <1>12 DEF ExecuteFirst, TypeOK
  <2>2. index' \subseteq Features \X Keys
    BY <1>12, <2>1 DEF ExecuteFirst, Execute, Ops, TypeOK
  <2> QED BY <1>12, <2>1, <2>2 DEF ExecuteFirst, TypeOK
<1>13. ASSUME NEW i \in DOMAIN net, ExecuteLater(i) PROVE TypeOK'
  <2>1. net[i] \in Ops /\ RemoveAt(net, i) \in Seq(Ops)
    <3>1. SubSeq(net, 1, i-1) \in Seq(Ops) /\ SubSeq(net, i+1, Len(net)) \in Seq(Ops)
      BY DEF TypeOK
    <3> QED BY <3>1 DEF RemoveAt, TypeOK
  <2>2. index' \subseteq Features \X Keys
    BY <1>13, <2>1 DEF ExecuteLater, Execute, Ops, TypeOK
  <2>3. missed' \subseteq Keys
    BY <1>13, <2>1 DEF ExecuteLater, Ops, TypeOK
  <2> QED BY <1>13, <2>1, <2>2, <2>3 DEF ExecuteLater, TypeOK
<1>14. CASE Crash
  <2>1. net' \in Seq(Ops)
    <3>1. PICK n \in 0..Len(net) : net' = Unawaited(SubSeq(net, 1, n))
      BY <1>14 DEF Crash
    <3>2. SubSeq(net, 1, n) \in Seq(Ops)
      BY DEF TypeOK
    <3> QED BY <3>1, <3>2, UnawaitedDoTheSame
  <2>2. missed' \subseteq Keys
    <3>1. \A w \in Writers : call[w].pc = "stored" => call[w].key \in Keys
      BY CallTypes
    <3>2. \A i \in DOMAIN net : net[i].key \in Keys
      <4>1. \A i \in DOMAIN net : net[i] \in Ops
        BY DEF TypeOK
      <4> QED BY <4>1 DEF Ops
    <3> QED BY <1>14, <3>1, <3>2 DEF Crash, TypeOK
  <2>3. /\ rows' \in [Keys -> Seq(Writers)]
        /\ all' \in [{"all"} -> Seq(Writers \union {Background})]
        /\ call' \in [Writers -> CallStates]
    BY <1>0, <1>14 DEF Crash
  <2>4. /\ offset' = file /\ UNCHANGED <<store, index, file>>
        /\ batch' \in [pc : {"idle", "lock", "scan", "sent"}, count : 0..Limit, ops : Seq(Ops),
                       prev : Zero..Done]
    BY <1>0, <1>14 DEF Crash
  <2> QED BY <1>0, <2>1, <2>2, <2>3, <2>4 DEF TypeOK, CallStates
<1>15. CASE UNCHANGED vars
  BY <1>15 DEF vars, TypeOK
<1>16. CASE FailScan \/ FailCommit
  <2>1. /\ DropBatch
        /\ offset' = IF FailScan THEN Min(Ahead) ELSE OffsetAfter
    BY <1>16 DEF FailScan, FailCommit
  <2>2. offset' \in Zero..Done
    <3>1. CASE FailScan
      <4>1. Min(Ahead) \in Keys
        BY <3>1, NextScanned DEF FailScan
      <4> QED BY <2>1, <3>1, <4>1, ChangeCaptureAssumption DEF Keys, Zero, Done
    <3>2. CASE ~FailScan
      BY <2>1, <3>2, ChangeCaptureAssumption DEF OffsetAfter, TypeOK, Zero, Done
    <3> QED BY <3>1, <3>2
  <2>3. all' \in [{"all"} -> Seq(Writers \union {Background})]
    BY <2>1 DEF DropBatch
  <2>4. batch' \in [pc : {"idle", "lock", "scan", "sent"}, count : 0..Limit, ops : Seq(Ops),
                    prev : Zero..Done]
    <3>1. PICK o : o = offset'
      OBVIOUS
    <3>2. batch' = NoBatch(o) /\ o \in Zero..Done
      BY <2>1, <2>2, <3>1 DEF DropBatch
    <3> QED BY <1>0, <3>2
  <2>5. missed' \subseteq Keys
    <3>1. \A w \in Writers : call[w].pc = "all" => call[w].key \in Keys
      BY CallTypes
    <3>2. \A n : Overrun(n) \subseteq Keys
      BY <3>1 DEF Overrun
    <3>3. missed' \subseteq (missed \union Overrun(offset')) \union Keys
      BY <2>1 DEF DropBatch
    <3> QED BY <3>2, <3>3 DEF TypeOK
  <2>6. UNCHANGED <<store, index, net, rows, call, file>>
    BY <2>1 DEF DropBatch
  <2> QED BY <2>2, <2>3, <2>4, <2>5, <2>6 DEF TypeOK
<1>17. CASE RejectRound
  <2>1. all' \in [{"all"} -> Seq(Writers \union {Background})]
    BY <1>17 DEF RejectRound
  <2>2. net' \in Seq(Ops)
    BY <1>17, UnawaitedDoTheSame DEF RejectRound, TypeOK
  <2>3. batch' \in [pc : {"idle", "lock", "scan", "sent"}, count : 0..Limit, ops : Seq(Ops),
                    prev : Zero..Done]
    BY <1>0, <1>17 DEF RejectRound
  <2> QED BY <1>17, <2>1, <2>2, <2>3 DEF RejectRound, TypeOK
<1>18. ASSUME NEW i \in DOMAIN net, LoseOp(i) \/ LoseAwaited(i) PROVE TypeOK'
  <2>1. net \in Seq(Ops)
    BY DEF TypeOK
  <2>2. net[i] \in Ops /\ RemoveAt(net, i) \in Seq(Ops)
    BY <2>1, Removed
  <2>3. net' \in Seq(Ops)
    BY <1>18, <2>2, UnawaitedDoTheSame DEF LoseOp, LoseAwaited
  <2>4. missed' \subseteq Keys
    BY <1>18, <2>2 DEF LoseOp, LoseAwaited, Ops, TypeOK
  <2>5. all' \in [{"all"} -> Seq(Writers \union {Background})]
    BY <1>18 DEF LoseOp, LoseAwaited, TypeOK
  <2>6. batch' \in [pc : {"idle", "lock", "scan", "sent"}, count : 0..Limit, ops : Seq(Ops),
                    prev : Zero..Done]
    <3>1. batch' = batch \/ batch' = NoBatch(offset)
      BY <1>18 DEF LoseOp, LoseAwaited
    <3> QED BY <1>0, <3>1 DEF TypeOK
  <2>7. UNCHANGED <<store, index, rows, call, offset, file>>
    BY <1>18 DEF LoseOp, LoseAwaited
  <2> QED BY <2>3, <2>4, <2>5, <2>6, <2>7 DEF TypeOK
<1> QED BY <1>1, <1>2, <1>3, <1>4, <1>5, <1>6, <1>7, <1>8, <1>9, <1>10, <1>11, <1>12, <1>13,
           <1>14, <1>15, <1>16, <1>17, <1>18 DEF Next, WriteStep, BackgroundStep

-----------------------------------------------------------------------------
\* The invariant.

\* Who stores or scans is inside the block-wide lock until the operations are sent.
Locked ==
    /\ \A w \in Writers : call[w].pc = "stored" => All!Holds(w, "all")
    /\ batch.pc \in {"scan", "sent"} => All!Holds(Background, "all")

\* The offset moves only during a round and is then ahead of the one in the file;
\* between rounds no operations wait.
OffsetSaved == /\ file <= batch.prev /\ batch.prev <= offset
               /\ batch.pc # "scan" => batch.prev = offset /\ batch.ops = <<>>

\* Nothing of the pending zone was derived, nor anything beyond the offset that the
\* round began with sent, but for keys that a crash took back after a failed round.
Captured ==
    /\ \A f \in Features, k \in Keys : <<f, k>> \in index => k <= batch.prev \/ k \in missed
    /\ \A i \in DOMAIN net : net[i].key <= batch.prev \/ net[i].key \in missed
    /\ \A i \in DOMAIN batch.ops : batch.prev < batch.ops[i].key /\ batch.ops[i].key <= offset
    /\ \A w \in Writers : call[w].pc # "idle" =>
          \A i \in DOMAIN call[w].ops : call[w].ops[i].key = call[w].key /\ call[w].key <= offset
    /\ \A w \in Writers : call[w].pc \in {"row", "derive"} => call[w].ops = <<>>

\* What a call has derived when it stores its record: nothing if the scan has yet
\* to come to the key, else what the change does to the entries.
Derived(c) ==
    IF offset < c.key THEN c.ops = <<>>
    ELSE Turns(c.ops, c.key, c.prev.features, Apply(c.edit, c.prev).features)

DerivedInTime ==
    \A w \in Writers : call[w].pc = "all" /\ call[w].key \notin missed => Derived(call[w])

IndexInv == /\ TypeOK /\ Inv /\ Locked /\ OffsetSaved /\ Captured
            /\ DerivedInTime /\ IndexFollowsStoreUnlessMissed

\* Where the operations are that were not sent yet.
UnsentIn ==
    /\ Unsent \in Seq(Ops)
    /\ \A w \in Writers : call[w].pc = "stored" => Unsent = call[w].ops
    /\ batch.pc = "scan" => Unsent = batch.ops
    /\ (batch.pc # "scan" /\ \A w \in Writers : call[w].pc # "stored") => Unsent = <<>>

\* At most one of the calls and the background task has any, the holder of the lock.
LEMMA UnsentIs == TypeOK /\ Locked /\ OffsetSaved => UnsentIn
<1> SUFFICES ASSUME TypeOK, Locked, OffsetSaved PROVE UnsentIn
  OBVIOUS
<1>1. Background \notin Writers
  BY ChangeCaptureAssumption DEF Background
<1>2. CASE All!Holds(Background, "all")
  <2>1. \A w \in Writers : ~All!Holds(w, "all")
    BY <1>1, <1>2 DEF All!Holds
  <2>2. Unsent = batch.ops
    BY <1>2, <2>1 DEF Unsent
  <2>3. batch.ops \in Seq(Ops)
    BY DEF TypeOK
  <2> QED BY <2>1, <2>2, <2>3 DEF UnsentIn, Locked, OffsetSaved
<1>3. CASE ~All!Holds(Background, "all") /\ \E w \in Writers : All!Holds(w, "all") /\ call[w].pc = "stored"
  <2>1. PICK w \in Writers : All!Holds(w, "all") /\ call[w].pc = "stored"
    BY <1>3
  <2>2. Head(all["all"]) = w
    BY <2>1 DEF All!Holds
  <2>3. Unsent = call[w].ops
    BY <1>3, <2>2 DEF Unsent
  <2>4. \A v \in Writers : call[v].pc = "stored" => v = w
    BY <2>1 DEF Locked, All!Holds
  <2>5. call[w].ops \in Seq(Ops)
    BY <2>1, CallTypes
  <2> QED BY <1>3, <2>1, <2>3, <2>4, <2>5 DEF UnsentIn, Locked
<1>4. CASE ~All!Holds(Background, "all") /\ ~\E w \in Writers : All!Holds(w, "all") /\ call[w].pc = "stored"
  <2>1. Unsent = <<>>
    BY <1>4 DEF Unsent
  <2> QED BY <1>4, <2>1 DEF UnsentIn, Locked
<1> QED BY <1>2, <1>3, <1>4

\* And after a step.
LEMMA UnsentIsNext == (TypeOK /\ Locked /\ OffsetSaved => UnsentIn)'
  BY UnsentIs, PTL

\* A line that is joined keeps its head, one that is left had the one who leaves.
LEMMA HoldersStay ==
    ASSUME TypeOK, NEW p \in Writers \union {Background}, NEW q
    PROVE  /\ All!Join(p, "all") /\ All!Holds(q, "all") => All!Holds(q, "all")'
           /\ All!Leave(p, "all") /\ All!Holds(q, "all") => q = p
           /\ all' = all /\ All!Holds(q, "all") => All!Holds(q, "all")'
<1>1. all \in [{"all"} -> Seq(Writers \union {Background})] /\ all["all"] \in Seq(Writers \union {Background})
  BY DEF TypeOK
<1>2. ASSUME All!Join(p, "all"), All!Holds(q, "all") PROVE All!Holds(q, "all")'
  <2>1. all' = [all EXCEPT !["all"] = Append(all["all"], p)]
    BY <1>2 DEF All!Join
  <2>2. all["all"] # <<>> /\ Head(all["all"]) = q
    BY <1>2 DEF All!Holds
  <2>3. Append(all["all"], p) # <<>> /\ Head(Append(all["all"], p)) = q
    BY <1>1, <2>2
  <2> QED BY <1>1, <2>1, <2>3 DEF All!Holds
<1>3. ASSUME All!Leave(p, "all"), All!Holds(q, "all") PROVE q = p
  BY <1>3 DEF All!Leave, All!Holds
<1>4. ASSUME all' = all, All!Holds(q, "all") PROVE All!Holds(q, "all")'
  BY <1>4 DEF All!Holds
<1> QED BY <1>2, <1>3, <1>4

\* A call or the background task joins the line before it stores or scans, and
\* leaves it only when it has sent its operations, or given up.
LEMMA LockedStays == TypeOK /\ Inv /\ Locked /\ [Next]_vars => Locked'
<1> SUFFICES ASSUME TypeOK, Inv, Locked, [Next]_vars PROVE Locked'
  OBVIOUS
<1>0. Background \notin Writers /\ DOMAIN call = Writers /\ Idle.pc = "idle"
  BY ChangeCaptureAssumption DEF Background, TypeOK, Idle
<1>1. ASSUME UNCHANGED <<all, batch>>,
             \A w \in Writers : call'[w].pc = "stored" => call[w].pc = "stored"
      PROVE  Locked'
  BY <1>1, HoldersStay DEF Locked
<1>2. ASSUME NEW w \in Writers, NEW k \in Keys, NEW edit \in Edits,
             Insert(w, k, edit) \/ AskRow(w, k, edit)
      PROVE  Locked'
  <2>1. PICK c : call' = [call EXCEPT ![w] = c] /\ c.pc # "stored"
    BY <1>2, CallFields DEF Insert, AskRow
  <2> QED BY <1>0, <1>1, <1>2, <2>1 DEF Insert, AskRow
<1>3. ASSUME NEW w \in Writers, ReadNothing(w) \/ Read(w) \/ Exit(w) PROVE Locked'
  <2>1. PICK c : call' = [call EXCEPT ![w] = c] /\ c.pc # "stored"
    <3>1. CASE Read(w)
      <4>1. PICK c : c = Call("derive", call[w].key, call[w].edit, store[call[w].key], call[w].ops)
        OBVIOUS
      <4>2. c.pc = "derive"
        BY <4>1, CallFields
      <4>3. call' = [call EXCEPT ![w] = c]
        BY <3>1, <4>1 DEF Read
      <4> QED BY <4>2, <4>3
    <3>2. CASE ReadNothing(w) \/ Exit(w)
      BY <1>0, <3>2 DEF ReadNothing, Exit
    <3> QED BY <1>3, <3>1, <3>2
  <2> QED BY <1>0, <1>1, <1>3, <2>1 DEF ReadNothing, Read, Exit
<1>4. ASSUME NEW w \in Writers, Derive(w) PROVE Locked'
  <2>1. PICK c : call' = [call EXCEPT ![w] = c] /\ c.pc # "stored"
    <3>1. PICK ops : call' = [call EXCEPT ![w] = Call("all", call[w].key, call[w].edit, call[w].prev, ops)]
      BY <1>4 DEF Derive
    <3>2. Call("all", call[w].key, call[w].edit, call[w].prev, ops).pc = "all"
      BY CallFields
    <3> QED BY <3>1, <3>2
  <2>2. All!Join(w, "all") /\ batch' = batch
    BY <1>4 DEF Derive
  <2> QED BY <1>0, <2>1, <2>2, HoldersStay DEF Locked
<1>5. ASSUME NEW w \in Writers, Store(w) PROVE Locked'
  <2>1. /\ \A v \in Writers \ {w} : call'[v] = call[v]
        /\ All!Holds(w, "all") /\ all' = all /\ batch' = batch
    BY <1>0, <1>5 DEF Store
  <2> QED BY <2>1, HoldersStay DEF Locked
<1>6. ASSUME NEW w \in Writers, Send(w) \/ FailReplication(w) PROVE Locked'
  <2>1. AfterSubmit(w).pc # "stored"
    <3>1. CASE call[w].edit.kind = "insert"
      BY <1>0, <3>1 DEF AfterSubmit
    <3>2. CASE call[w].edit.kind # "insert"
      <4>1. call[w] = Call(call[w].pc, call[w].key, call[w].edit, call[w].prev, call[w].ops)
        BY <1>6, CallOnItsWay DEF Send, FailReplication
      <4>2. AfterSubmit(w) = Call("exit", call[w].key, call[w].edit, call[w].prev, call[w].ops)
        BY <3>2, <4>1, CallUpdates DEF AfterSubmit
      <4> QED BY <4>2, CallFields
    <3> QED BY <3>1, <3>2
  <2>2. All!Leave(w, "all") /\ batch' = batch /\ call' = [call EXCEPT ![w] = AfterSubmit(w)]
    BY <1>6 DEF Send, FailReplication
  <2>3. \A v \in Writers : call'[v].pc # "stored"
    BY <1>0, <2>1, <2>2, HoldersStay DEF Locked
  <2>4. batch.pc \notin {"scan", "sent"}
    BY <1>0, <2>2, HoldersStay DEF Locked
  <2> QED BY <2>2, <2>3, <2>4 DEF Locked
<1>7. CASE StartRound
  <2>1. /\ All!Join(Background, "all") /\ call' = call
        /\ batch'.pc = "lock"
    BY <1>7 DEF StartRound, TypeOK
  <2> QED BY <2>1, HoldersStay DEF Locked
<1>8. CASE ScanRecord \/ Commit
  <2>1. All!Holds(Background, "all") /\ all' = all /\ call' = call
    BY <1>8 DEF ScanRecord, Commit, Scanning
  <2> QED BY <2>1, HoldersStay DEF Locked
<1>9. CASE \/ EndRound \/ FailScan \/ FailCommit \/ RejectRound
           \/ \E i \in DOMAIN net : LoseAwaited(i)
  <2>1. All!Leave(Background, "all") /\ call' = call /\ batch'.pc = "idle"
    BY <1>9 DEF EndRound, FailScan, FailCommit, DropBatch, RejectRound, LoseAwaited, NoBatch
  <2>2. \A v \in Writers : call[v].pc # "stored"
    BY <1>0, <2>1, HoldersStay DEF Locked
  <2> QED BY <2>1, <2>2 DEF Locked
<1>10. CASE ExecuteFirst \/ (\E i \in DOMAIN net : ExecuteLater(i) \/ LoseOp(i)) \/ UNCHANGED vars
  BY <1>1, <1>10 DEF ExecuteFirst, ExecuteLater, LoseOp, vars
<1>11. CASE Crash
  <2>1. call' = [w \in Writers |-> Idle] /\ batch'.pc = "idle"
    BY <1>11 DEF Crash, NoBatch
  <2> QED BY <1>0, <2>1 DEF Locked
<1> QED BY <1>2, <1>3, <1>4, <1>5, <1>6, <1>7, <1>8, <1>9, <1>10, <1>11
        DEF Next, WriteStep, BackgroundStep

\* The record that FailScan or FailCommit reach is ahead of the offset.
LEMMA DropBatchReaches ==
    ASSUME TypeOK, FailScan \/ FailCommit
    PROVE  DropBatch /\ offset' \in Nat /\ offset <= offset'
<1>1. offset \in Nat /\ Done \in Nat /\ offset <= Done
  BY ChangeCaptureAssumption DEF TypeOK, Zero, Done
<1>2. CASE FailScan
  <2>1. Min(Ahead) \in Nat /\ Min(Ahead) > offset
    BY <1>2, NextScanned DEF FailScan, Keys
  <2>2. DropBatch /\ offset' = Min(Ahead)
    BY <1>2 DEF FailScan
  <2>3. PICK m \in Nat : m = Min(Ahead)
    BY <2>1
  <2> QED BY <1>1, <2>1, <2>2, <2>3
<1>3. CASE FailCommit
  BY <1>1, <1>3 DEF FailCommit, OffsetAfter
<1> QED BY <1>2, <1>3

\* The offset moves in a scan and is saved at its end; a crash takes it back.
LEMMA OffsetSavedStays == TypeOK /\ OffsetSaved /\ [Next]_vars => OffsetSaved'
<1> SUFFICES ASSUME TypeOK, OffsetSaved, [Next]_vars PROVE OffsetSaved'
  OBVIOUS
<1>0. /\ offset \in Nat /\ file \in Nat /\ offset <= Done /\ Done \in Nat /\ batch.prev \in Nat
      /\ \A o : NoBatch(o).prev = o /\ NoBatch(o).ops = <<>> /\ NoBatch(o).pc = "idle"
  BY ChangeCaptureAssumption DEF TypeOK, Zero, Done, NoBatch
<1>1. CASE UNCHANGED <<offset, file, batch>>
  BY <1>1 DEF OffsetSaved
<1>2. CASE StartRound
  <2>1. batch' = [batch EXCEPT !.pc = "lock"] /\ UNCHANGED <<offset, file>> /\ batch.pc = "idle"
    BY <1>2 DEF StartRound
  <2>2. batch'.prev = batch.prev /\ batch'.ops = batch.ops
    BY <2>1 DEF TypeOK
  <2> QED BY <2>1, <2>2 DEF OffsetSaved
<1>3. CASE ScanRecord
  <2>1. Min(Ahead) \in Nat /\ Min(Ahead) > offset
    BY <1>3, NextScanned DEF ScanRecord, Keys
  <2>2. batch'.prev = batch.prev /\ batch'.pc = "scan" /\ offset' = Min(Ahead) /\ file' = file
    BY <1>3 DEF ScanRecord, TypeOK
  <2>3. PICK m \in Nat : m = Min(Ahead)
    BY <2>1
  <2> QED BY <1>0, <2>1, <2>2, <2>3 DEF OffsetSaved
<1>4. CASE Commit
  <2>1. offset' \in Nat /\ file' = offset'
    BY <1>0, <1>4 DEF Commit, OffsetAfter
  <2>2. batch'.prev = offset' /\ batch'.ops = <<>>
    BY <1>4 DEF Commit, NoBatch
  <2> QED BY <2>1, <2>2 DEF OffsetSaved
<1>5. CASE EndRound \/ RejectRound \/ (\E i \in DOMAIN net : LoseAwaited(i))
  <2>1. batch' = NoBatch(offset) /\ UNCHANGED <<offset, file>>
    BY <1>5 DEF EndRound, RejectRound, LoseAwaited
  <2>2. file <= offset
    BY <1>0 DEF OffsetSaved
  <2> QED BY <1>0, <2>1, <2>2 DEF OffsetSaved
<1>6. CASE Crash
  BY <1>0, <1>6 DEF Crash, OffsetSaved
<1>7. ASSUME NEW w \in Writers, WriteStep(w) \/ (\E k \in Keys, edit \in Edits : Insert(w, k, edit) \/ AskRow(w, k, edit))
      PROVE  UNCHANGED <<offset, file, batch>>
  BY <1>7 DEF WriteStep, Insert, AskRow, ReadNothing, Read, Derive, Store, Send, FailReplication, Exit
<1>8. CASE ExecuteFirst \/ (\E i \in DOMAIN net : ExecuteLater(i) \/ LoseOp(i)) \/ UNCHANGED vars
  BY <1>1, <1>8 DEF ExecuteFirst, ExecuteLater, LoseOp, vars
<1>9. CASE FailScan \/ FailCommit
  <2>1. offset' \in Nat /\ offset <= offset' /\ file' = file /\ batch' = NoBatch(offset')
    BY <1>9, DropBatchReaches DEF DropBatch
  <2>2. file <= offset'
    BY <1>0, <2>1 DEF OffsetSaved
  <2> QED BY <1>0, <2>1, <2>2 DEF OffsetSaved
<1> QED BY <1>1, <1>2, <1>3, <1>4, <1>5, <1>6, <1>7, <1>8, <1>9 DEF Next, BackgroundStep

\* Operations of two sequences.
LEMMA KeysOfBoth ==
    ASSUME NEW s \in Seq(Ops), NEW t \in Seq(Ops), NEW n, NEW M,
           \A i \in DOMAIN s : s[i].key <= n \/ s[i].key \in M,
           \A i \in DOMAIN t : t[i].key <= n \/ t[i].key \in M
    PROVE  \A i \in DOMAIN (s \o t) : (s \o t)[i].key <= n \/ (s \o t)[i].key \in M
<1>1. ASSUME NEW i \in DOMAIN (s \o t)
      PROVE  (i \in DOMAIN s /\ (s \o t)[i] = s[i]) \/ \E j \in DOMAIN t : (s \o t)[i] = t[j]
  <2>1. DOMAIN s = 1..Len(s) /\ Len(s) \in Nat /\ DOMAIN t = 1..Len(t) /\ Len(t) \in Nat
        /\ i \in 1..(Len(s) + Len(t))
    OBVIOUS
  <2>2. CASE i \in 1..Len(s)
    BY <2>1, <2>2
  <2>3. CASE i \notin 1..Len(s)
    <3>1. i - Len(s) \in 1..Len(t) /\ (s \o t)[i] = t[i - Len(s)]
      BY <2>1, <2>3
    <3> QED BY <2>1, <3>1
  <2> QED BY <2>2, <2>3
<1> QED BY <1>1

\* A step of one call: the others stay what they are.
LEMMA CapturedByCall ==
    ASSUME TypeOK, Captured, NEW w \in Writers, NEW c, call' = [call EXCEPT ![w] = c],
           c.pc # "idle" => \A i \in DOMAIN c.ops : c.ops[i].key = c.key /\ c.key <= offset,
           c.pc \in {"row", "derive"} => c.ops = <<>>,
           UNCHANGED <<index, offset, batch>>, missed \subseteq missed',
           \A i \in DOMAIN net' : net'[i].key <= batch.prev \/ net'[i].key \in missed
    PROVE  Captured'
<1>1. DOMAIN call = Writers
  BY DEF TypeOK
<1>2. \A v \in Writers : call'[v] = IF v = w THEN c ELSE call[v]
  BY <1>1
<1> QED BY <1>2 DEF Captured

\* Operations are derived up to the offset and sent when it is saved.
LEMMA CapturedStays == TypeOK /\ Inv /\ Locked /\ OffsetSaved /\ Captured /\ [Next]_vars => Captured'
<1> SUFFICES ASSUME TypeOK, Inv, Locked, OffsetSaved, Captured, [Next]_vars PROVE Captured'
  OBVIOUS
<1>0. /\ offset \in Nat /\ file \in Nat /\ offset <= Done /\ Done \in Nat /\ batch.prev \in Nat
      /\ Idle.pc = "idle" /\ DOMAIN <<>> = {}
  BY ChangeCaptureAssumption DEF TypeOK, Zero, Done, Idle
<1>1. ASSUME NEW w \in Writers, NEW k \in Keys, NEW edit \in Edits,
             Insert(w, k, edit) \/ AskRow(w, k, edit)
      PROVE  Captured'
  <2>1. PICK c : call' = [call EXCEPT ![w] = c] /\ c.pc \in {"derive", "row"} /\ c.ops = <<>>
    BY <1>1, CallFields DEF Insert, AskRow
  <2>2. UNCHANGED <<index, offset, missed, batch, net>>
    BY <1>1 DEF Insert, AskRow
  <2>3. \A i \in DOMAIN net' : net'[i].key <= batch.prev \/ net'[i].key \in missed
    BY <2>2 DEF Captured
  <2> QED BY <1>0, <2>1, <2>2, <2>3, CapturedByCall
<1>2. ASSUME NEW w \in Writers, ReadNothing(w) \/ Exit(w) PROVE Captured'
  <2>1. UNCHANGED <<index, offset, missed, batch, net>> /\ call' = [call EXCEPT ![w] = Idle]
    BY <1>2 DEF ReadNothing, Exit
  <2>2. \A i \in DOMAIN net' : net'[i].key <= batch.prev \/ net'[i].key \in missed
    BY <2>1 DEF Captured
  <2> QED BY <1>0, <2>1, <2>2, CapturedByCall
<1>3. ASSUME NEW w \in Writers, Read(w) PROVE Captured'
  <2>1. PICK c : call' = [call EXCEPT ![w] = c] /\ c.pc = "derive" /\ c.ops = call[w].ops
    <3>1. PICK c : c = Call("derive", call[w].key, call[w].edit, store[call[w].key], call[w].ops)
      OBVIOUS
    <3>2. c.pc = "derive" /\ c.ops = call[w].ops
      BY <3>1, CallFields
    <3>3. call' = [call EXCEPT ![w] = c]
      BY <1>3, <3>1 DEF Read
    <3> QED BY <3>2, <3>3
  <2>2. UNCHANGED <<index, offset, missed, batch, net>> /\ call[w].ops = <<>>
    BY <1>3 DEF Read, Captured
  <2>3. \A i \in DOMAIN net' : net'[i].key <= batch.prev \/ net'[i].key \in missed
    BY <2>2 DEF Captured
  <2> QED BY <1>0, <2>1, <2>2, <2>3, CapturedByCall
<1>4. ASSUME NEW w \in Writers, Derive(w) PROVE Captured'
  <2>1. PICK k, next : k = call[w].key /\ next = Apply(call[w].edit, call[w].prev)
    OBVIOUS
  <2>2. PICK ops : ops = IF InPendingZone(k) THEN <<>> ELSE DeriveOps(k, call[w].prev, next, FALSE)
    OBVIOUS
  <2>3. PICK c : /\ c = Call("all", k, call[w].edit, call[w].prev, ops)
                 /\ call' = [call EXCEPT ![w] = c] 
    BY <1>4, <2>1, <2>2 DEF Derive
  <2>4. c.pc = "all" /\ c.key = k /\ c.ops = ops
    BY <2>3, CallFields
  <2>5. \A i \in DOMAIN ops : ops[i].key = k /\ k <= offset
    <3>1. CASE InPendingZone(k)
      BY <1>0, <2>2, <3>1
    <3>2. CASE ~InPendingZone(k)
      <4>1. /\ k \in Keys /\ call[w].edit \in Edits /\ call[w].prev \in Records \union {Absent}
        BY <1>4, <2>1, CallTypes DEF Derive
      <4>2. call[w].prev.features \subseteq Features /\ next.features \subseteq Features
        BY <2>1, <4>1, AppliedIsRecord, FeaturesOfRecord
      <4>3. FALSE \in BOOLEAN
        OBVIOUS
      <4>4. \A i \in DOMAIN DeriveOps(k, call[w].prev, next, FALSE) :
               DeriveOps(k, call[w].prev, next, FALSE)[i].key = k
        BY <4>1, <4>2, <4>3, DerivedTurns, Zenon
      <4>5. k <= offset
        BY <1>0, <3>2, <4>1, ChangeCaptureAssumption DEF InPendingZone, Keys, Done
      <4>6. ops = DeriveOps(k, call[w].prev, next, FALSE)
        BY <2>2, <3>2, Zenon
      <4>7. \A i \in DOMAIN ops : ops[i].key = k
        BY <4>4, <4>6, Zenon
      <4> QED BY <4>5, <4>7
    <3> QED BY <3>1, <3>2
  <2>6. UNCHANGED <<index, offset, missed, batch, net>>
    BY <1>4 DEF Derive
  <2>7. \A i \in DOMAIN net' : net'[i].key <= batch.prev \/ net'[i].key \in missed
    BY <2>6 DEF Captured
  <2> QED BY <2>3, <2>4, <2>5, <2>6, <2>7, CapturedByCall
<1>5. ASSUME NEW w \in Writers, Store(w) \/ Send(w) \/ FailReplication(w) PROVE Captured'
  <2>1. /\ call[w] = Call(call[w].pc, call[w].key, call[w].edit, call[w].prev, call[w].ops)
        /\ call[w].pc # "idle"
    BY <1>5, CallOnItsWay DEF Store, Send, FailReplication
  <2>2. PICK c : call' = [call EXCEPT ![w] = c]
                 /\ (c = Idle \/ \E pc \in {"stored", "exit"} : c = [call[w] EXCEPT !.pc = pc])
    BY <1>5 DEF Store, Send, FailReplication, AfterSubmit
  <2>3. c.pc # "idle" => c.pc \in {"stored", "exit"} /\ c.key = call[w].key /\ c.ops = call[w].ops
    BY <1>0, <2>1, <2>2, CallUpdates, CallFields
  <2>4. \A i \in DOMAIN call[w].ops : call[w].ops[i].key = call[w].key /\ call[w].key <= offset
    BY <2>1 DEF Captured
  <2>5. UNCHANGED <<index, offset, batch>> /\ missed \subseteq missed'
    BY <1>5 DEF Store, Send, FailReplication
  <2>6. \A i \in DOMAIN net' : net'[i].key <= batch.prev \/ net'[i].key \in missed
    <3>1. CASE net' = net
      BY <3>1 DEF Captured
    <3>2. CASE Send(w)
      <4>1. batch.pc # "scan"
        <5>1. All!Holds(w, "all") /\ w # Background
          BY <3>2, ChangeCaptureAssumption DEF Send, All!Leave, Background
        <5> QED BY <5>1 DEF Locked, All!Holds
      <4>2. batch.prev = offset
        BY <4>1 DEF OffsetSaved
      <4>3. net \in Seq(Ops) /\ call[w].ops \in Seq(Ops) /\ net' = net \o call[w].ops
        BY <2>1, <3>2, CallTypes DEF Send, TypeOK
      <4>4. \A i \in DOMAIN net : net[i].key <= batch.prev \/ net[i].key \in missed
        BY DEF Captured
      <4>5. \A i \in DOMAIN call[w].ops : call[w].ops[i].key <= batch.prev
        BY <2>4, <4>2
      <4> QED BY <4>3, <4>4, <4>5, KeysOfBoth
    <3> QED BY <1>5, <3>1, <3>2 DEF Store, FailReplication
  <2> QED BY <1>0, <2>2, <2>3, <2>4, <2>5, <2>6, CapturedByCall
\* Steps that leave the calls alone and go on from a later offset.
<1>6. ASSUME batch'.ops = <<>>, call' = call, batch'.prev \in Nat, offset' \in Nat,
             offset <= offset', batch.prev <= batch'.prev, missed \subseteq missed',
             index' = index,
             \A i \in DOMAIN net' : net'[i].key <= batch'.prev \/ net'[i].key \in missed'
      PROVE  Captured'
  <2>1. Keys \subseteq Nat
    BY ChangeCaptureAssumption DEF Keys
  <2>2. \A w \in Writers : call[w].pc # "idle" => call[w].key \in Nat
    <3>1. \A w \in Writers : call[w].pc # "idle" => call[w].key \in Keys
      BY CallTypes
    <3> QED BY <2>1, <3>1
  <2>3. \A w \in Writers : call[w].pc # "idle" => (call[w].key <= offset => call[w].key <= offset')
    BY <1>0, <1>6, <2>2
  <2>4. \A k \in Keys : k <= batch.prev => k <= batch'.prev
    BY <1>0, <1>6, <2>1
  <2>5. \A f \in Features, k \in Keys : <<f, k>> \in index' => k <= batch'.prev \/ k \in missed'
    BY <1>6, <2>4 DEF Captured
  <2>6. \A w \in Writers : call'[w].pc # "idle" =>
           \A i \in DOMAIN call'[w].ops : call'[w].ops[i].key = call'[w].key /\ call'[w].key <= offset'
    BY <1>6, <2>3 DEF Captured
  <2>7. \A w \in Writers : call'[w].pc \in {"row", "derive"} => call'[w].ops = <<>>
    BY <1>6 DEF Captured
  <2> QED BY <1>0, <1>6, <2>5, <2>6, <2>7 DEF Captured
<1>7. CASE StartRound \/ EndRound
  <2>1. UNCHANGED <<index, net, call, offset, missed>> /\ batch.pc # "scan"
        /\ (StartRound => batch'.ops = batch.ops /\ batch'.prev = batch.prev)
        /\ (EndRound => batch'.ops = <<>> /\ batch'.prev = offset)
    BY <1>7 DEF StartRound, EndRound, NoBatch, TypeOK
  <2>2. batch'.ops = <<>> /\ batch'.prev = batch.prev
    BY <1>7, <2>1 DEF OffsetSaved
  <2> QED BY <1>0, <1>6, <2>1, <2>2 DEF Captured
<1>8. CASE ScanRecord
  <2>1. PICK k : k = Min(Ahead)
    OBVIOUS
  <2>2. k \in Keys /\ k > offset /\ store[k] \in Records \union {Absent} /\ k \in Nat
    <3>1. k \in Keys /\ k > offset
      BY <1>8, <2>1, NextScanned DEF ScanRecord
    <3> QED BY <3>1, ChangeCaptureAssumption DEF TypeOK, Keys
  <2>3. store[k].features \subseteq Features /\ Absent.features \subseteq Features
    BY <2>2, FeaturesOfRecord
  <2>4. PICK ops : ops = DeriveOps(k, Absent, store[k], TRUE)
    OBVIOUS
  <2>5. ops \in Seq(Ops) /\ \A i \in DOMAIN ops : ops[i].key = k
    <3>1. TRUE \in BOOLEAN
      OBVIOUS
    <3>2. /\ DeriveOps(k, Absent, store[k], TRUE) \in Seq(Ops)
          /\ \A i \in DOMAIN DeriveOps(k, Absent, store[k], TRUE) :
                DeriveOps(k, Absent, store[k], TRUE)[i].key = k
      BY <2>2, <2>3, <3>1, DerivedTurns, Zenon
    <3> QED BY <2>4, <3>2, Zenon
  <2>6. /\ batch'.ops = batch.ops \o ops /\ batch'.prev = batch.prev /\ offset' = k
        /\ UNCHANGED <<index, net, call>> /\ missed \subseteq missed'
    BY <1>8, <2>1, <2>4 DEF ScanRecord, TypeOK
  <2>7. batch.prev < k
    BY <1>0, <2>2 DEF OffsetSaved
  <2>8. \A i \in DOMAIN batch.ops : /\ batch.prev < batch.ops[i].key /\ batch.ops[i].key <= k
    <3>1. batch.ops \in Seq(Ops)
      BY DEF TypeOK
    <3>2. \A i \in DOMAIN batch.ops : batch.ops[i] \in Ops
      BY <3>1
    <3>3. \A i \in DOMAIN batch.ops : batch.ops[i].key \in Nat
      BY <3>2, ChangeCaptureAssumption DEF Ops, Keys
    <3> QED BY <1>0, <2>2, <3>3 DEF Captured
  <2>9. \A i \in DOMAIN batch'.ops : batch.prev < batch'.ops[i].key /\ batch'.ops[i].key <= k
    <3>1. batch.ops \in Seq(Ops)
      BY DEF TypeOK
    <3> QED BY <2>2, <2>5, <2>6, <2>7, <2>8, <3>1
  <2>10. \A w \in Writers : call[w].pc # "idle" => (call[w].key <= offset => call[w].key <= k)
    <3>1. \A w \in Writers : call[w].pc # "idle" => call[w].key \in Keys
      BY CallTypes
    <3>2. Keys \subseteq Nat
      BY ChangeCaptureAssumption DEF Keys
    <3>3. \A n \in Nat : n <= offset => n <= k
      BY <1>0, <2>2
    <3> QED BY <3>1, <3>2, <3>3
  <2> QED BY <2>6, <2>9, <2>10 DEF Captured
<1>9. CASE Commit
  <2>1. /\ offset' \in Nat /\ offset <= offset' /\ batch'.prev = offset' /\ missed \subseteq missed'
        /\ net' = net \o batch.ops /\ batch'.ops = <<>> /\ UNCHANGED <<index, call>>
    BY <1>0, <1>9 DEF Commit, OffsetAfter, NoBatch
  <2>2. batch.prev <= offset' /\ Keys \subseteq Nat
    BY <1>0, <2>1, ChangeCaptureAssumption DEF OffsetSaved, Keys
  <2>3. net \in Seq(Ops) /\ batch.ops \in Seq(Ops)
    BY DEF TypeOK
  <2>4. \A i \in DOMAIN net' : net'[i].key <= offset' \/ net'[i].key \in missed'
    <3>6. (\A i \in DOMAIN net : net[i] \in Ops) /\ (\A i \in DOMAIN batch.ops : batch.ops[i] \in Ops)
      BY <2>3
    <3>7. \A o \in Ops : o.key \in Nat
      BY <2>2 DEF Ops
    <3>1. /\ \A i \in DOMAIN net : net[i].key \in Nat
          /\ \A i \in DOMAIN batch.ops : batch.ops[i].key \in Nat
      BY <3>6, <3>7
    <3>2. \A i \in DOMAIN net : net[i].key <= offset' \/ net[i].key \in missed'
      BY <1>0, <2>1, <2>2, <3>1 DEF Captured
    <3>3. \A i \in DOMAIN batch.ops : batch.ops[i].key <= offset'
      BY <1>0, <2>1, <3>1 DEF Captured
    <3>4. PICK n, M : n = offset' /\ M = missed'
      OBVIOUS
    <3>5. \A i \in DOMAIN (net \o batch.ops) :
             (net \o batch.ops)[i].key <= n \/ (net \o batch.ops)[i].key \in M
      BY <2>3, <3>2, <3>3, <3>4, KeysOfBoth
    <3> QED BY <2>1, <3>4, <3>5
  <2> QED BY <1>6, <2>1, <2>2, <2>4
<1>10. CASE FailScan \/ FailCommit
  <2>1. /\ offset' \in Nat /\ offset <= offset' /\ missed \subseteq missed'
        /\ batch' = NoBatch(offset') /\ UNCHANGED <<index, net, call>>
    BY <1>10, DropBatchReaches DEF DropBatch
  <2>2. batch'.ops = <<>> /\ batch'.prev = offset'
    BY <2>1 DEF NoBatch
  <2>3. batch.prev <= offset' /\ Keys \subseteq Nat
    BY <1>0, <2>1, ChangeCaptureAssumption DEF OffsetSaved, Keys
  <2>4. \A i \in DOMAIN net : net[i].key \in Nat
    <3>1. net \in Seq(Ops)
      BY DEF TypeOK
    <3>2. \A i \in DOMAIN net : net[i] \in Ops
      BY <3>1
    <3> QED BY <2>3, <3>2 DEF Ops
  <2>5. \A i \in DOMAIN net' : net'[i].key <= offset' \/ net'[i].key \in missed'
    BY <1>0, <2>1, <2>3, <2>4 DEF Captured
  <2> QED BY <1>6, <2>1, <2>2, <2>3, <2>5
\* Steps that take operations out of those on their way.
<1>11. ASSUME NEW s, s \in Seq(Ops), \A i \in DOMAIN s : \E n \in DOMAIN net : s[i].key = net[n].key
       PROVE  \A i \in DOMAIN s : s[i].key <= batch.prev \/ s[i].key \in missed
  BY <1>11 DEF Captured
<1>12. ASSUME NEW i \in DOMAIN net
       PROVE  /\ net[i] \in Ops /\ RemoveAt(net, i) \in Seq(Ops)
              /\ \A j \in DOMAIN RemoveAt(net, i) :
                    RemoveAt(net, i)[j].key <= batch.prev \/ RemoveAt(net, i)[j].key \in missed
  <2>1. PICK t, u : t = SubSeq(net, 1, i-1) /\ u = SubSeq(net, i+1, Len(net))
    OBVIOUS
  <2>2. net \in Seq(Ops)
    BY DEF TypeOK
  <2>3. /\ t \in Seq(Ops) /\ u \in Seq(Ops) /\ net[i] \in Ops
        /\ RemoveAt(net, i) = t \o u /\ t \o u \in Seq(Ops)
        /\ \A j \in DOMAIN t : \E n \in DOMAIN net : t[j] = net[n]
        /\ \A j \in DOMAIN u : \E n \in DOMAIN net : u[j] = net[n]
    BY <2>1, <2>2, Removed, ZenonT(60)
  <2>4. /\ \A j \in DOMAIN t : t[j].key <= batch.prev \/ t[j].key \in missed
        /\ \A j \in DOMAIN u : u[j].key <= batch.prev \/ u[j].key \in missed
    BY <2>3 DEF Captured
  <2> QED BY <2>3, <2>4, KeysOfBoth
<1>13. CASE ExecuteFirst
  <2>1. net \in Seq(Ops) /\ net # <<>> /\ Head(net) = net[1] /\ 1 \in DOMAIN net /\ net[1] \in Ops
    BY <1>13 DEF ExecuteFirst, TypeOK
  <2>2. index' = Execute(index, net[1]) /\ net' = Tail(net) /\ UNCHANGED <<call, offset, missed, batch>>
    BY <1>13, <2>1 DEF ExecuteFirst
  <2>3. \A i \in DOMAIN net' : net'[i].key <= batch.prev \/ net'[i].key \in missed
    BY <2>1, <2>2 DEF Captured
  <2>4. \A f \in Features, k \in Keys : <<f, k>> \in index' => k <= batch.prev \/ k \in missed
    BY <2>1, <2>2 DEF Captured, Execute
  <2> QED BY <2>2, <2>3, <2>4 DEF Captured
<1>14. ASSUME NEW i \in DOMAIN net, ExecuteLater(i) \/ LoseOp(i) PROVE Captured'
  <2>1. /\ index' = Execute(index, net[i]) \/ index' = index
        /\ net' = RemoveAt(net, i) /\ UNCHANGED <<call, offset, batch>> /\ missed \subseteq missed'
    BY <1>14 DEF ExecuteLater, LoseOp
  <2>2. \A j \in DOMAIN net' : net'[j].key <= batch.prev \/ net'[j].key \in missed'
    BY <1>12, <2>1
  <2>3. \A f \in Features, k \in Keys : <<f, k>> \in index' => k <= batch.prev \/ k \in missed'
    BY <2>1 DEF Captured, Execute
  <2> QED BY <2>1, <2>2, <2>3 DEF Captured
<1>15. CASE RejectRound \/ \E i \in DOMAIN net : LoseAwaited(i)
  <2>1. PICK s : /\ s \in Seq(Ops) /\ net' = Unawaited(s)
                 /\ \A j \in DOMAIN s : s[j].key <= batch.prev \/ s[j].key \in missed
    <3>1. CASE RejectRound
      <4>1. net \in Seq(Ops) /\ net' = Unawaited(net)
        BY <3>1 DEF RejectRound, TypeOK
      <4> QED BY <4>1 DEF Captured
    <3>2. CASE \E i \in DOMAIN net : LoseAwaited(i)
      <4>1. PICK i \in DOMAIN net : LoseAwaited(i)
        BY <3>2
      <4>2. net' = Unawaited(RemoveAt(net, i))
        BY <4>1 DEF LoseAwaited
      <4> QED BY <1>12, <4>2
    <3> QED BY <1>15, <3>1, <3>2
  <2>2. /\ batch' = NoBatch(offset) /\ missed \subseteq missed' /\ UNCHANGED <<index, call, offset>>
    BY <1>15 DEF RejectRound, LoseAwaited
  <2>3. batch'.ops = <<>> /\ batch'.prev = offset
    BY <2>2 DEF NoBatch
  <2>4. batch.prev <= offset /\ Keys \subseteq Nat
    BY ChangeCaptureAssumption DEF OffsetSaved, Keys
  <2>5. \A j \in DOMAIN s : s[j].key \in Nat
    <3>1. \A j \in DOMAIN s : s[j] \in Ops
      BY <2>1
    <3> QED BY <2>4, <3>1 DEF Ops
  <2>6. DOMAIN net' = DOMAIN s /\ \A j \in DOMAIN s : net'[j].key = s[j].key
    BY <2>1, UnawaitedDoTheSame
  <2>7. \A j \in DOMAIN net' : net'[j].key <= batch'.prev \/ net'[j].key \in missed'
    BY <1>0, <2>1, <2>2, <2>3, <2>4, <2>5, <2>6
  <2>8. offset' \in Nat /\ offset <= offset'
    BY <1>0, <2>2
  <2> QED BY <1>0, <1>6, <2>2, <2>3, <2>4, <2>7, <2>8
<1>16. CASE Crash
  <2>1. PICK n \in 0..Len(net) : net' = Unawaited(SubSeq(net, 1, n))
    BY <1>16 DEF Crash
  <2>2. PICK s : s = SubSeq(net, 1, n)
    OBVIOUS
  <2>3. net \in Seq(Ops)
    BY DEF TypeOK
  <2>4. s \in Seq(Ops) /\ \A i \in DOMAIN s : i \in DOMAIN net /\ s[i] = net[i]
    BY SMTT(60), <2>2, <2>3
  <2>5. DOMAIN net' = DOMAIN s /\ \A i \in DOMAIN s : net'[i].key = s[i].key
    BY <2>1, <2>2, <2>4, UnawaitedDoTheSame
  <2>6. /\ call' = [w \in Writers |-> Idle] /\ batch'.ops = <<>> /\ batch'.prev = file
        /\ offset' = file /\ index' = index
        /\ missed \union {k \in Keys : file < k /\ k <= batch.prev} \subseteq missed'
    BY <1>16 DEF Crash, NoBatch
  <2>7. \A k \in Keys : k <= batch.prev \/ k \in missed => k <= file \/ k \in missed'
    <3>1. Keys \subseteq Nat
      BY ChangeCaptureAssumption DEF Keys
    <3> QED BY <1>0, <2>6, <3>1
  <2>8. \A i \in DOMAIN s : s[i].key \in Keys
    <3>1. \A i \in DOMAIN s : s[i] \in Ops
      BY <2>4
    <3> QED BY <3>1 DEF Ops
  <2>9. \A i \in DOMAIN net' : net'[i].key <= file \/ net'[i].key \in missed'
    BY <2>4, <2>5, <2>7, <2>8 DEF Captured
  <2>10. \A f \in Features, k \in Keys : <<f, k>> \in index' => k <= file \/ k \in missed'
    BY <2>6, <2>7 DEF Captured
  <2> QED BY <1>0, <2>6, <2>9, <2>10 DEF Captured
<1>17. CASE UNCHANGED vars
  BY <1>17 DEF vars, Captured
<1> QED BY <1>1, <1>2, <1>3, <1>4, <1>5, <1>7, <1>8, <1>9, <1>10, <1>13, <1>14, <1>15, <1>16, <1>17
        DEF Next, WriteStep, BackgroundStep

\* The calls that wait to store were derived for the offset there is, unless the
\* history names their key.
LEMMA DerivedInTimeStays ==
    TypeOK /\ Inv /\ OffsetSaved /\ DerivedInTime /\ [Next]_vars => DerivedInTime'
<1> SUFFICES ASSUME TypeOK, Inv, OffsetSaved, DerivedInTime, [Next]_vars PROVE DerivedInTime'
  OBVIOUS
<1>0. /\ offset \in Nat /\ Done \in Nat /\ offset <= Done /\ DOMAIN call = Writers /\ Idle.pc = "idle"
      /\ Keys \subseteq Nat /\ \A k \in Keys : k < Done
  BY ChangeCaptureAssumption DEF TypeOK, Zero, Done, Idle, Keys
<1>1. ASSUME offset' = offset, missed \subseteq missed',
             \A v \in Writers : call'[v].pc = "all" => call'[v] = call[v]
      PROVE  DerivedInTime'
  BY <1>1 DEF DerivedInTime, Derived
<1>2. ASSUME NEW w \in Writers, NEW c, c.pc # "all", call' = [call EXCEPT ![w] = c],
             offset' = offset, missed \subseteq missed'
      PROVE  DerivedInTime'
  BY <1>0, <1>1, <1>2
<1>3. ASSUME NEW w \in Writers, NEW k \in Keys, NEW edit \in Edits,
             Insert(w, k, edit) \/ AskRow(w, k, edit)
      PROVE  DerivedInTime'
  <2>1. PICK c : call' = [call EXCEPT ![w] = c] /\ c.pc # "all"
    BY <1>3, CallFields DEF Insert, AskRow
  <2> QED BY <1>2, <1>3, <2>1 DEF Insert, AskRow
<1>4. ASSUME NEW w \in Writers, ReadNothing(w) \/ Exit(w) PROVE DerivedInTime'
  BY <1>0, <1>2, <1>4 DEF ReadNothing, Exit
<1>5. ASSUME NEW w \in Writers, Read(w) PROVE DerivedInTime'
  <2>1. PICK c : c = Call("derive", call[w].key, call[w].edit, store[call[w].key], call[w].ops)
    OBVIOUS
  <2>2. c.pc # "all"
    BY <2>1, CallFields
  <2>3. call' = [call EXCEPT ![w] = c] /\ offset' = offset /\ missed' = missed
    BY <1>5, <2>1 DEF Read
  <2> QED BY <1>2, <2>2, <2>3
<1>6. ASSUME NEW w \in Writers, Derive(w) PROVE DerivedInTime'
  <2>1. PICK k, next : k = call[w].key /\ next = Apply(call[w].edit, call[w].prev)
    OBVIOUS
  <2>2. PICK ops : ops = IF InPendingZone(k) THEN <<>> ELSE DeriveOps(k, call[w].prev, next, FALSE)
    OBVIOUS
  <2>3. PICK c : /\ c = Call("all", k, call[w].edit, call[w].prev, ops)
                 /\ call' = [call EXCEPT ![w] = c]
    BY <1>6, <2>1, <2>2 DEF Derive
  <2>4. c.key = k /\ c.ops = ops /\ c.edit = call[w].edit /\ c.prev = call[w].prev
    BY <2>3, CallFields
  <2>5. /\ k \in Keys /\ call[w].edit \in Edits /\ call[w].prev \in Records \union {Absent}
    BY <1>6, <2>1, CallTypes DEF Derive
  <2>6. call[w].prev.features \subseteq Features /\ next.features \subseteq Features
    BY <2>1, <2>5, AppliedIsRecord, FeaturesOfRecord
  <2>7. IF offset < k THEN ops = <<>> ELSE Turns(ops, k, call[w].prev.features, next.features)
    <3>1. CASE offset < k
      <4>1. InPendingZone(k)
        BY <1>0, <2>5, <3>1 DEF InPendingZone, Keys, Done
      <4>2. ops = <<>>
        BY <2>2, <4>1, Zenon
      <4> QED BY <3>1, <4>2, Zenon
    <3>2. CASE ~(offset < k)
      <4>1. FALSE \in BOOLEAN
        OBVIOUS
      <4>2. Turns(DeriveOps(k, call[w].prev, next, FALSE), k, call[w].prev.features, next.features)
        BY <2>5, <2>6, <4>1, DerivedTurns, Zenon
      <4>3. ops = DeriveOps(k, call[w].prev, next, FALSE)
        BY <2>2, <3>2, Zenon DEF InPendingZone
      <4>4. Turns(ops, k, call[w].prev.features, next.features)
        BY <4>2, <4>3, Zenon
      <4> QED BY <3>2, <4>4
    <3> QED BY <3>1, <3>2
  <2>8. Derived(c)
    BY <2>1, <2>4, <2>7 DEF Derived
  <2>9. offset' = offset /\ missed' = missed
    BY <1>6 DEF Derive
  <2>10. \A v \in Writers : call'[v] = IF v = w THEN c ELSE call[v]
    BY <1>0, <2>3
  <2> QED BY <2>8, <2>9, <2>10 DEF DerivedInTime, Derived
<1>7. ASSUME NEW w \in Writers, Store(w) \/ Send(w) \/ FailReplication(w) PROVE DerivedInTime'
  <2>1. /\ call[w] = Call(call[w].pc, call[w].key, call[w].edit, call[w].prev, call[w].ops)
    BY <1>7, CallOnItsWay DEF Store, Send, FailReplication
  <2>2. PICK c : call' = [call EXCEPT ![w] = c]
                 /\ (c = Idle \/ \E pc \in {"stored", "exit"} : c = [call[w] EXCEPT !.pc = pc])
    BY <1>7 DEF Store, Send, FailReplication, AfterSubmit
  <2>3. c.pc # "all"
    BY <1>0, <2>1, <2>2, CallUpdates, CallFields
  <2>4. offset' = offset /\ missed \subseteq missed'
    BY <1>7 DEF Store, Send, FailReplication
  <2> QED BY <1>2, <2>2, <2>3, <2>4
<1>8. CASE ScanRecord \/ Commit \/ FailScan \/ FailCommit
  <2>1. /\ offset' \in Nat /\ offset <= offset' /\ call' = call
        /\ missed \union Overrun(offset') \subseteq missed'
    <3>1. CASE ScanRecord
      <4>1. Min(Ahead) \in Keys /\ Min(Ahead) > offset
        BY <3>1, NextScanned DEF ScanRecord
      <4>2. offset' = Min(Ahead) /\ missed' = missed \union Overrun(Min(Ahead)) /\ call' = call
        BY <3>1 DEF ScanRecord
      <4>3. Min(Ahead) \in Nat
        BY <1>0, <4>1
      <4>4. PICK m \in Nat : m = Min(Ahead)
        BY <4>3
      <4> QED BY <1>0, <4>1, <4>2, <4>4
    <3>2. CASE Commit
      BY <1>0, <3>2 DEF Commit, OffsetAfter
    <3>3. CASE FailScan \/ FailCommit
      BY <3>3, DropBatchReaches DEF DropBatch
    <3> QED BY <1>8, <3>1, <3>2, <3>3
  <2>2. ASSUME NEW w \in Writers, call[w].pc = "all", call[w].key \notin missed'
        PROVE  offset < call[w].key <=> offset' < call[w].key
    <3>1. call[w].key \in Nat
      BY <1>0, <2>2, CallTypes
    <3>2. PICK k \in Nat : k = call[w].key
      BY <3>1
    <3>3. k \notin Overrun(offset')
      BY <2>1, <2>2, <3>2
    <3>4. k \notin offset+1..offset'
      BY <2>2, <3>2, <3>3 DEF Overrun
    <3> QED BY <1>0, <2>1, <3>2, <3>4
  <2> QED BY <2>1, <2>2 DEF DerivedInTime, Derived
<1>9. CASE Crash
  <2>1. call' = [w \in Writers |-> Idle]
    BY <1>9 DEF Crash
  <2> QED BY <1>0, <2>1 DEF DerivedInTime
<1>10. CASE \/ StartRound \/ EndRound \/ RejectRound \/ ExecuteFirst \/ UNCHANGED vars
            \/ \E i \in DOMAIN net : ExecuteLater(i) \/ LoseOp(i) \/ LoseAwaited(i)
  BY <1>1, <1>10 DEF StartRound, EndRound, RejectRound, ExecuteFirst, ExecuteLater, LoseOp, LoseAwaited, vars
<1> QED BY <1>3, <1>4, <1>5, <1>6, <1>7, <1>8, <1>9, <1>10 DEF Next, WriteStep, BackgroundStep

-----------------------------------------------------------------------------
\* The index follows the store.

\* Entry by entry.
Follows ==
    \A k \in Keys \ missed, f \in Features :
        EndsIn(index, net \o Unsent, f, k) <=> (k <= offset /\ f \in store[k].features)

\* The property says just that.
LEMMA EntryByEntry == TypeOK => (IndexFollowsStoreUnlessMissed <=> Follows)
<1> SUFFICES ASSUME TypeOK PROVE IndexFollowsStoreUnlessMissed <=> Follows
  OBVIOUS
<1>1. ASSUME NEW k \in Keys
      PROVE  /\ Expected(k) = {f \in Features : k <= offset /\ f \in store[k].features}
             /\ Settled(k) = {f \in Features : EndsIn(index, net \o Unsent, f, k)}
  <2>1. store[k].features \subseteq Features
    BY FeaturesOfRecord DEF TypeOK
  <2>2. offset \in Nat /\ k \in Nat
    BY ChangeCaptureAssumption DEF TypeOK, Zero, Done, Keys
  <2> QED BY <2>1, <2>2 DEF Expected, Settled
<1> QED BY <1>1 DEF IndexFollowsStoreUnlessMissed, Follows

\* And after a step.
LEMMA EntryByEntryNext == (TypeOK => (IndexFollowsStoreUnlessMissed <=> Follows))'
  BY EntryByEntry, PTL

\* Every step keeps the entries that the index will have in line with the records.
LEMMA FollowsStays ==
    ASSUME TypeOK, Inv, Locked, OffsetSaved, Captured, DerivedInTime, Follows, [Next]_vars,
           UnsentIn, UnsentIn'
    PROVE  Follows'
<1>0. /\ offset \in Nat /\ file \in Nat /\ Done \in Nat /\ offset <= Done
      /\ batch.prev \in Nat /\ file <= batch.prev /\ batch.prev <= offset
      /\ Keys \subseteq Nat /\ DOMAIN call = Writers /\ Idle.pc = "idle"
      /\ net \in Seq(Ops) /\ batch.ops \in Seq(Ops) /\ Unsent \in Seq(Ops) /\ <<>> \in Seq(Ops)
      /\ Background \notin Writers
      /\ \A s \in Seq(Ops) : s \o <<>> = s
  BY ChangeCaptureAssumption
     DEF TypeOK, Zero, Done, Keys, OffsetSaved, Idle, UnsentIn, Background
\* Steps that at most send what was waiting.
<1>1. ASSUME UNCHANGED <<index, store, offset>>, missed \subseteq missed',
             net' \o Unsent' = net \o Unsent
      PROVE  Follows'
  BY <1>1 DEF Follows
<1>2. ASSUME UNCHANGED <<index, store, offset, net, batch>>, missed \subseteq missed',
             \A w \in Writers : /\ call[w].pc = "stored" <=> call'[w].pc = "stored"
                                /\ call[w].pc = "stored" => call'[w] = call[w]
      PROVE  Follows'
  <2>1. Unsent' = Unsent
    <3>1. CASE batch.pc = "scan"
      BY <1>2, <3>1 DEF UnsentIn
    <3>2. CASE \E w \in Writers : call[w].pc = "stored"
      BY <1>2, <3>2 DEF UnsentIn
    <3>3. CASE batch.pc # "scan" /\ \A w \in Writers : call[w].pc # "stored"
      BY <1>2, <3>3 DEF UnsentIn
    <3> QED BY <3>1, <3>2, <3>3
  <2> QED BY <1>1, <1>2, <2>1
<1>3. ASSUME NEW w \in Writers, NEW c, c.pc # "stored", call[w].pc # "stored",
             call' = [call EXCEPT ![w] = c],
             UNCHANGED <<index, store, offset, net, batch, missed>>
      PROVE  Follows'
  BY <1>0, <1>2, <1>3
<1>4. ASSUME NEW w \in Writers, NEW k \in Keys, NEW edit \in Edits,
             Insert(w, k, edit) \/ AskRow(w, k, edit)
      PROVE  Follows'
  <2>1. PICK c : call' = [call EXCEPT ![w] = c] /\ c.pc # "stored"
    BY <1>4, CallFields DEF Insert, AskRow
  <2> QED BY <1>0, <1>3, <1>4, <2>1 DEF Insert, AskRow
<1>5. ASSUME NEW w \in Writers, ReadNothing(w) PROVE Follows'
  BY <1>0, <1>3, <1>5 DEF ReadNothing
<1>6. ASSUME NEW w \in Writers, Exit(w) PROVE Follows'
  BY <1>0, <1>3, <1>6 DEF Exit
<1>7. ASSUME NEW w \in Writers, Read(w) \/ Derive(w) PROVE Follows'
  <2>1. PICK c : call' = [call EXCEPT ![w] = c] /\ c.pc # "stored"
    <3>1. CASE Read(w)
      <4>1. PICK c : /\ c = Call("derive", call[w].key, call[w].edit, store[call[w].key],
                                 call[w].ops)
                     /\ call' = [call EXCEPT ![w] = c]
        BY <3>1 DEF Read
      <4>2. c.pc # "stored"
        BY <4>1, CallFields
      <4> QED BY <4>1, <4>2
    <3>2. CASE Derive(w)
      <4>1. PICK c, ops : /\ c = Call("all", call[w].key, call[w].edit, call[w].prev, ops)
                          /\ call' = [call EXCEPT ![w] = c]
        BY <3>2 DEF Derive
      <4>2. c.pc # "stored"
        BY <4>1, CallFields
      <4> QED BY <4>1, <4>2
    <3> QED BY <1>7, <3>1, <3>2
  <2>2. call[w].pc # "stored" /\ UNCHANGED <<index, store, offset, net, batch, missed>>
    BY <1>7 DEF Read, Derive
  <2> QED BY <1>3, <2>1, <2>2
<1>8. ASSUME NEW w \in Writers, Store(w) PROVE Follows'
  <2>1. PICK k, prev, next, ops :
           /\ k = call[w].key /\ prev = call[w].prev /\ next = Apply(call[w].edit, prev)
           /\ ops = call[w].ops
    OBVIOUS
  <2>2. /\ call[w].pc = "all" /\ All!Holds(w, "all")
        /\ store' = [store EXCEPT ![k] = next]
        /\ call' = [call EXCEPT ![w].pc = "stored"]
        /\ UNCHANGED <<index, net, offset, batch, missed>>
    BY <1>8, <2>1 DEF Store
  <2>3. /\ k \in Keys /\ ops \in Seq(Ops) /\ prev = store[k]
        /\ call[w] = Call("all", k, call[w].edit, prev, ops)
    BY <2>1, <2>2, CallTypes, CallOnItsWay DEF Inv, ReadStaysCurrent
  <2>4. call'[w].pc = "stored" /\ call'[w].ops = ops
    <3>1. call'[w] = [call[w] EXCEPT !.pc = "stored"]
      BY <1>0, <2>2
    <3>2. [call[w] EXCEPT !.pc = "stored"] = Call("stored", k, call[w].edit, prev, ops)
      BY ZenonT(60), <2>1, <2>2, <2>3, CallUpdates
    <3>3. PICK c : c = Call("stored", k, call[w].edit, prev, ops)
      OBVIOUS
    <3>4. c.pc = "stored" /\ c.ops = ops
      BY <3>3, CallFields
    <3> QED BY <3>1, <3>2, <3>3, <3>4
  <2>5. Unsent = <<>> /\ Unsent' = ops
    <3>1. batch.pc # "scan" /\ \A v \in Writers : call[v].pc = "stored" => v = w
      BY <1>0, <2>2 DEF Locked, All!Holds
    <3> QED BY <2>2, <2>4, <3>1 DEF UnsentIn
  <2>6. k \notin missed => IF offset < k THEN ops = <<>> ELSE Turns(ops, k, prev.features, next.features)
    BY <2>1, <2>2 DEF DerivedInTime, Derived
  <2>7. \A i \in DOMAIN ops : ops[i].key = k
    BY <2>1, <2>2 DEF Captured
  <2>8. ASSUME NEW l \in Keys \ missed, NEW f \in Features
        PROVE  EndsIn(index, net \o ops, f, l) <=> (l <= offset /\ f \in store'[l].features)
    <3>1. EndsIn(index, net, f, l) <=> (l <= offset /\ f \in store[l].features)
      BY <1>0, <2>5 DEF Follows
    <3>2. EndsIn(index, net \o ops, f, l) <=>
             Puts(ops, f, l) \/ (Silent(ops, f, l) /\ EndsIn(index, net, f, l))
      BY <1>0, <2>3, EndsInConcatenation
    <3>3. CASE l # k
      <4>1. Silent(ops, f, l) /\ ~Puts(ops, f, l)
        BY <2>7, <3>3 DEF Silent, Puts, About
      <4>2. store'[l] = store[l]
        BY <2>2, <3>3 DEF TypeOK
      <4> QED BY <3>1, <3>2, <4>1, <4>2
    <3>4. CASE l = k
      <4>1. store'[l] = next
        BY <2>2, <2>3, <3>4 DEF TypeOK
      <4>2. CASE offset < k
        <5>1. ~(l <= offset)
          BY <1>0, <2>3, <3>4, <4>2
        <5>2. ops = <<>>
          BY <2>6, <2>8, <3>4, <4>2
        <5>3. Silent(ops, f, l) /\ ~Puts(ops, f, l)
          BY <5>2 DEF Silent, Puts
        <5> QED BY <3>1, <3>2, <5>1, <5>3
      <4>3. CASE ~(offset < k)
        <5>1. l <= offset /\ (f \in next.features <=> Puts(ops, f, l) \/ (f \in prev.features /\ Silent(ops, f, l)))
          BY <1>0, <2>3, <2>6, <3>4, <4>3 DEF Turns
        <5> QED BY <2>3, <3>1, <3>2, <3>4, <4>1, <5>1
      <4> QED BY <4>2, <4>3
    <3> QED BY <3>3, <3>4
  <2> QED BY <2>2, <2>5, <2>8 DEF Follows
<1>9. ASSUME NEW w \in Writers, Send(w) \/ FailReplication(w) PROVE Follows'
  <2>1. PICK k, ops : k = call[w].key /\ ops = call[w].ops
    OBVIOUS
  <2>2. /\ call[w].pc = "stored" /\ All!Leave(w, "all")
        /\ UNCHANGED <<index, store, offset, batch>>
        /\ call' = [call EXCEPT ![w] = AfterSubmit(w)]
    BY <1>9 DEF Send, FailReplication
  <2>3. AfterSubmit(w).pc # "stored"
    <3>1. CASE call[w].edit.kind = "insert"
      BY <1>0, <3>1 DEF AfterSubmit
    <3>2. CASE call[w].edit.kind # "insert"
      <4>1. call[w] = Call(call[w].pc, call[w].key, call[w].edit, call[w].prev, call[w].ops)
        BY <2>2, CallOnItsWay
      <4>2. AfterSubmit(w) = Call("exit", call[w].key, call[w].edit, call[w].prev, call[w].ops)
        BY <3>2, <4>1, CallUpdates DEF AfterSubmit
      <4> QED BY <4>2, CallFields
    <3> QED BY <3>1, <3>2
  <2>4. batch.pc # "scan" /\ \A v \in Writers : call[v].pc = "stored" => v = w
    BY <1>0, <2>2 DEF Locked, All!Leave, All!Holds
  <2>5. \A v \in Writers : call'[v].pc # "stored"
    BY <1>0, <2>2, <2>3, <2>4
  <2>6. Unsent = ops /\ Unsent' = <<>>
    BY <2>1, <2>2, <2>4, <2>5 DEF UnsentIn
  <2>7. CASE Send(w)
    <3>1. net' = net \o ops /\ missed' = missed
      BY <2>1, <2>7 DEF Send
    <3>2. net \o ops \in Seq(Ops)
      BY <1>0, <2>6
    <3>3. net' \o Unsent' = net \o Unsent
      BY <1>0, <2>6, <3>1, <3>2
    <3> QED BY <1>1, <2>2, <3>1, <3>3
  <2>8. CASE FailReplication(w)
    <3>1. net' = net /\ missed' = IF ops # <<>> THEN missed \union {k} ELSE missed
      BY <2>1, <2>8 DEF FailReplication
    <3>2. \A i \in DOMAIN ops : ops[i].key = k
      BY <2>1, <2>2 DEF Captured
    <3>3. ASSUME NEW l \in Keys \ missed', NEW f \in Features
          PROVE  EndsIn(index, net, f, l) <=> (l <= offset /\ f \in store[l].features)
      <4>1. l \in Keys \ missed
        BY <3>1, <3>3
      <4>2. EndsIn(index, net \o ops, f, l) <=> (l <= offset /\ f \in store[l].features)
        BY <2>6, <4>1 DEF Follows
      <4>3. Silent(ops, f, l) /\ ~Puts(ops, f, l)
        <5>1. CASE ops = <<>>
          BY <5>1 DEF Silent, Puts
        <5>2. CASE ops # <<>>
          BY <3>1, <3>2, <3>3, <5>2 DEF Silent, Puts, About
        <5> QED BY <5>1, <5>2
      <4>4. ops \in Seq(Ops)
        BY <1>0, <2>6
      <4> QED BY <1>0, <4>2, <4>3, <4>4, EndsInConcatenation
    <3>4. net' \o Unsent' = net
      BY <1>0, <2>6, <3>1
    <3> QED BY <2>2, <3>3, <3>4 DEF Follows
  <2> QED BY <1>9, <2>7, <2>8
<1>10. CASE StartRound \/ EndRound
  <2>1. /\ call' = call /\ UNCHANGED <<index, store, offset, net, missed>>
        /\ batch.pc # "scan" /\ batch'.pc # "scan"
    BY <1>10 DEF StartRound, EndRound, NoBatch, TypeOK
  <2>2. Unsent' = Unsent
    <3>1. CASE \E w \in Writers : call[w].pc = "stored"
      BY <2>1, <3>1 DEF UnsentIn
    <3>2. CASE \A w \in Writers : call[w].pc # "stored"
      BY <2>1, <3>2 DEF UnsentIn
    <3> QED BY <3>1, <3>2
  <2> QED BY <1>1, <2>1, <2>2
<1>11. CASE ScanRecord
  <2>1. PICK k : k = Min(Ahead)
    OBVIOUS
  <2>2. /\ k \in Keys /\ k > offset /\ store[k].exists
        /\ \A l \in Keys : offset < l /\ l < k => ~store[l].exists
    BY <1>11, <2>1, NextScanned DEF ScanRecord
  <2>3. \A l \in Keys : store[l] \in Records \union {Absent} /\ store[l].features \subseteq Features
    BY FeaturesOfRecord DEF TypeOK
  <2>4. Absent.features \subseteq Features /\ Absent.features = {}
    BY DEF Absent
  <2>5. PICK ops : ops = DeriveOps(k, Absent, store[k], TRUE)
    OBVIOUS
  <2>6. /\ ops \in Seq(Ops) /\ \A i \in DOMAIN ops : ops[i].key = k
        /\ Turns(ops, k, {}, store[k].features)
    <3>1. PICK prev, next : prev = Absent /\ next = store[k]
      OBVIOUS
    <3>2. prev.features = {} /\ prev.features \subseteq Features /\ next.features \subseteq Features
      BY <2>2, <2>3, <2>4, <3>1
    <3>3. /\ ops \in Seq(Ops) /\ \A i \in DOMAIN ops : ops[i].key = k
          /\ Turns(ops, k, prev.features, next.features)
      <4>1. ops = DeriveOps(k, prev, next, TRUE)
        BY <2>5, <3>1
      <4>2. k \in Keys /\ TRUE \in BOOLEAN
        BY <2>2
      <4>3. /\ DeriveOps(k, prev, next, TRUE) \in Seq(Ops)
            /\ \A i \in DOMAIN DeriveOps(k, prev, next, TRUE) :
                  DeriveOps(k, prev, next, TRUE)[i].key = k
            /\ Turns(DeriveOps(k, prev, next, TRUE), k, prev.features, next.features)
        BY <3>2, <4>2, DerivedTurns
      <4> QED BY <4>1, <4>3, Zenon
    <3> QED BY <3>1, <3>2, <3>3
  <2>7. /\ batch'.pc = "scan" /\ batch'.ops = batch.ops \o ops /\ offset' = k
        /\ missed \subseteq missed' /\ UNCHANGED <<index, store, net, call>>
        /\ All!Holds(Background, "all")
    BY <1>11, <2>1, <2>5 DEF ScanRecord, Scanning, TypeOK
  <2>8. Unsent = batch.ops
    <3>1. \A w \in Writers : call[w].pc # "stored"
      BY <1>0, <2>7 DEF Locked, All!Holds
    <3> QED BY <3>1 DEF UnsentIn, OffsetSaved
  <2>9. Unsent' = batch.ops \o ops
    BY <2>7 DEF UnsentIn
  <2>10. net' \o Unsent' = (net \o Unsent) \o ops
    <3>1. (net \o batch.ops) \o ops = net \o (batch.ops \o ops)
      <4>1. \A r, s, u \in Seq(Ops) : (r \o s) \o u = r \o (s \o u)
        BY ConcatAssociative
      <4>2. net \in Seq(Ops) /\ batch.ops \in Seq(Ops) /\ ops \in Seq(Ops)
        BY <1>0, <2>6
      <4> QED BY <4>1, <4>2, Zenon
    <3> QED BY <2>7, <2>8, <2>9, <3>1
  <2>11. net \o Unsent \in Seq(Ops)
    BY <1>0
  <2>12. ASSUME NEW l \in Keys \ missed', NEW f \in Features
         PROVE  EndsIn(index, (net \o Unsent) \o ops, f, l) <=> (l <= k /\ f \in store[l].features)
    <3>1. EndsIn(index, net \o Unsent, f, l) <=> (l <= offset /\ f \in store[l].features)
      BY <2>7 DEF Follows
    <3>2. EndsIn(index, (net \o Unsent) \o ops, f, l) <=>
             Puts(ops, f, l) \/ (Silent(ops, f, l) /\ EndsIn(index, net \o Unsent, f, l))
      BY <2>6, <2>11, EndsInConcatenation
    <3>3. CASE l # k
      <4>1. Silent(ops, f, l) /\ ~Puts(ops, f, l)
        BY <2>6, <3>3 DEF Silent, Puts, About
      <4>2. (l <= k /\ f \in store[l].features) <=> (l <= offset /\ f \in store[l].features)
        <5>1. l \in Nat /\ k \in Nat
          BY <1>0, <2>2
        <5>2. CASE offset < l /\ l < k
          <6>1. store[l] = Absent
            <7>1. store[l] \in Records \union {Absent} /\ ~store[l].exists
              BY <2>2, <2>3, <5>2
            <7> QED BY <7>1 DEF Records, Record
          <6> QED BY <2>4, <6>1
        <5>3. CASE ~(offset < l /\ l < k)
          BY <1>0, <2>2, <3>3, <5>1, <5>3
        <5> QED BY <5>2, <5>3
      <4> QED BY <3>1, <3>2, <4>1, <4>2
    <3>4. CASE l = k
      <4>1. ~(l <= offset) /\ l <= k
        BY <1>0, <2>2, <3>4
      <4>2. Puts(ops, f, l) <=> f \in store[k].features
        BY <2>6, <3>4 DEF Turns
      <4> QED BY <3>1, <3>2, <3>4, <4>1, <4>2
    <3> QED BY <3>3, <3>4
  <2> QED BY <2>7, <2>10, <2>12 DEF Follows
<1>12. CASE Commit
  <2>1. /\ All!Holds(Background, "all") /\ net' = net \o batch.ops
        /\ UNCHANGED <<index, store, call>> /\ missed \subseteq missed'
        /\ batch'.pc # "scan" /\ offset' \in Nat /\ offset <= offset'
    BY <1>0, <1>12 DEF Commit, OffsetAfter, Scanning, NoBatch
  <2>2. \A w \in Writers : call[w].pc # "stored"
    BY <1>0, <2>1 DEF Locked, All!Holds
  <2>3. Unsent = batch.ops /\ Unsent' = <<>>
    BY <2>1, <2>2 DEF UnsentIn, OffsetSaved
  <2>4. net' \o Unsent' = net \o Unsent
    <3>1. net \o batch.ops \in Seq(Ops)
      BY <1>0
    <3> QED BY <1>0, <2>1, <2>3, <3>1
  <2>5. ASSUME NEW l \in Keys, offset < l, l <= offset' PROVE store[l].features = {}
    <3>1. Ahead = {}
      BY <1>0, <1>12, <2>5, ChangeCaptureAssumption DEF Commit, OffsetAfter, Complete
    <3>2. ~store[l].exists /\ store[l] \in Records \union {Absent}
      BY <2>5, <3>1 DEF Ahead, TypeOK
    <3> QED BY <3>2 DEF Records, Record, Absent
  <2>6. ASSUME NEW l \in Keys, NEW f \in Features
        PROVE  (l <= offset' /\ f \in store[l].features) <=> (l <= offset /\ f \in store[l].features)
    <3>1. l \in Nat /\ (l <= offset => l <= offset')
      BY <1>0, <2>1
    <3>2. CASE offset < l /\ l <= offset'
      BY <2>5, <3>2
    <3>3. CASE ~(offset < l /\ l <= offset')
      BY <1>0, <3>1, <3>3
    <3> QED BY <3>2, <3>3
  <2> QED BY <2>1, <2>4, <2>6 DEF Follows
<1>13. CASE ExecuteFirst
  <2>1. /\ net # <<>> /\ index' = Execute(index, Head(net)) /\ net' = Tail(net)
        /\ UNCHANGED <<store, call, offset, batch, missed>>
    BY <1>13 DEF ExecuteFirst
  <2>2. Unsent' = Unsent
    <3>1. CASE batch.pc = "scan"
      BY <2>1, <3>1 DEF UnsentIn
    <3>2. CASE \E w \in Writers : call[w].pc = "stored"
      BY <2>1, <3>2 DEF UnsentIn
    <3>3. CASE batch.pc # "scan" /\ \A w \in Writers : call[w].pc # "stored"
      BY <2>1, <3>3 DEF UnsentIn
    <3> QED BY <3>1, <3>2, <3>3
  <2>3. Tail(net) \in Seq(Ops)
    BY <1>0, <2>1
  <2>4. ASSUME NEW k \in Keys, NEW f \in Features
        PROVE  EndsIn(index', Tail(net) \o Unsent, f, k) <=> EndsIn(index, net \o Unsent, f, k)
    <3>1. EndsIn(index', Tail(net), f, k) <=> EndsIn(index, net, f, k)
      BY <1>0, <2>1, ExecuteHead
    <3>2. EndsIn(index', Tail(net) \o Unsent, f, k) <=>
             Puts(Unsent, f, k) \/ (Silent(Unsent, f, k) /\ EndsIn(index', Tail(net), f, k))
      BY <1>0, <2>3, EndsInConcatenation
    <3>3. EndsIn(index, net \o Unsent, f, k) <=>
             Puts(Unsent, f, k) \/ (Silent(Unsent, f, k) /\ EndsIn(index, net, f, k))
      BY <1>0, EndsInConcatenation
    <3> QED BY <3>1, <3>2, <3>3
  <2> QED BY <2>1, <2>2, <2>4 DEF Follows
<1>14. ASSUME NEW i \in DOMAIN net, ExecuteLater(i) PROVE Follows'
  <2>1. PICK o, s, u : o = net[i] /\ s = SubSeq(net, 1, i-1) /\ u = SubSeq(net, i+1, Len(net))
    OBVIOUS
  <2>2. /\ i > 1 /\ index' = Execute(index, o) /\ net' = s \o u
        /\ missed' = IF {j \in 1..(i-1) : net[j].key = o.key /\ net[j].feature = o.feature} # {}
                     THEN missed \union {o.key} ELSE missed
        /\ UNCHANGED <<store, call, offset, batch>>
    BY <1>14, <2>1 DEF ExecuteLater, RemoveAt
  <2>3. /\ i \in Nat /\ i <= Len(net) /\ o \in Ops /\ s \in Seq(Ops) /\ u \in Seq(Ops)
        /\ <<o>> \in Seq(Ops) /\ s \o u \in Seq(Ops)
    BY SMTT(60), <1>0, <2>1
  <2>4. net = (s \o <<o>>) \o u
    <3>1. i \in 1..Len(net) /\ i \in 0..Len(net)
      BY <1>0
    <3>2. net = SubSeq(net, 1, i) \o u
      BY <1>0, <2>1, <3>1, TwoParts
    <3>3. 1 \in 1..Len(net) /\ i \in 1..Len(net)
      BY <2>2, <2>3
    <3>4. SubSeq(net, 1, i) = s \o <<o>>
      BY <1>0, <2>1, <3>3, SubSeqRecursiveSecond
    <3> QED BY <3>2, <3>4
  <2>5. Unsent' = Unsent
    <3>1. CASE batch.pc = "scan"
      BY <2>2, <3>1 DEF UnsentIn
    <3>2. CASE \E w \in Writers : call[w].pc = "stored"
      BY <2>2, <3>2 DEF UnsentIn
    <3>3. CASE batch.pc # "scan" /\ \A w \in Writers : call[w].pc # "stored"
      BY <2>2, <3>3 DEF UnsentIn
    <3> QED BY <3>1, <3>2, <3>3
  <2>6. ASSUME NEW k \in Keys \ missed', NEW f \in Features
        PROVE  EndsIn(index', (s \o u) \o Unsent, f, k) <=> EndsIn(index, net \o Unsent, f, k)
    <3>1. About(o, f, k) => Silent(s, f, k)
      <4>1. DOMAIN s = 1..(i-1) /\ \A j \in 1..(i-1) : s[j] = net[j]
        BY SMTT(60), <1>0, <2>1, <2>3
      <4> QED BY <2>2, <4>1 DEF About, Silent
    <3>2. EndsIn(Execute(index, o), s \o u, f, k) <=> EndsIn(index, (s \o <<o>>) \o u, f, k)
      BY <2>3, <3>1, ExecuteInside
    <3>3. EndsIn(index', (s \o u) \o Unsent, f, k) <=>
             Puts(Unsent, f, k) \/ (Silent(Unsent, f, k) /\ EndsIn(index', s \o u, f, k))
      BY <1>0, <2>3, EndsInConcatenation
    <3>4. EndsIn(index, net \o Unsent, f, k) <=>
             Puts(Unsent, f, k) \/ (Silent(Unsent, f, k) /\ EndsIn(index, net, f, k))
      BY <1>0, EndsInConcatenation
    <3> QED BY <2>2, <2>4, <3>2, <3>3, <3>4
  <2>7. missed \subseteq missed'
    BY <2>2
  <2> QED BY <2>2, <2>5, <2>6, <2>7 DEF Follows
<1>15. CASE Crash
  <2>1. PICK n \in 0..Len(net) :
           /\ net' = Unawaited(SubSeq(net, 1, n))
           /\ missed' = missed
                \union {k \in Keys : file < k /\ k <= batch.prev}
                \union {net[i].key : i \in n+1..Len(net)}
                \union {call[w].key : w \in {v \in Writers : /\ call[v].pc = "stored"
                                                             /\ call[v].ops # <<>>}}
    BY <1>15 DEF Crash
  <2>2. call' = [w \in Writers |-> Idle] /\ batch'.pc = "idle" /\ offset' = file /\ UNCHANGED <<store, index>>
    BY <1>15 DEF Crash, NoBatch
  <2>3. Unsent' = <<>>
    BY <1>0, <2>2 DEF UnsentIn
  <2>4. PICK s, u : s = SubSeq(net, 1, n) /\ u = SubSeq(net, n+1, Len(net))
    OBVIOUS
  <2>5. /\ s \in Seq(Ops) /\ u \in Seq(Ops) /\ net = s \o u
        /\ DOMAIN s = 1..n /\ \A i \in 1..n : s[i] = net[i]
        /\ DOMAIN u = 1..(Len(net) - n) /\ \A i \in 1..(Len(net) - n) : u[i] = net[n + i]
    BY ZenonT(60), <1>0, <2>4, TwoParts
  <2>6. /\ \A i \in DOMAIN s : i \in DOMAIN net /\ s[i] = net[i]
        /\ \A i \in DOMAIN u : n + i \in n+1..Len(net) /\ u[i] = net[n + i]
    <3>1. Len(net) \in Nat /\ n \in Nat /\ n <= Len(net) /\ DOMAIN net = 1..Len(net)
      BY <1>0
    <3> QED BY <2>5, <3>1
  <2>7. ASSUME NEW k \in Keys \ missed', NEW f \in Features
        PROVE  EndsIn(index, s, f, k) <=> (k <= file /\ f \in store[k].features)
    <3>1. Silent(u, f, k) /\ ~Puts(u, f, k)
      BY <2>1, <2>6, <2>7 DEF Silent, Puts, About
    <3>2. EndsIn(index, net, f, k) <=> EndsIn(index, s, f, k)
      BY <2>5, <3>1, EndsInConcatenation
    <3>3. k \in Nat /\ k \notin missed
      BY <1>0, <2>1
    <3>6. ~(file < k /\ k <= batch.prev)
      BY <2>1, <2>7
    <3>4. CASE k <= file
      <4>1. Silent(Unsent, f, k) /\ ~Puts(Unsent, f, k)
        <5>1. CASE batch.pc = "scan"
          <6>1. \A i \in DOMAIN batch.ops : batch.ops[i].key # k
            BY <1>0, <3>3, <3>4 DEF Captured
          <6> QED BY <5>1, <6>1 DEF UnsentIn, Silent, Puts, About
        <5>2. CASE \E w \in Writers : call[w].pc = "stored"
          <6>1. PICK w \in Writers : call[w].pc = "stored"
            BY <5>2
          <6>2. Unsent = call[w].ops /\ (Unsent # <<>> => call[w].key # k)
            BY <2>1, <2>7, <6>1 DEF UnsentIn
          <6>3. \A i \in DOMAIN Unsent : Unsent[i].key = call[w].key
            BY <6>1, <6>2 DEF Captured
          <6>4. CASE Unsent = <<>>
            BY <6>4 DEF Silent, Puts
          <6> QED BY <6>2, <6>3, <6>4 DEF Silent, Puts, About
        <5>3. CASE batch.pc # "scan" /\ \A w \in Writers : call[w].pc # "stored"
          <6>1. Unsent = <<>>
            BY <5>3 DEF UnsentIn
          <6> QED BY <6>1 DEF Silent, Puts
        <5> QED BY <5>1, <5>2, <5>3
      <4>2. EndsIn(index, net \o Unsent, f, k) <=> EndsIn(index, net, f, k)
        BY <1>0, <4>1, EndsInConcatenation
      <4>3. k <= offset
        BY <1>0, <3>3, <3>4
      <4> QED BY <2>7, <3>2, <3>3, <3>4, <4>2, <4>3 DEF Follows
    <3>5. CASE ~(k <= file)
      <4>3. ~(k <= batch.prev)
        BY <1>0, <3>3, <3>5, <3>6
      <4>1. <<f, k>> \notin index
        BY <3>3, <4>3 DEF Captured
      <4>2. \A i \in DOMAIN s : s[i].key # k
        BY <2>6, <3>3, <4>3 DEF Captured
      <4> QED BY <3>5, <4>1, <4>2 DEF EndsIn, Puts, About
    <3> QED BY <3>4, <3>5
  <2>8. net' \in Seq(Ops) /\ \A f, k : EndsIn(index, net', f, k) <=> EndsIn(index, s, f, k)
    BY <2>1, <2>4, <2>5, UnawaitedDoTheSame
  <2>9. net' \o Unsent' = net'
    BY <1>0, <2>3, <2>8
  <2>10. missed \subseteq missed'
    BY <2>1
  <2> QED BY <2>2, <2>7, <2>8, <2>9, <2>10 DEF Follows
<1>16. CASE UNCHANGED vars
  BY <1>2, <1>16 DEF vars
<1>17. CASE FailScan \/ FailCommit
  <2>1. /\ offset' \in Nat /\ offset <= offset' /\ batch'.pc = "idle"
        /\ UNCHANGED <<store, index, net, call>> /\ All!Leave(Background, "all")
        /\ missed \union {k \in Keys : /\ batch.prev < k /\ k <= offset'
                                      /\ store[k].features # {}} \subseteq missed'
    BY <1>17, DropBatchReaches DEF DropBatch, NoBatch
  <2>2. \A w \in Writers : call[w].pc # "stored"
    BY <1>0, <2>1 DEF Locked, All!Leave, All!Holds
  <2>3. Unsent = batch.ops /\ Unsent' = <<>>
    BY <2>1, <2>2 DEF UnsentIn, OffsetSaved
  <2>4. net' \o Unsent' = net
    BY <1>0, <2>1, <2>3
  <2>5. ASSUME NEW k \in Keys \ missed', NEW f \in Features
        PROVE  EndsIn(index, net, f, k) <=> (k <= offset' /\ f \in store[k].features)
    <3>1. k \in Nat /\ k \notin missed /\ ~(batch.prev < k /\ k <= offset' /\ store[k].features # {})
      BY <1>0, <2>1
    <3>2. CASE k <= batch.prev
      <4>1. \A i \in DOMAIN batch.ops : batch.ops[i].key # k
        BY <1>0, <3>1, <3>2 DEF Captured
      <4>2. Silent(Unsent, f, k) /\ ~Puts(Unsent, f, k)
        BY <2>3, <4>1 DEF Silent, Puts, About
      <4>3. EndsIn(index, net \o Unsent, f, k) <=> EndsIn(index, net, f, k)
        BY <1>0, <4>2, EndsInConcatenation
      <4>4. k <= offset /\ k <= offset'
        BY <1>0, <2>1, <3>1, <3>2
      <4> QED BY <2>5, <3>1, <4>3, <4>4 DEF Follows
    <3>3. CASE ~(k <= batch.prev)
      <4>1. <<f, k>> \notin index /\ \A i \in DOMAIN net : net[i].key # k
        BY <3>1, <3>3 DEF Captured
      <4>2. ~EndsIn(index, net, f, k)
        BY <4>1 DEF EndsIn, Puts, About
      <4> QED BY <1>0, <3>1, <3>3, <4>2
    <3> QED BY <3>2, <3>3
  <2> QED BY <2>1, <2>4, <2>5 DEF Follows
\* The answers of a batch are not awaited any longer.
<1>18. CASE RejectRound
  <2>1. /\ UNCHANGED <<store, index, call, offset, missed>> /\ net' = Unawaited(net)
        /\ batch.pc # "scan" /\ batch'.pc # "scan"
    BY <1>18 DEF RejectRound, NoBatch
  <2>2. Unsent' = Unsent
    <3>1. CASE \E w \in Writers : call[w].pc = "stored"
      BY <2>1, <3>1 DEF UnsentIn
    <3>2. CASE \A w \in Writers : call[w].pc # "stored"
      BY <2>1, <3>2 DEF UnsentIn
    <3> QED BY <3>1, <3>2
  <2>3. ASSUME NEW k \in Keys, NEW f \in Features
        PROVE  EndsIn(index, Unawaited(net) \o Unsent, f, k) <=> EndsIn(index, net \o Unsent, f, k)
    <3>1. EndsIn(index, Unawaited(net), f, k) <=> EndsIn(index, net, f, k)
      BY <1>0, UnawaitedDoTheSame
    <3>2. EndsIn(index, Unawaited(net) \o Unsent, f, k) <=>
             Puts(Unsent, f, k) \/ (Silent(Unsent, f, k) /\ EndsIn(index, Unawaited(net), f, k))
      BY <1>0, UnawaitedDoTheSame, EndsInConcatenation
    <3>3. EndsIn(index, net \o Unsent, f, k) <=>
             Puts(Unsent, f, k) \/ (Silent(Unsent, f, k) /\ EndsIn(index, net, f, k))
      BY <1>0, EndsInConcatenation
    <3> QED BY <3>1, <3>2, <3>3
  <2> QED BY <2>1, <2>2, <2>3 DEF Follows
\* An operation gets lost: the history names its key.
<1>19. ASSUME NEW i \in DOMAIN net, LoseOp(i) \/ LoseAwaited(i) PROVE Follows'
  <2>1. PICK o, s, u : o = net[i] /\ s = SubSeq(net, 1, i-1) /\ u = SubSeq(net, i+1, Len(net))
    OBVIOUS
  <2>2. /\ s \in Seq(Ops) /\ u \in Seq(Ops) /\ o \in Ops /\ RemoveAt(net, i) = s \o u
        /\ s \o u \in Seq(Ops) /\ net = (s \o <<o>>) \o u
    BY <1>0, <2>1, Removed, ZenonT(60)
  <2>3. <<o>> \in Seq(Ops) /\ s \o <<o>> \in Seq(Ops)
    BY <2>2
  <2>4. /\ net' = s \o u \/ net' = Unawaited(s \o u)
        /\ missed' = missed \union {o.key} /\ UNCHANGED <<index, store, call, offset>>
    BY <1>19, <2>1, <2>2 DEF LoseOp, LoseAwaited
  <2>5. net' \in Seq(Ops) /\ \A f, k : EndsIn(index, net', f, k) <=> EndsIn(index, s \o u, f, k)
    BY <2>2, <2>4, UnawaitedDoTheSame
  <2>6. Unsent' = Unsent
    <3>1. CASE LoseOp(i)
      <4>1. batch' = batch
        BY <3>1 DEF LoseOp
      <4>2. CASE batch.pc = "scan"
        BY <4>1, <4>2 DEF UnsentIn
      <4>3. CASE \E w \in Writers : call[w].pc = "stored"
        BY <2>4, <4>3 DEF UnsentIn
      <4>4. CASE batch.pc # "scan" /\ \A w \in Writers : call[w].pc # "stored"
        BY <2>4, <4>1, <4>4 DEF UnsentIn
      <4> QED BY <4>2, <4>3, <4>4
    <3>2. CASE LoseAwaited(i)
      <4>1. batch.pc # "scan" /\ batch'.pc # "scan" /\ \A w \in Writers : call[w].pc # "stored"
        BY <1>0, <3>2 DEF LoseAwaited, NoBatch, Locked, All!Leave, All!Holds
      <4> QED BY <2>4, <4>1 DEF UnsentIn
    <3> QED BY <1>19, <3>1, <3>2
  <2>7. ASSUME NEW k \in Keys \ missed', NEW f \in Features
        PROVE  EndsIn(index, net' \o Unsent, f, k) <=> EndsIn(index, net \o Unsent, f, k)
    <3>1. ~About(o, f, k)
      BY <2>4, <2>7 DEF About
    <3>2. EndsIn(index, (s \o <<o>>) \o u, f, k) <=>
             Puts(u, f, k) \/ (Silent(u, f, k) /\ EndsIn(index, s \o <<o>>, f, k))
      BY <2>2, <2>3, EndsInConcatenation
    <3>3. EndsIn(index, s \o <<o>>, f, k) <=>
             Puts(<<o>>, f, k) \/ (Silent(<<o>>, f, k) /\ EndsIn(index, s, f, k))
      BY <2>2, <2>3, EndsInConcatenation
    <3>4. Silent(<<o>>, f, k) /\ ~Puts(<<o>>, f, k)
      BY <2>2, <3>1, OneOperation
    <3>5. EndsIn(index, s \o u, f, k) <=>
             Puts(u, f, k) \/ (Silent(u, f, k) /\ EndsIn(index, s, f, k))
      BY <2>2, EndsInConcatenation
    <3>6. EndsIn(index, net', f, k) <=> EndsIn(index, net, f, k)
      BY <2>2, <2>5, <3>2, <3>3, <3>4, <3>5
    <3>7. EndsIn(index, net' \o Unsent, f, k) <=>
             Puts(Unsent, f, k) \/ (Silent(Unsent, f, k) /\ EndsIn(index, net', f, k))
      BY <1>0, <2>5, EndsInConcatenation
    <3>8. EndsIn(index, net \o Unsent, f, k) <=>
             Puts(Unsent, f, k) \/ (Silent(Unsent, f, k) /\ EndsIn(index, net, f, k))
      BY <1>0, EndsInConcatenation
    <3> QED BY <3>6, <3>7, <3>8
  <2>8. missed \subseteq missed'
    BY <2>4
  <2> QED BY <2>4, <2>6, <2>7, <2>8 DEF Follows
<1> QED BY <1>4, <1>5, <1>6, <1>7, <1>8, <1>9, <1>10, <1>11, <1>12, <1>13, <1>14, <1>15, <1>16,
           <1>17, <1>18, <1>19 DEF Next, WriteStep, BackgroundStep

-----------------------------------------------------------------------------
\* The invariant holds when the block starts.
LEMMA InitIndexInv == Init => IndexInv
<1> SUFFICES ASSUME Init PROVE IndexInv
  OBVIOUS
<1>1. TypeOK /\ Inv
  BY InitTypes, InitInv
<1>2. /\ Idle.pc = "idle" /\ Idle.pc # "stored" /\ DOMAIN <<>> = {}
      /\ file = offset /\ offset \in Nat /\ (Backfill => offset = 0) /\ (~Backfill => offset = Done)
      /\ call = [w \in Writers |-> Idle] /\ batch = NoBatch(offset) /\ net = <<>>
      /\ Keys \subseteq Nat /\ \A k \in Keys : k <= Done /\ ~(k <= 0)
  BY ChangeCaptureAssumption DEF Init, Idle, Zero, Done, Keys
<1>3. Locked /\ OffsetSaved /\ DerivedInTime
  BY <1>2 DEF Locked, OffsetSaved, DerivedInTime, NoBatch
<1>4. Captured
  <2>1. \A f \in Features, k \in Keys : <<f, k>> \in index => k <= file
    BY <1>2, ChangeCaptureAssumption DEF Init
  <2> QED BY <1>2, <2>1 DEF Captured, NoBatch
<1>5. Follows
  <2>1. Unsent = <<>>
    <3>1. all["all"] = <<>>
      BY DEF Init
    <3> QED BY <3>1 DEF Unsent, All!Holds
  <2>2. net \o Unsent = <<>>
    BY <1>2, <2>1
  <2>3. \A k \in Keys, f \in Features : <<f, k>> \in index <=> (k <= offset /\ f \in store[k].features)
    BY <1>2, ChangeCaptureAssumption DEF Init
  <2>4. \A f, k : EndsIn(index, <<>>, f, k) <=> <<f, k>> \in index
    BY <1>2 DEF EndsIn, Puts, Silent
  <2> QED BY <2>2, <2>3, <2>4 DEF Follows
<1> QED BY <1>1, <1>3, <1>4, <1>5, EntryByEntry DEF IndexInv

\* Every step keeps the invariant.
LEMMA NextIndexInv == IndexInv /\ [Next]_vars => IndexInv'
<1> SUFFICES ASSUME IndexInv, [Next]_vars PROVE IndexInv'
  OBVIOUS
<1>1. TypeOK' /\ Inv' /\ Locked' /\ OffsetSaved' /\ Captured' /\ DerivedInTime'
  BY TypesStay, NextInv, LockedStays, OffsetSavedStays, CapturedStays, DerivedInTimeStays DEF IndexInv
<1>2. UnsentIn /\ UnsentIn'
  BY <1>1, UnsentIs, UnsentIsNext DEF IndexInv
<1>3. Follows
  BY EntryByEntry DEF IndexInv
<1>4. Follows'
  BY <1>2, <1>3, FollowsStays DEF IndexInv
<1>5. IndexFollowsStoreUnlessMissed'
  BY <1>1, <1>4, EntryByEntryNext
<1> QED BY <1>1, <1>5 DEF IndexInv

\* Once all operations that were derived are executed, the index has exactly the
\* entries of the records up to the offset, except for keys the history names: of
\* a change that the scan passed while it waited to be stored, that was stored by
\* a call whose replication failed, that a round scanned before it threw, whose
\* operations were lost, by themselves or by a crash, or overtaken, or that was
\* captured beyond the offset a crash brought back.  Monitor loses no other change
\* and adds none.
THEOREM IndexFollows == Spec => []IndexFollowsStoreUnlessMissed
<1>1. IndexInv => IndexFollowsStoreUnlessMissed
  BY DEF IndexInv
<1> QED BY <1>1, InitIndexInv, NextIndexInv, PTL DEF Spec

\* The variables of the block, its calls and its background task keep their types.
THEOREM TypesAreKept == Spec => []TypeOK
  BY InitTypes, TypesStay, PTL DEF Spec
==============================================================================
