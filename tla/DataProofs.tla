----------------------------- MODULE DataProofs -----------------------------
(***************************************************************************)
(* Four promises of MCData's parts, for any numbers of keys, records,     *)
(* objects, calls, updates, losses and restarts.                           *)
(*                                                                         *)
(* Fill: a sequence marked as filled was sent every record.  Ranges that   *)
(* were recorded and edits on their way never overlap, lie below the       *)
(* offset in the file, and what they cover was sent (EditsApart); so a     *)
(* list of one range from end to end leaves nothing out, and no edit of it *)
(* can arrive late.  The monitor is never below the file, whatever rounds  *)
(* fail, and a restart resumes there (BackupAgrees).                       *)
(*                                                                         *)
(* Store: a store in use has what was answered, as has the file when no    *)
(* timer is set, unless a store was left early: then only the last store   *)
(* of the process has timers, and what it has not written is what was      *)
(* answered (StoreFollows).                                                *)
(*                                                                         *)
(* Load: an active object has what it inherits from.  In each phase of a   *)
(* load the objects needed so far are active, awaited, or known to have    *)
(* failed (PhasesOf), and an object that is not loading awaits nothing     *)
(* (OnlyLoadingWait).                                                      *)
(*                                                                         *)
(* Vers: versions come back.  Each record that was written has the number  *)
(* after the one before (Account) and points to a Revision of that one     *)
(* (Trail), if the object was not overwritten with old data; and copies    *)
(* and scans are such records, those that dependents are sealed with too.  *)
(***************************************************************************)
EXTENDS MCData, SequenceTheorems, WellFoundedInduction, TLAPS

\* A nonempty set of natural numbers has a least element.
LEMMA LeastElement ==
    ASSUME NEW S, S \subseteq Nat, S # {}
    PROVE  \E x \in S : \A y \in S : x <= y
<1>1. PICK x \in S : \A y \in S : ~(<<y, x>> \in OpToRel(<, Nat))
  BY WFMin, NatLessThanWellFounded
<1>2. \A y \in S : ~(y < x)
  BY <1>1 DEF OpToRel
<1> QED BY <1>2

\* The smallest number of a set that is not empty.
LEMMA MinOf ==
    ASSUME NEW S, S \subseteq Nat, S # {}
    PROVE  Fill!Min(S) \in S /\ \A y \in S : Fill!Min(S) <= y
<1>1. \E x \in S : \A y \in S : x <= y
  BY LeastElement
<1>2. Fill!Min(S) = CHOOSE x \in S : \A y \in S : x <= y
  BY DEF Fill!Min
<1> QED BY <1>1, <1>2

\* The largest number of a set that is not empty and bounded.
LEMMA MaxOf ==
    ASSUME NEW n \in Nat, NEW S, S \subseteq 0..n, S # {}
    PROVE  Fill!Max(S) \in S /\ \A y \in S : Fill!Max(S) >= y
<1> DEFINE T == {m \in Nat : \A y \in S : m >= y}
<1>1. n \in T
  OBVIOUS
<1>2. PICK m \in T : \A k \in T : m <= k
  <2>1. T \subseteq Nat /\ T # {}
    BY <1>1
  <2> QED BY <2>1, LeastElement
<1>3. m \in S
  <2> SUFFICES ASSUME m \notin S PROVE FALSE
    OBVIOUS
  <2>1. \A y \in S : y \in Nat /\ y < m
    BY <1>2
  <2>2. PICK y \in S : TRUE
    OBVIOUS
  <2>3. m - 1 \in T
    BY <2>1, <2>2, <1>2
  <2> QED BY <2>3, <1>2
<1>4. \E x \in S : \A y \in S : x >= y
  BY <1>2, <1>3
<1>5. Fill!Max(S) = CHOOSE x \in S : \A y \in S : x >= y
  BY DEF Fill!Max
<1> QED BY <1>4, <1>5

-----------------------------------------------------------------------------
\* Ranges, of which the first is below the second and so on.
Sorted(rs) == \A i, j \in 1..Len(rs) : i < j => rs[i][2] < rs[j][1]

\* Positions of keys, and of the end of the block, that lie in a range.
In(n, range) == range[1] < n /\ n <= range[2]
Covered(n, rs) == \E i \in 1..Len(rs) : In(n, rs[i])

\* Ranges stay apart when one is added, and cover nothing but what they did and it.
LEMMA AddedRange ==
    ASSUME NKeys \in Nat, NEW rs \in Seq(Fill!Ranges), Sorted(rs),
           NEW left \in Nat, NEW right \in Nat, left <= NKeys, right <= NKeys + 1, left < right
    PROVE  /\ Fill!AddRange(rs, left, right) \in Seq(Fill!Ranges)
           /\ Sorted(Fill!AddRange(rs, left, right))
           /\ \A n \in Nat : Covered(n, Fill!AddRange(rs, left, right)) =>
                                Covered(n, rs) \/ In(n, <<left, right>>)
<1> DEFINE top == Fill!Null
           len == Len(rs)
           after == {n \in 1..len + 1 : n \in DOMAIN rs => rs[n][2] >= left}
           pos == Fill!Min(after)
           Reach(n) == Fill!Max({right} \union {rs[i][2] : i \in pos..n - 1})
           above == {n \in pos..len + 1 : n \in DOMAIN rs => rs[n][1] > Reach(n)}
           end == Fill!Min(above)
           from == IF pos \in DOMAIN rs /\ rs[pos][1] < left THEN rs[pos][1] ELSE left
           merged == <<from, Reach(end)>>
           new == SubSeq(rs, 1, pos - 1) \o <<merged>> \o SubSeq(rs, end, len)
<1>0. Fill!AddRange(rs, left, right) = new
  BY DEF Fill!AddRange
<1>1. /\ top \in Nat /\ top = NKeys + 1 /\ len \in Nat /\ DOMAIN rs = 1..len
      /\ right <= top
      /\ \A i \in 1..len : /\ rs[i][1] \in Nat /\ rs[i][2] \in Nat /\ rs[i][1] < rs[i][2]
                           /\ rs[i][1] <= NKeys /\ rs[i][2] <= top /\ rs[i] = <<rs[i][1], rs[i][2]>>
  <2>1. \A i \in 1..len : rs[i] \in Fill!Ranges
    OBVIOUS
  <2>2. \A x \in Fill!Ranges : /\ x[1] \in Nat /\ x[2] \in Nat /\ x[1] < x[2]
                               /\ x[1] <= NKeys /\ x[2] <= NKeys + 1 /\ x = <<x[1], x[2]>>
    BY DEF Fill!Ranges, Fill!Zero, Fill!Null
  <2> QED BY <2>1, <2>2 DEF Fill!Null
<1>2. pos \in 1..len + 1 /\ (pos <= len => rs[pos][2] >= left) /\ \A i \in 1..pos - 1 : rs[i][2] < left
  <2>1. after \subseteq Nat /\ len + 1 \in after
    BY <1>1
  <2>2. pos \in after /\ \A y \in after : pos <= y
    <3> HIDE DEF after
    <3> QED BY <2>1, MinOf
  <2> HIDE DEF pos
  <2>3. \A i \in 1..pos - 1 : i \in 1..len /\ i \notin after
    BY <1>1, <2>2
  <2>4. \A i \in 1..pos - 1 : rs[i][2] < left
    BY <1>1, <2>3
  <2>5. pos \in 1..len + 1 /\ (pos <= len => rs[pos][2] >= left)
    BY <1>1, <2>2
  <2> QED BY <2>4, <2>5
<1> HIDE DEF pos
<1>3. ASSUME NEW n \in pos..len + 1
      PROVE  /\ Reach(n) \in Nat /\ Reach(n) <= top /\ right <= Reach(n)
             /\ \A i \in pos..n - 1 : rs[i][2] <= Reach(n)
             /\ Reach(n) = right \/ \E i \in pos..n - 1 : Reach(n) = rs[i][2]
  <2> DEFINE S == {right} \union {rs[i][2] : i \in pos..n - 1}
  <2>1. S \subseteq 0..top /\ S # {}
    <3>1. \A i \in pos..n - 1 : i \in 1..len
      BY <1>1, <1>2
    <3>2. \A i \in pos..n - 1 : rs[i][2] \in 0..top
      BY <1>1, <3>1
    <3> HIDE DEF top
    <3> QED BY <1>1, <3>2
  <2>2. Fill!Max(S) \in S /\ \A y \in S : Fill!Max(S) >= y
    <3> HIDE DEF S, top
    <3> QED BY <1>1, <2>1, MaxOf
  <2>3. PICK m : m = Fill!Max(S) /\ m = Reach(n)
    OBVIOUS
  <2>4. m \in S /\ \A y \in S : m >= y
    BY <2>2, <2>3
  <2>5. m \in 0..top /\ m >= right /\ (\A i \in pos..n - 1 : m >= rs[i][2])
    BY <2>1, <2>4
  <2>6. m = right \/ \E i \in pos..n - 1 : m = rs[i][2]
    BY <2>4
  <2>7. \A i \in pos..n - 1 : rs[i][2] \in Nat
    BY <1>1, <1>2
  <2> HIDE DEF Reach, top
  <2>8. m \in Nat /\ m <= top /\ right <= m /\ \A i \in pos..n - 1 : rs[i][2] <= m
    BY <1>1, <2>5, <2>7
  <2> QED BY <2>3, <2>6, <2>8
<1> HIDE DEF Reach
<1>4. /\ end \in pos..len + 1 /\ (end <= len => rs[end][1] > Reach(end))
      /\ \A i \in pos..end - 1 : rs[i][1] <= Reach(i)
  <2>1. above \subseteq Nat /\ len + 1 \in above
    BY <1>1, <1>2
  <2>2. end \in above /\ \A y \in above : end <= y
    <3> HIDE DEF above
    <3> QED BY <2>1, MinOf
  <2> HIDE DEF end
  <2>3. \A i \in pos..end - 1 : i \in pos..len + 1 /\ i \in 1..len /\ i \notin above
    BY <1>1, <1>2, <2>2
  <2>4. \A i \in pos..end - 1 : Reach(i) \in Nat /\ rs[i][1] \in Nat /\ ~(rs[i][1] > Reach(i))
    BY <1>1, <1>3, <2>3
  <2>5. end \in pos..len + 1 /\ (end <= len => rs[end][1] > Reach(end))
    BY <1>1, <1>2, <2>2
  <2> QED BY <2>4, <2>5
<1> HIDE DEF end, top
\* No range that is merged begins beyond the new one.
<1>5. ASSUME NEW i \in pos..end - 1 PROVE rs[i][1] <= right
  <2>1. i \in 1..len /\ i \in pos..len + 1 /\ rs[i][1] <= Reach(i)
    BY <1>1, <1>2, <1>4
  <2>2. CASE Reach(i) = right
    BY <2>1, <2>2
  <2>3. ASSUME NEW j \in pos..i - 1, Reach(i) = rs[j][2] PROVE FALSE
    <3>1. j \in 1..len /\ j < i
      BY <1>1, <1>2, <1>4, <2>1
    <3> QED BY <1>1, <2>1, <2>3, <3>1 DEF Sorted
  <2> QED BY <1>3, <2>1, <2>2, <2>3
<1>6. /\ from \in Nat /\ from <= left /\ Reach(end) \in Nat /\ Reach(end) <= top /\ right <= Reach(end)
      /\ from = left \/ (pos <= len /\ from = rs[pos][1] /\ left <= rs[pos][2])
  BY <1>1, <1>2, <1>3, <1>4
<1>7. merged \in Fill!Ranges /\ merged[1] = from /\ merged[2] = Reach(end)
  BY <1>1, <1>6 DEF Fill!Ranges, Fill!Zero, top, Fill!Null
<1> HIDE DEF from, merged
<1>8. /\ new \in Seq(Fill!Ranges) /\ Len(new) = pos + (len + 1 - end)
      /\ \A i \in 1..pos - 1 : new[i] = rs[i]
      /\ new[pos] = merged
      /\ \A i \in pos + 1..Len(new) : new[i] = rs[end + (i - pos - 1)]
  <2>1. /\ SubSeq(rs, 1, pos - 1) \in Seq(Fill!Ranges) /\ Len(SubSeq(rs, 1, pos - 1)) = pos - 1
        /\ \A i \in 1..pos - 1 : SubSeq(rs, 1, pos - 1)[i] = rs[i]
    BY <1>1, <1>2
  <2>2. /\ SubSeq(rs, end, len) \in Seq(Fill!Ranges) /\ Len(SubSeq(rs, end, len)) = len + 1 - end
        /\ \A i \in 1..len + 1 - end : SubSeq(rs, end, len)[i] = rs[end + i - 1]
    BY SMTT(60), <1>1, <1>2, <1>4
  <2>3. PICK s, t : s = SubSeq(rs, 1, pos - 1) /\ t = SubSeq(rs, end, len)
    OBVIOUS
  <2>4. new = (s \o <<merged>>) \o t /\ <<merged>> \in Seq(Fill!Ranges)
    BY <1>7, <2>3
  <2>5. /\ s \o <<merged>> \in Seq(Fill!Ranges) /\ Len(s \o <<merged>>) = pos
        /\ \A i \in 1..pos - 1 : (s \o <<merged>>)[i] = rs[i]
        /\ (s \o <<merged>>)[pos] = merged
    BY <1>2, <1>7, <2>1, <2>3
  <2>6. PICK u : u = s \o <<merged>>
    OBVIOUS
  <2>7. /\ u \in Seq(Fill!Ranges) /\ t \in Seq(Fill!Ranges) /\ Len(u) = pos
        /\ Len(t) = len + 1 - end /\ Len(t) \in Nat /\ pos \in Nat
    BY <1>1, <1>2, <1>4, <2>2, <2>3, <2>5, <2>6
  <2>8. /\ u \o t \in Seq(Fill!Ranges) /\ Len(u \o t) = pos + Len(t)
        /\ \A i \in 1..pos : (u \o t)[i] = u[i]
        /\ \A i \in pos + 1..pos + Len(t) : (u \o t)[i] = t[i - pos]
    BY <2>7
  <2>9. \A i \in pos + 1..pos + Len(t) : t[i - pos] = rs[end + (i - pos - 1)]
    <3> SUFFICES ASSUME NEW i \in pos + 1..pos + Len(t) PROVE t[i - pos] = rs[end + (i - pos - 1)]
      OBVIOUS
    <3>0. pos \in Nat /\ end \in Nat /\ len \in Nat /\ Len(t) \in Nat /\ Len(t) = len + 1 - end
      BY <1>1, <1>2, <1>4, <2>7
    <3> HIDE DEF len
    <3>1. PICK k \in Nat : i = pos + k /\ k >= 1 /\ k <= Len(t)
      <4>1. i - pos \in Nat /\ i = pos + (i - pos) /\ i - pos >= 1 /\ i - pos <= Len(t)
        BY <3>0
      <4> QED BY <4>1
    <3>2. i - pos = k /\ k \in 1..len + 1 - end /\ end + k - 1 = end + (i - pos - 1)
      BY <3>0, <3>1
    <3> QED BY <2>2, <2>3, <3>2
  <2>10. \A i \in 1..pos : u[i] = (s \o <<merged>>)[i]
    BY <2>6
  <2> HIDE DEF new, len
  <2>11. pos \in 1..pos /\ \A i \in 1..pos - 1 : i \in 1..pos
    BY <1>2
  <2>12. \A i \in 1..pos : new[i] = (s \o <<merged>>)[i]
    BY <2>4, <2>6, <2>8, <2>10
  <2>13. new[pos] = merged /\ \A i \in 1..pos - 1 : new[i] = rs[i]
    BY <2>5, <2>11, <2>12
  <2>14. new \in Seq(Fill!Ranges) /\ Len(new) = pos + Len(t) /\ Len(new) = pos + (len + 1 - end)
    BY <2>4, <2>6, <2>7, <2>8
  <2>15. \A i \in pos + 1..Len(new) : new[i] = rs[end + (i - pos - 1)]
    BY <2>4, <2>6, <2>8, <2>9, <2>14
  <2> QED BY <2>13, <2>14, <2>15
<1> HIDE DEF new
<1>9. ASSUME NEW i \in 1..Len(new)
      PROVE  \/ i < pos /\ i \in 1..len /\ new[i] = rs[i]
             \/ i = pos /\ new[i] = merged
             \/ \E j \in end..len : i = pos + 1 + (j - end) /\ new[i] = rs[j]
  <2>0. Len(new) \in Nat /\ i \in Nat /\ pos \in Nat /\ end \in Nat /\ len \in Nat /\ pos >= 1 /\ end <= len + 1
    BY <1>1, <1>2, <1>4, <1>8
  <2>1. CASE i > pos
    <3>1. end + (i - pos - 1) \in end..len /\ i = pos + 1 + ((end + (i - pos - 1)) - end)
      BY <1>8, <2>0, <2>1
    <3>2. new[i] = rs[end + (i - pos - 1)]
      BY <1>8, <2>0, <2>1
    <3> QED BY <3>1, <3>2
  <2>2. CASE i < pos
    <3>1. i \in 1..pos - 1 /\ i \in 1..len
      BY <1>2, <2>0, <2>2
    <3> QED BY <1>8, <2>2, <3>1
  <2> QED BY <1>8, <2>0, <2>1, <2>2
<1>10. Sorted(new)
  <2> SUFFICES ASSUME NEW i \in 1..Len(new), NEW j \in 1..Len(new), i < j
               PROVE  new[i][2] < new[j][1]
    BY DEF Sorted
  <2>1. Len(new) \in Nat
    BY <1>8
  <2>2. CASE i < pos
    <3>1. i \in 1..len /\ new[i] = rs[i] /\ rs[i][2] < left
      <4>1. i \in 1..pos - 1
        BY <1>2, <2>1, <2>2
      <4> QED BY <1>1, <1>2, <1>8, <4>1
    <3>2. CASE j < pos
      <4>1. j \in 1..len /\ new[j] = rs[j]
        <5>1. j \in 1..pos - 1
          BY <1>2, <2>1, <3>2
        <5> QED BY <1>1, <1>2, <1>8, <5>1
      <4> QED BY <3>1, <4>1 DEF Sorted
    <3>3. CASE j = pos
      <4>1. pos <= len => rs[i][2] < rs[pos][1]
        BY <1>1, <1>2, <2>2, <3>1 DEF Sorted
      <4>2. rs[i][2] < from
        BY <1>1, <1>6, <3>1, <4>1
      <4> QED BY <1>7, <1>8, <3>1, <3>3, <4>2
    <3>4. CASE j > pos
      <4>1. PICK k \in end..len : new[j] = rs[k]
        BY <1>9, <1>2, <2>1, <3>4
      <4>2. k \in 1..len /\ i < k
        BY <1>1, <1>2, <1>4, <2>2
      <4> QED BY <3>1, <4>1, <4>2 DEF Sorted
    <3> QED BY <1>2, <3>2, <3>3, <3>4
  <2>3. CASE i = pos
    <3>1. PICK k \in end..len : new[j] = rs[k]
      BY <1>9, <1>2, <2>1, <2>3
    <3>2. end \in 1..len /\ k \in 1..len /\ rs[end][1] > Reach(end)
      BY <1>1, <1>2, <1>4
    <3>3. k = end \/ rs[end][2] < rs[k][1]
      BY <3>1, <3>2 DEF Sorted
    <3>4. rs[k][1] > Reach(end)
      BY <1>1, <1>6, <3>2, <3>3
    <3> QED BY <1>1, <1>6, <1>7, <1>8, <2>3, <3>1, <3>2, <3>4
  <2>4. CASE i > pos
    <3>1. PICK k \in end..len : i = pos + 1 + (k - end) /\ new[i] = rs[k]
      BY <1>9, <1>2, <2>4
    <3>2. PICK l \in end..len : j = pos + 1 + (l - end) /\ new[j] = rs[l]
      BY <1>9, <1>2, <2>1, <2>4
    <3>3. k \in 1..len /\ l \in 1..len /\ k < l
      BY <1>1, <1>2, <1>4, <3>1, <3>2
    <3> QED BY <3>1, <3>2, <3>3 DEF Sorted
  <2> QED BY <1>2, <2>2, <2>3, <2>4
<1>11. ASSUME NEW n \in Nat, Covered(n, new) PROVE Covered(n, rs) \/ In(n, <<left, right>>)
  <2>1. PICK i \in 1..Len(new) : In(n, new[i])
    BY <1>11 DEF Covered
  <2>2. CASE i = pos
    <3>1. from < n /\ n <= Reach(end)
      BY <1>7, <1>8, <2>1, <2>2 DEF In
    <3>2. CASE n <= left
      <4>1. pos \in 1..len /\ In(n, rs[pos])
        BY <1>1, <1>2, <1>6, <3>1, <3>2 DEF In
      <4> QED BY <4>1 DEF Covered
    <3>3. CASE left < n /\ n <= right
      BY <3>3 DEF In
    <3>4. CASE right < n
      <4>1. PICK j \in pos..end - 1 : Reach(end) = rs[j][2]
        BY <1>1, <1>3, <1>4, <1>6, <3>1, <3>4
      <4>2. j \in 1..len /\ rs[j][1] <= right
        BY <1>1, <1>2, <1>4, <1>5
      <4>3. In(n, rs[j])
        BY <1>1, <3>1, <3>4, <4>1, <4>2 DEF In
      <4> QED BY <4>2, <4>3 DEF Covered
    <3> QED BY <1>1, <3>2, <3>3, <3>4
  <2>3. CASE i # pos
    <3>1. PICK j \in 1..len : new[i] = rs[j]
      BY <1>1, <1>2, <1>4, <1>9, <2>3
    <3> QED BY <2>1, <3>1 DEF Covered
  <2> QED BY <2>2, <2>3
<1> QED BY <1>0, <1>8, <1>10, <1>11

-----------------------------------------------------------------------------
\* The file says that the records up to n were sent.  It is there unless the backfill
\* is complete, or has not begun.
Reached(n) == IF backup = Fill!NoFile THEN filled ELSE n <= backup

\* The records at n were sent.
WasSent(n) == n \in Fill!Keys => n \in sent

FillTypes == /\ progress \in Nat /\ progress <= Fill!NoMonitor
             /\ backup \in Nat /\ backup <= Fill!NoFile
             /\ edits \subseteq Fill!Ranges
             /\ ranges \in Seq(Fill!Ranges)
             /\ filled \in BOOLEAN /\ loaded \in BOOLEAN
             /\ sent \subseteq Fill!Keys

\* The offset is not below the one in the file: it is above it after a round that failed,
\* and if there is no monitor, as NoMonitor is above all.  The file is removed only when
\* the sequence is filled.
BackupAgrees == /\ backup # Fill!NoFile => backup <= progress
                /\ backup = Fill!NoFile /\ filled => loaded

\* Ranges of the record and edits on their way do not overlap, so that no edit is
\* left of a backfill that is complete; all of them are in the file and were sent.
EditsApart ==
    /\ Sorted(ranges)
    /\ \A n \in Nat : Covered(n, ranges) => Reached(n) /\ WasSent(n)
    /\ \A e \in edits, n \in Nat : In(n, e) => /\ Reached(n) /\ WasSent(n) /\ ~Covered(n, ranges)
                                              /\ \A f \in edits : In(n, f) => f = e

\* No round begins when the sequence is filled, or loaded as filled before it was erased.
FilledWhole == /\ filled => ranges = <<<<Fill!Zero, Fill!Null>>>>
               /\ filled \/ loaded => progress >= Fill!Null
               /\ loaded /\ ~filled => ranges = <<>> /\ edits = {}

FillInv == FillTypes /\ BackupAgrees /\ EditsApart /\ FilledWhole

\* The numbers of the model.
LEMMA FillNumbers ==
    /\ NKeys \in Nat /\ Limit \in Nat /\ Limit >= 1
    /\ Fill!Zero = 0 /\ Fill!Null = NKeys + 1 /\ Fill!NoFile = NKeys + 2 /\ Fill!NoMonitor = NKeys + 2
    /\ Fill!Keys = 1..NKeys
    /\ \A e \in Fill!Ranges : /\ e[1] \in Nat /\ e[2] \in Nat /\ e[1] <= NKeys /\ e[2] <= NKeys + 1
                              /\ e[1] < e[2] /\ e = <<e[1], e[2]>>
    /\ \A l, r \in Nat : l <= NKeys /\ r <= NKeys + 1 /\ l < r => <<l, r>> \in Fill!Ranges
<1>1. NKeys \in Nat /\ Limit \in Nat /\ Limit >= 1
  BY DataAssumption DEF Fill!BackfillProgressAssumption
<1>2. /\ Fill!Zero = 0 /\ Fill!Null = NKeys + 1 /\ Fill!NoFile = NKeys + 2 /\ Fill!NoMonitor = NKeys + 2
      /\ Fill!Keys = 1..NKeys
  BY DEF Fill!Zero, Fill!Null, Fill!NoFile, Fill!NoMonitor, Fill!Keys
<1>3. \A e \in Fill!Ranges : /\ e[1] \in Nat /\ e[2] \in Nat /\ e[1] <= NKeys /\ e[2] <= NKeys + 1
                             /\ e[1] < e[2] /\ e = <<e[1], e[2]>>
  BY <1>1 DEF Fill!Ranges, Fill!Zero, Fill!Null
<1>4. \A l, r \in Nat : l <= NKeys /\ r <= NKeys + 1 /\ l < r => <<l, r>> \in Fill!Ranges
  BY <1>1 DEF Fill!Ranges, Fill!Zero, Fill!Null
<1> QED BY <1>1, <1>2, <1>3, <1>4

\* Of a backfill that is complete no edit is left, all records were sent, and the offset
\* is past them.
LEMMA WholeMeans ==
    ASSUME FillInv, ranges = <<<<Fill!Zero, Fill!Null>>>>
    PROVE  edits = {} /\ sent = Fill!Keys /\ Reached(NKeys + 1)
<1>1. \A n \in Nat : n >= 1 /\ n <= NKeys + 1 => Covered(n, ranges)
  BY FillNumbers DEF Covered, In
<1>2. ASSUME NEW e \in edits PROVE FALSE
  <2>1. /\ e[1] \in Nat /\ e[2] \in Nat /\ e[1] < e[2] /\ e[2] <= NKeys + 1
    BY FillNumbers DEF FillInv, FillTypes
  <2>2. In(e[2], e) /\ Covered(e[2], ranges)
    BY <1>1, <2>1 DEF In
  <2> QED BY <2>1, <2>2 DEF FillInv, EditsApart
<1>3. ASSUME NEW k \in Fill!Keys PROVE k \in sent
  <2>1. k \in Nat /\ Covered(k, ranges)
    BY <1>1, FillNumbers
  <2> QED BY <2>1 DEF FillInv, EditsApart, WasSent
<1>4. Reached(NKeys + 1)
  BY <1>1, FillNumbers DEF FillInv, EditsApart
<1> QED BY <1>2, <1>3, <1>4 DEF FillInv, FillTypes

\* Nothing is left of a complete backfill.
LEMMA FilledMeans ==
    ASSUME FillInv, filled
    PROVE  edits = {} /\ sent = Fill!Keys /\ progress >= Fill!Null
BY WholeMeans DEF FillInv, FilledWhole

\* No backfill has begun.
LEMMA InitFill ==
    ASSUME Fill!Init
    PROVE  FillInv
<1>1. /\ progress = NKeys + 2 /\ backup = NKeys + 2 /\ edits = {} /\ ranges = <<>>
      /\ filled = FALSE /\ loaded = FALSE /\ sent = {}
  BY FillNumbers DEF Fill!Init
<1>2. \A n : ~Covered(n, ranges)
  BY <1>1 DEF Covered
<1>3. FillTypes /\ BackupAgrees /\ FilledWhole
  <2>1. FillTypes
    <3>1. progress \in Nat /\ progress <= Fill!NoMonitor /\ backup \in Nat /\ backup <= Fill!NoFile
      BY <1>1, FillNumbers
    <3>2. ranges \in Seq(Fill!Ranges)
      BY <1>1
    <3> QED BY <1>1, <3>1, <3>2 DEF FillTypes
  <2>2. BackupAgrees
    BY <1>1, FillNumbers DEF BackupAgrees
  <2>3. FilledWhole
    BY <1>1 DEF FilledWhole
  <2> QED BY <2>1, <2>2, <2>3
<1>4. EditsApart
  BY <1>1, <1>2 DEF EditsApart, Sorted
<1> QED BY <1>3, <1>4 DEF FillInv

\* A round covers positions above the offset, which no range and no other edit has; a
\* gap may be below them.
LEMMA RoundKeeps ==
    ASSUME FillInv, Fill!Round
    PROVE  FillInv'
<1> DEFINE after == Fill!After
           new == <<progress, after>>
<1>1. /\ progress \in Nat /\ progress <= NKeys /\ after \in Nat /\ progress < after /\ after <= NKeys + 1
      /\ \A k \in Fill!Keys : progress < k /\ k <= after => k \in Fill!Batch
  <2>1. progress \in Nat /\ progress < NKeys + 1 /\ NKeys \in Nat /\ Limit \in Nat /\ Limit >= 1
    BY FillNumbers DEF Fill!Round, FillInv, FillTypes
  <2>2. after = IF progress + Limit > NKeys THEN NKeys + 1 ELSE progress + Limit
    BY FillNumbers DEF Fill!After
  <2>3. \A k \in Fill!Keys : k \in Nat /\ k <= NKeys
    BY FillNumbers
  <2>4. Fill!Batch = {k \in Fill!Keys : k > progress /\ k <= progress + Limit}
    BY DEF Fill!Batch
  <2> HIDE DEF after
  <2> QED BY <2>1, <2>2, <2>3, <2>4
<1>2. /\ progress' = after /\ backup' = after /\ edits' = edits \union {new}
      /\ sent' = sent \union Fill!Batch /\ UNCHANGED <<ranges, filled, loaded>>
  BY DEF Fill!Round
<1> HIDE DEF after
<1>3. new \in Fill!Ranges /\ new[1] = progress /\ new[2] = after
  BY <1>1, FillNumbers
<1> HIDE DEF new
<1>4. /\ ~filled /\ ~loaded /\ backup' # Fill!NoFile
      /\ \A n \in Nat : Reached(n) => n <= progress /\ Reached(n)'
      /\ \A n \in Nat : In(n, new) => n > progress /\ Reached(n)'
  <2>1. ~filled /\ ~loaded
    BY <1>1, FillNumbers DEF FillInv, FilledWhole
  <2>2. backup' # Fill!NoFile /\ backup' = after
    BY <1>1, <1>2, FillNumbers
  <2>3. ASSUME NEW n \in Nat, Reached(n) PROVE n <= progress /\ Reached(n)'
    <3>1. n <= backup /\ backup <= progress /\ backup \in Nat
      BY <2>1, <2>3 DEF Reached, FillInv, FillTypes, BackupAgrees
    <3> QED BY <1>1, <2>2, <3>1 DEF Reached
  <2>4. ASSUME NEW n \in Nat, In(n, new) PROVE n > progress /\ Reached(n)'
    BY <1>1, <1>3, <2>2, <2>4 DEF Reached, In
  <2> QED BY <2>1, <2>2, <2>3, <2>4
<1>5. \A n \in Nat : /\ WasSent(n) => WasSent(n)'
                     /\ In(n, new) => WasSent(n)'
  BY <1>1, <1>2, <1>3 DEF WasSent, In
<1>6. FillTypes'
  <2>1. Fill!Batch \subseteq Fill!Keys
    BY DEF Fill!Batch
  <2> QED BY <1>1, <1>2, <1>3, <2>1, FillNumbers DEF FillInv, FillTypes
<1>7. BackupAgrees' /\ FilledWhole'
  BY <1>1, <1>2, <1>4 DEF FillInv, BackupAgrees, FilledWhole
<1>8. EditsApart'
  <2>1. Sorted(ranges)' /\ \A n \in Nat : Covered(n, ranges)' => Covered(n, ranges)
    BY <1>2 DEF FillInv, EditsApart
  <2>2. \A n \in Nat : Covered(n, ranges)' => Reached(n)' /\ WasSent(n)'
    BY <1>4, <1>5, <2>1 DEF FillInv, EditsApart
  <2>3. ASSUME NEW e \in edits', NEW n \in Nat, In(n, e)
        PROVE  /\ Reached(n)' /\ WasSent(n)' /\ ~Covered(n, ranges)'
               /\ \A f \in edits' : In(n, f) => f = e
    <3>1. CASE e = new
      <4>1. Reached(n)' /\ WasSent(n)' /\ ~Reached(n)
        BY <1>1, <1>4, <1>5, <2>3, <3>1
      <4>2. ~Covered(n, ranges) /\ \A f \in edits : ~In(n, f)
        BY <4>1 DEF FillInv, EditsApart
      <4> QED BY <1>2, <2>1, <3>1, <4>1, <4>2
    <3>2. CASE e \in edits
      <4>1. Reached(n) /\ WasSent(n) /\ ~Covered(n, ranges) /\ \A f \in edits : In(n, f) => f = e
        BY <2>3, <3>2 DEF FillInv, EditsApart
      <4>2. ~In(n, new)
        BY <1>1, <1>4, <4>1
      <4> QED BY <1>2, <1>4, <1>5, <2>1, <4>1, <4>2
    <3> QED BY <1>2, <3>1, <3>2
  <2> QED BY <2>1, <2>2, <2>3 DEF EditsApart
<1> QED BY <1>6, <1>7, <1>8 DEF FillInv

\* An edit that is saved moves what it covers from the edits to the ranges.
LEMMA CommitKeeps ==
    ASSUME FillInv, NEW e \in edits, Fill!CommitBackfill(e)
    PROVE  FillInv'
<1>1. /\ ranges' = Fill!AddRange(ranges, e[1], e[2])
      /\ filled' = (filled \/ ranges' = <<<<Fill!Zero, Fill!Null>>>>)
      /\ edits' = edits \ {e} /\ UNCHANGED <<progress, backup, loaded, sent>>
  BY DEF Fill!CommitBackfill
<1>2. /\ e[1] \in Nat /\ e[2] \in Nat /\ e[1] <= NKeys /\ e[2] <= NKeys + 1 /\ e[1] < e[2] /\ e = <<e[1], e[2]>>
      /\ NKeys \in Nat /\ ranges \in Seq(Fill!Ranges) /\ Sorted(ranges)
  BY FillNumbers DEF FillInv, FillTypes, EditsApart
<1>3. /\ ranges' \in Seq(Fill!Ranges) /\ Sorted(ranges')
      /\ \A n \in Nat : Covered(n, ranges') => Covered(n, ranges) \/ In(n, e)
  BY <1>1, <1>2, AddedRange
<1>4. ~filled /\ ~loaded
  BY FilledMeans DEF FillInv, FilledWhole
<1>5. FillTypes'
  BY <1>1, <1>3 DEF FillInv, FillTypes
<1>7. EditsApart'
  <2>1. \A n \in Nat : (Reached(n) => Reached(n)') /\ (WasSent(n) => WasSent(n)')
    BY <1>1, <1>4 DEF Reached, WasSent
  <2>2. \A n \in Nat : Covered(n, ranges)' => Reached(n)' /\ WasSent(n)'
    BY <1>3, <2>1 DEF FillInv, EditsApart, Covered
  <2>3. ASSUME NEW d \in edits', NEW n \in Nat, In(n, d)
        PROVE  /\ Reached(n)' /\ WasSent(n)' /\ ~Covered(n, ranges')
               /\ \A f \in edits' : In(n, f) => f = d
    <3>1. d \in edits /\ d # e
      BY <1>1
    <3>2. Reached(n) /\ WasSent(n) /\ ~Covered(n, ranges) /\ \A f \in edits : In(n, f) => f = d
      BY <2>3, <3>1 DEF FillInv, EditsApart
    <3> QED BY <1>1, <1>3, <2>1, <3>1, <3>2
  <2> QED BY <1>3, <2>2, <2>3 DEF EditsApart, Covered, Sorted
<1>6. BackupAgrees' /\ FilledWhole'
  <2>1. In(e[2], e) /\ Reached(e[2]) /\ backup # Fill!NoFile
    BY <1>2, <1>4 DEF In, FillInv, EditsApart, Reached
  <2>2. ASSUME filled' PROVE progress >= Fill!Null
    <3>1. Covered(NKeys + 1, ranges')
      <4>1. ranges' = <<<<0, NKeys + 1>>>>
        BY <1>1, <1>4, <2>2, FillNumbers
      <4>2. 1 \in DOMAIN ranges' /\ In(NKeys + 1, ranges'[1])
        BY <1>2, <4>1 DEF In
      <4> QED BY <4>2 DEF Covered
    <3>2. Covered(NKeys + 1, ranges) \/ In(NKeys + 1, e)
      BY <1>2, <1>3, <3>1
    <3>3. Reached(NKeys + 1)
      BY <1>2, <3>2 DEF FillInv, EditsApart
    <3> QED BY <1>2, <2>1, <3>3, FillNumbers DEF Reached, FillInv, FillTypes, BackupAgrees
  <2> QED BY <1>1, <1>4, <2>1, <2>2 DEF FillInv, BackupAgrees, FilledWhole
<1> QED BY <1>5, <1>6, <1>7 DEF FillInv

\* What stays when nothing is sent and the file as it is.
LEMMA QuietKeeps ==
    ASSUME FillInv, UNCHANGED <<ranges, sent, backup, filled>>, edits' \subseteq edits
    PROVE  EditsApart'
<1>1. \A n \in Nat : /\ (WasSent(n) => WasSent(n)') /\ (Covered(n, ranges)' <=> Covered(n, ranges))
                     /\ (Reached(n) => Reached(n)')
  BY DEF WasSent, Covered, Reached
<1> QED BY <1>1 DEF FillInv, EditsApart, Sorted

\* A monitor that resumes agrees with the file; that it is not past the end matters only
\* while the sequence is not filled, as the file is at the end then.
LEMMA ResumedAgrees ==
    ASSUME FillInv, ~loaded
    PROVE  /\ Fill!Resumed \in Nat /\ Fill!Resumed <= Fill!NoMonitor
           /\ backup # Fill!NoFile => backup <= Fill!Resumed
           /\ filled => Fill!Resumed >= Fill!Null
<1>1. /\ Fill!Resumed \in Nat /\ Fill!Resumed <= Fill!NoMonitor
      /\ backup # Fill!NoFile => backup = Fill!Resumed
  BY FillNumbers DEF Fill!Resumed, FillInv, FillTypes
<1>2. ASSUME filled PROVE Fill!Resumed >= Fill!Null
  <2>1. backup # Fill!NoFile
    BY <1>2 DEF FillInv, BackupAgrees
  <2>2. Reached(NKeys + 1)
    BY <1>2, WholeMeans DEF FillInv, FilledWhole
  <2> QED BY <1>1, <2>1, <2>2, FillNumbers DEF Reached, FillInv, FillTypes
<1> QED BY <1>1, <1>2, FillNumbers DEF FillInv, FillTypes

\* A new monitor starts where the file says, or at the beginning.
LEMMA BackfillKeeps ==
    ASSUME FillInv, Fill!Backfill
    PROVE  FillInv'
<1>1. /\ progress' = IF progress = Fill!NoMonitor /\ ~loaded THEN Fill!Resumed ELSE progress
      /\ UNCHANGED <<backup, edits, ranges, filled, loaded, sent>>
  BY DEF Fill!Backfill
<1>2. EditsApart'
  BY <1>1, QuietKeeps
<1>3. CASE progress' = progress
  BY <1>1, <1>2, <1>3 DEF FillInv, FillTypes, BackupAgrees, FilledWhole
<1>4. CASE ~loaded /\ progress' = Fill!Resumed
  BY <1>1, <1>2, <1>4, ResumedAgrees DEF FillInv, FillTypes, BackupAgrees, FilledWhole
<1> QED BY <1>1, <1>3, <1>4

\* Only the request, the list of the source or the monitor changes, or an edit gets lost,
\* which leaves a gap that stays one.
LEMMA AsideKeeps ==
    ASSUME FillInv, progress' \in Nat, progress <= progress', progress' <= Fill!NoMonitor,
           edits' \subseteq edits, UNCHANGED <<backup, ranges, filled, loaded, sent>>
    PROVE  FillInv'
<1>1. EditsApart'
  BY QuietKeeps
<1>2. FillTypes'
  BY DEF FillInv, FillTypes
<1>3. BackupAgrees' /\ FilledWhole'
  BY FillNumbers DEF FillInv, FillTypes, BackupAgrees, FilledWhole
<1> QED BY <1>1, <1>2, <1>3 DEF FillInv

\* A round that fails moves the offset only.
LEMMA FailedRoundKeeps ==
    ASSUME FillInv, Fill!RoundFails
    PROVE  FillInv'
<1>1. /\ progress < Fill!Null /\ progress' \in Fill!Batch \union {Fill!After}
      /\ UNCHANGED <<backup, edits, ranges, filled, loaded, sent>>
  BY DEF Fill!RoundFails
<1>2. /\ progress \in Nat /\ progress < NKeys + 1 /\ NKeys \in Nat /\ Limit \in Nat
  BY <1>1, FillNumbers DEF FillInv, FillTypes
<1>3. Fill!After = IF progress + Limit > NKeys THEN NKeys + 1 ELSE progress + Limit
  BY FillNumbers DEF Fill!After
<1>4. \A k \in Fill!Batch : k \in 1..NKeys /\ k > progress
  BY FillNumbers DEF Fill!Batch
<1>5. progress' \in Nat /\ progress <= progress' /\ progress' <= Fill!NoMonitor
  BY <1>1, <1>2, <1>3, <1>4, FillNumbers
<1> QED BY <1>1, <1>5, AsideKeeps

\* The record is loaded again.
LEMMA ReloadKeeps ==
    ASSUME FillInv, Fill!Reload
    PROVE  FillInv'
<1>1. loaded' = filled /\ loaded # filled /\ UNCHANGED <<progress, backup, edits, ranges, filled, sent>>
  BY DEF Fill!Reload
<1>2. EditsApart'
  BY <1>1, QuietKeeps
<1> QED BY <1>1, <1>2 DEF FillInv, FillTypes, BackupAgrees, FilledWhole

\* A restart resumes where the file says.
LEMMA RestartKeeps ==
    ASSUME FillInv, Fill!Restart
    PROVE  FillInv'
<1>1. /\ progress' = IF loaded THEN Fill!Null ELSE Fill!Resumed
      /\ backup' = IF loaded THEN Fill!NoFile ELSE backup
      /\ UNCHANGED <<edits, ranges, filled, loaded, sent>>
  BY DEF Fill!Restart
<1>2. CASE loaded
  <2>1. progress' = NKeys + 1 /\ backup' = NKeys + 2 /\ NKeys \in Nat
    BY <1>1, <1>2, FillNumbers
  <2>2. FillTypes' /\ BackupAgrees' /\ FilledWhole'
    BY <1>1, <1>2, <2>1, FillNumbers DEF FillInv, FillTypes, BackupAgrees, FilledWhole
  <2>3. EditsApart'
    <3>1. CASE filled
      <4>1. edits = {}
        BY <3>1, FilledMeans
      <4>2. \A n \in Nat : (Covered(n, ranges)' <=> Covered(n, ranges)) /\ (WasSent(n) => WasSent(n)') /\ Reached(n)'
        BY <1>1, <2>1, <3>1, FillNumbers DEF Covered, WasSent, Reached
      <4> QED BY <1>1, <4>1, <4>2 DEF FillInv, EditsApart, Sorted
    <3>2. CASE ~filled
      <4>1. edits' = {} /\ ranges' = <<>>
        BY <1>1, <1>2, <3>2 DEF FillInv, FilledWhole
      <4> QED BY <4>1 DEF EditsApart, Sorted, Covered
    <3> QED BY <3>1, <3>2 DEF FillInv, FillTypes
  <2> QED BY <2>2, <2>3 DEF FillInv
<1>3. CASE ~loaded
  <2>1. progress' = Fill!Resumed /\ UNCHANGED <<backup, edits, ranges, filled, loaded, sent>>
    BY <1>1, <1>3
  <2>2. EditsApart'
    BY <2>1, QuietKeeps
  <2> QED BY <1>3, <2>1, <2>2, ResumedAgrees DEF FillInv, FillTypes, BackupAgrees, FilledWhole
<1> QED BY <1>2, <1>3 DEF FillInv, FillTypes

\* A rebuild begins with nothing sent and no edits on their way, whether the source block
\* makes a new monitor or keeps the one it has.
LEMMA RebuildKeeps ==
    ASSUME FillInv, Fill!Rebuild \/ Fill!RebuildFails
    PROVE  FillInv'
<1>1. /\ filled /\ filled' = FALSE /\ ranges' = <<>> /\ sent' = {} /\ UNCHANGED <<backup, edits>>
      /\ \/ progress' = Fill!Resumed /\ loaded' = FALSE
         \/ progress' = progress /\ loaded' = loaded
  BY DEF Fill!Rebuild, Fill!RebuildFails
<1>2. edits = {} /\ progress >= Fill!Null
  BY <1>1, FilledMeans
<1>3. /\ progress' \in Nat /\ progress' <= Fill!NoMonitor
      /\ backup' # Fill!NoFile => backup' <= progress'
      /\ loaded' => progress' >= Fill!Null
  BY <1>1, <1>2, FillNumbers DEF Fill!Resumed, FillInv, FillTypes, BackupAgrees
<1>4. FillTypes' /\ BackupAgrees' /\ FilledWhole'
  <2>1. FillTypes'
    <3>1. (progress \in Nat /\ progress <= Fill!NoMonitor /\ backup \in Nat /\ backup <= Fill!NoFile)'
      BY <1>1, <1>3, FillNumbers DEF FillInv, FillTypes
    <3>2. (ranges \in Seq(Fill!Ranges))'
      BY <1>1
    <3>3. loaded' \in BOOLEAN
      BY <1>1 DEF FillInv, FillTypes
    <3> QED BY <1>1, <1>2, <3>1, <3>2, <3>3 DEF FillInv, FillTypes
  <2>2. BackupAgrees'
    BY <1>1, <1>3 DEF BackupAgrees
  <2>3. FilledWhole'
    BY <1>1, <1>2, <1>3 DEF FilledWhole
  <2> QED BY <2>1, <2>2, <2>3
<1>5. EditsApart'
  BY <1>1, <1>2 DEF EditsApart, Sorted, Covered
<1> QED BY <1>4, <1>5 DEF FillInv

\* Every step of a backfill keeps its invariant.
LEMMA FillKeeps ==
    ASSUME FillInv, Fill!Next \/ UNCHANGED backfillvars
    PROVE  FillInv'
<1>1. CASE Fill!Next
  <2>1. \/ Fill!Backfill \/ Fill!LoseRequest \/ Fill!List \/ Fill!Round \/ Fill!RoundFails
        \/ Fill!Reload \/ Fill!Restart \/ Fill!RestartUnlisted \/ Fill!Rebuild \/ Fill!RebuildFails
        \/ \E e \in edits : Fill!CommitBackfill(e) \/ Fill!LoseEdit(e)
    BY <1>1 DEF Fill!Next
  <2>2. CASE Fill!LoseRequest \/ Fill!List \/ \E e \in edits : Fill!LoseEdit(e)
    <3>1. progress' = progress /\ edits' \subseteq edits /\ UNCHANGED <<backup, ranges, filled, loaded, sent>>
      BY <2>2 DEF Fill!LoseRequest, Fill!List, Fill!LoseEdit
    <3>2. progress \in Nat /\ progress <= Fill!NoMonitor
      BY DEF FillInv, FillTypes
    <3> QED BY <3>1, <3>2, AsideKeeps
  <2>3. CASE Fill!RestartUnlisted
    <3>1. progress' = NKeys + 2 /\ progress \in Nat /\ progress <= NKeys + 2
      BY <2>3, FillNumbers DEF Fill!RestartUnlisted, FillInv, FillTypes
    <3>2. edits' \subseteq edits /\ UNCHANGED <<backup, ranges, filled, loaded, sent>>
      BY <2>3 DEF Fill!RestartUnlisted
    <3> QED BY <3>1, <3>2, FillNumbers, AsideKeeps
  <2> QED BY <2>1, <2>2, <2>3, BackfillKeeps, RoundKeeps, FailedRoundKeeps, ReloadKeeps, RestartKeeps,
             RebuildKeeps, CommitKeeps
<1>2. CASE UNCHANGED backfillvars
  BY <1>2 DEF backfillvars, FillInv, FillTypes, BackupAgrees, EditsApart, FilledWhole, Reached, WasSent, Covered,
              Sorted
<1> QED BY <1>1, <1>2

-----------------------------------------------------------------------------
StoreRecord == [records : Store!Contents, pending : BOOLEAN, timers : Nat]

StoreTypes == /\ file \in Store!Contents /\ answered \in Store!Contents
              /\ stores \in Seq(StoreRecord)
              /\ running \in BOOLEAN /\ early \in BOOLEAN
              /\ (running => stores # <<>>)

\* Unless a store was left with an unsaved write, only the one in use has timers; what it
\* has not written yet is what was answered, as is the file when no timer is set.
StoreFollows == /\ \A i \in 1..Len(stores) : i # Len(stores) => stores[i].timers = 0
                /\ stores # <<>> =>
                      /\ running \/ Store!Current.timers > 0 => Store!Current.records = answered
                      /\ Store!Current.pending => Store!Current.timers > 0
                /\ ~Store!Unsaved => file = answered

StoreInv == StoreTypes /\ (~early => StoreFollows)

\* No records are records.
LEMMA EmptyRecords == Store!Empty \in Store!Contents
BY DEF Store!Empty, Store!Contents, Store!Absent

\* The store in use is the last one of the list.
LEMMA InUse ==
    ASSUME StoreTypes, stores # <<>>
    PROVE  /\ Len(stores) \in 1..Len(stores) /\ Len(stores) \in Nat
           /\ Store!Current = stores[Len(stores)] /\ Store!Current \in StoreRecord
BY DEF StoreTypes, Store!Current

\* No store is open.
LEMMA InitStore ==
    ASSUME Store!Init
    PROVE  StoreInv
<1>1. StoreTypes
  <2>1. stores = <<>> /\ stores \in Seq(StoreRecord)
    BY DEF Store!Init
  <2> QED BY <2>1, EmptyRecords DEF Store!Init, StoreTypes
<1>2. StoreFollows
  BY DEF Store!Init, StoreFollows
<1> QED BY <1>1, <1>2 DEF StoreInv

\* Without timers, a store that is not saved cannot be in the list.
LEMMA AllSaved ==
    ASSUME StoreInv, ~early, ~Store!Unsaved
    PROVE  file = answered /\ \A i \in 1..Len(stores) : stores[i].timers = 0
<1>1. \A i \in 1..Len(stores) : stores[i] \in StoreRecord
  BY DEF StoreInv, StoreTypes
<1>2. \A i \in 1..Len(stores) : stores[i].timers \in Nat
  BY <1>1 DEF StoreRecord
<1>3. \A i \in 1..Len(stores) : stores[i].timers = 0
  BY <1>2 DEF Store!Unsaved
<1> QED BY <1>3 DEF StoreInv, StoreFollows

\* A store is opened on a file that is up to date, or one was left early.
LEMMA OpenKeeps ==
    ASSUME StoreInv, Store!Open
    PROVE  StoreInv'
<1> DEFINE new == [records |-> file, pending |-> FALSE, timers |-> 0]
<1>1. /\ running' = TRUE /\ stores' = Append(stores, new) /\ early' = (early \/ Store!Unsaved)
      /\ UNCHANGED <<file, answered>>
  BY DEF Store!Open
<1>2. /\ stores \in Seq(StoreRecord) /\ new \in StoreRecord
      /\ new.records = file /\ new.pending = FALSE /\ new.timers = 0
  BY DEF StoreInv, StoreTypes, StoreRecord
<1> HIDE DEF new
<1>3. /\ stores' \in Seq(StoreRecord) /\ Len(stores') = Len(stores) + 1 /\ Len(stores) \in Nat
      /\ \A i \in 1..Len(stores) : stores'[i] = stores[i]
      /\ stores'[Len(stores) + 1] = new
  BY <1>1, <1>2
<1>4. StoreTypes'
  BY <1>1, <1>3 DEF StoreInv, StoreTypes, Store!Unsaved
<1>5. ASSUME ~early' PROVE StoreFollows'
  <2>1. file = answered /\ \A i \in 1..Len(stores) : stores[i].timers = 0
    BY <1>1, <1>5, AllSaved
  <2>2. Store!Current' = new
    BY <1>3 DEF Store!Current
  <2>3. \A i \in 1..Len(stores') : i # Len(stores') => stores'[i].timers = 0
    BY <1>3, <2>1
  <2> QED BY <1>1, <1>2, <2>1, <2>2, <2>3 DEF StoreFollows
<1> QED BY <1>4, <1>5 DEF StoreInv

\* put() and del(): the last store gets the records and has a timer.
LEMMA WriteKeeps ==
    ASSUME StoreInv, NEW records \in Store!Contents, Store!Write(records, TRUE)
    PROVE  StoreInv'
<1> DEFINE last == Len(stores)
           changed == [Store!Current EXCEPT !.records = records]
<1>1. /\ running /\ stores' = [stores EXCEPT ![last] = Store!Scheduled([@ EXCEPT !.records = records])]
      /\ answered' = records /\ UNCHANGED <<file, running, early>>
  BY DEF Store!Write
<1>2. /\ stores # <<>> /\ stores \in Seq(StoreRecord) /\ last \in 1..last /\ last \in Nat
      /\ Store!Current = stores[last] /\ Store!Current \in StoreRecord
  BY <1>1, InUse DEF StoreInv, StoreTypes
<1>3. PICK new : new = Store!Scheduled(changed)
  OBVIOUS
<1>4. /\ changed \in StoreRecord /\ changed.records = records
      /\ changed.pending = Store!Current.pending /\ changed.timers = Store!Current.timers
  BY <1>2 DEF StoreRecord
<1> HIDE DEF changed
<1>5. /\ new \in StoreRecord /\ new.records = records
      /\ (Store!Current.pending /\ new.timers = Store!Current.timers)
         \/ (new.timers = Store!Current.timers + 1 /\ Store!Current.timers \in Nat)
  <2>1. CASE changed.pending
    <3>1. new = changed
      BY <1>3, <2>1 DEF Store!Scheduled
    <3> QED BY <1>4, <2>1, <3>1
  <2>2. CASE ~changed.pending
    <3>1. new = [changed EXCEPT !.pending = TRUE, !.timers = @ + 1]
      BY <1>3, <2>2 DEF Store!Scheduled
    <3>2. new = [records |-> records, pending |-> TRUE, timers |-> Store!Current.timers + 1]
      BY <1>4, <3>1 DEF StoreRecord
    <3>3. Store!Current.timers \in Nat
      BY <1>2 DEF StoreRecord
    <3> QED BY <3>2, <3>3 DEF StoreRecord
  <2> QED BY <2>1, <2>2
<1>6. /\ stores' \in Seq(StoreRecord) /\ Len(stores') = last /\ stores'[last] = new
      /\ \A i \in 1..last : i # last => stores'[i] = stores[i]
  BY <1>1, <1>2, <1>3, <1>5 DEF changed
<1>7. StoreTypes'
  BY <1>1, <1>2, <1>6 DEF StoreInv, StoreTypes
<1>8. ASSUME ~early' PROVE StoreFollows'
  <2>1. StoreFollows
    BY <1>1, <1>8 DEF StoreInv
  <2>2. new.timers > 0
    BY <1>2, <1>5, <2>1 DEF StoreFollows
  <2>3. Store!Current' = new
    BY <1>6 DEF Store!Current
  <2>4. Store!Unsaved'
    BY <1>2, <1>6, <2>2 DEF Store!Unsaved
  <2>5. \A i \in 1..Len(stores') : i # Len(stores') => stores'[i].timers = 0
    BY <1>6, <2>1 DEF StoreFollows
  <2> QED BY <1>1, <1>5, <2>2, <2>3, <2>4, <2>5 DEF StoreFollows
<1> QED BY <1>7, <1>8 DEF StoreInv

\* The only timer that may be set is of the last store, whose records are the answered ones.
LEMMA TimerKeeps ==
    ASSUME StoreInv, NEW i \in 1..Len(stores), Store!Timer(i)
    PROVE  StoreInv'
<1>1. /\ stores[i].timers > 0 /\ file' = stores[i].records
      /\ stores' = [stores EXCEPT ![i].pending = FALSE, ![i].timers = @ - 1]
      /\ UNCHANGED <<running, answered, early>>
  BY DEF Store!Timer, Store!Save
<1>2. PICK s : s = stores[i] /\ s \in StoreRecord
  BY DEF StoreInv, StoreTypes
<1>3. PICK new : new = [[s EXCEPT !.pending = FALSE] EXCEPT !.timers = @ - 1]
  OBVIOUS
<1>4. new \in StoreRecord /\ new.records = s.records /\ new.pending = FALSE /\ new.timers = s.timers - 1
  BY <1>1, <1>2, <1>3 DEF StoreRecord
<1>5. stores \in Seq(StoreRecord) /\ i \in 1..Len(stores) /\ stores # <<>> /\ Len(stores) \in Nat
  BY DEF StoreInv, StoreTypes
<1>6. stores' = [stores EXCEPT ![i] = new]
  BY <1>1, <1>2, <1>3, <1>5
<1>7. /\ stores' \in Seq(StoreRecord) /\ Len(stores') = Len(stores) /\ stores'[i] = new
      /\ \A j \in 1..Len(stores) : j # i => stores'[j] = stores[j]
  BY <1>4, <1>5, <1>6
<1>8. StoreTypes'
  BY <1>1, <1>2, <1>5, <1>7 DEF StoreInv, StoreTypes, StoreRecord
<1>9. ASSUME ~early' PROVE StoreFollows'
  <2>1. StoreFollows
    BY <1>1, <1>9 DEF StoreInv
  <2>2. i = Len(stores)
    BY <1>1, <2>1 DEF StoreFollows
  <2>3. s = Store!Current /\ Store!Current' = new
    BY <1>2, <1>7, <2>2 DEF Store!Current
  <2>4. s.records = answered
    BY <1>1, <1>2, <1>5, <2>1, <2>3 DEF StoreFollows
  <2>5. \A j \in 1..Len(stores') : j # Len(stores') => stores'[j].timers = 0
    BY <1>7, <2>1, <2>2 DEF StoreFollows
  <2> QED BY <1>1, <1>2, <1>4, <2>3, <2>4, <2>5 DEF StoreFollows
<1> QED BY <1>8, <1>9 DEF StoreInv

\* An erased store and its file are both empty.
LEMMA EraseKeeps ==
    ASSUME StoreInv, Store!Erase
    PROVE  StoreInv'
<1> DEFINE last == Len(stores)
<1>1. /\ running
      /\ stores' = [stores EXCEPT ![last] = [records |-> Store!Empty, pending |-> FALSE, timers |-> @.timers]]
      /\ file' = Store!Empty /\ answered' = Store!Empty /\ UNCHANGED <<running, early>>
  BY DEF Store!Erase
<1>2. /\ stores # <<>> /\ stores \in Seq(StoreRecord) /\ last \in 1..last /\ last \in Nat
      /\ Store!Current = stores[last] /\ Store!Current \in StoreRecord
  BY <1>1, InUse DEF StoreInv, StoreTypes
<1>3. PICK new : new = [records |-> Store!Empty, pending |-> FALSE, timers |-> Store!Current.timers]
  OBVIOUS
<1>4. new \in StoreRecord /\ new.records = Store!Empty /\ new.pending = FALSE
  BY <1>2, <1>3, EmptyRecords DEF StoreRecord
<1>5. /\ stores' \in Seq(StoreRecord) /\ Len(stores') = last /\ stores'[last] = new
      /\ \A i \in 1..last : i # last => stores'[i] = stores[i]
  <2>1. stores' = [stores EXCEPT ![last] = new]
    BY <1>1, <1>2, <1>3
  <2> QED BY <1>2, <1>4, <2>1
<1>6. StoreTypes'
  BY <1>1, <1>2, <1>5, EmptyRecords DEF StoreInv, StoreTypes
<1>7. ASSUME ~early' PROVE StoreFollows'
  <2>1. StoreFollows
    BY <1>1, <1>7 DEF StoreInv
  <2>2. Store!Current' = new
    BY <1>5 DEF Store!Current
  <2>3. \A j \in 1..Len(stores') : j # Len(stores') => stores'[j].timers = 0
    BY <1>5, <2>1 DEF StoreFollows
  <2> QED BY <1>1, <1>4, <2>2, <2>3 DEF StoreFollows
<1> QED BY <1>6, <1>7 DEF StoreInv

\* A stopped store keeps its timers.
LEMMA StopKeeps ==
    ASSUME StoreInv, Store!Stop
    PROVE  StoreInv'
<1>1. running' = FALSE /\ UNCHANGED <<file, stores, answered, early>>
  BY DEF Store!Stop
<1>2. (Store!Current' = Store!Current) /\ (Store!Unsaved' <=> Store!Unsaved)
  BY <1>1 DEF Store!Current, Store!Unsaved
<1> QED BY <1>1, <1>2 DEF StoreInv, StoreTypes, StoreFollows

\* The files are cleared when all was saved, or a store was left early.
LEMMA ClearKeeps ==
    ASSUME StoreInv, Store!Clear
    PROVE  StoreInv'
<1>1. /\ ~running /\ file' = Store!Empty /\ answered' = Store!Empty
      /\ early' = (early \/ Store!Unsaved) /\ UNCHANGED <<stores, running>>
  BY DEF Store!Clear
<1>2. StoreTypes'
  BY <1>1, EmptyRecords DEF StoreInv, StoreTypes, Store!Unsaved
<1>3. ASSUME ~early' PROVE StoreFollows'
  <2>1. \A i \in 1..Len(stores) : stores[i].timers = 0
    BY <1>1, <1>3, AllSaved
  <2>2. stores # <<>> => Store!Current.timers = 0 /\ Store!Current' = Store!Current
    BY <1>1, <2>1, InUse DEF StoreInv, Store!Current
  <2>3. stores # <<>> => ~Store!Current.pending
    <3>1. StoreFollows
      BY <1>1, <1>3 DEF StoreInv
    <3> QED BY <2>2, <3>1 DEF StoreFollows
  <2> QED BY <1>1, <2>1, <2>2, <2>3 DEF StoreFollows
<1> QED BY <1>2, <1>3 DEF StoreInv

\* A process ends when all was saved, or a store was left early.
LEMMA EndKeeps ==
    ASSUME StoreInv, Store!End
    PROVE  StoreInv'
<1>1. /\ stores' = <<>> /\ running' = FALSE /\ early' = (early \/ Store!Unsaved) /\ UNCHANGED <<file, answered>>
  BY DEF Store!End
<1>2. StoreTypes'
  <2>1. (stores \in Seq(StoreRecord))'
    BY <1>1
  <2> QED BY <1>1, <2>1 DEF StoreInv, StoreTypes, Store!Unsaved
<1>3. ASSUME ~early' PROVE StoreFollows'
  <2>1. file = answered
    BY <1>1, <1>3, AllSaved
  <2>2. \A i \in 1..Len(stores') : FALSE
    BY <1>1
  <2> QED BY <1>1, <2>1, <2>2 DEF StoreFollows
<1> QED BY <1>2, <1>3 DEF StoreInv

\* Every step of the stores keeps their invariant.
LEMMA StoreKeeps ==
    ASSUME StoreInv, Store!Next \/ UNCHANGED storevars
    PROVE  StoreInv'
<1>1. ASSUME NEW k \in StoreKeys, NEW v \in StoreValues \union {Store!Absent}, running
      PROVE  [Store!Current.records EXCEPT ![k] = v] \in Store!Contents
  <2>1. Store!Current.records \in Store!Contents
    BY <1>1, InUse DEF StoreInv, StoreTypes, StoreRecord
  <2> QED BY <1>1, <2>1 DEF Store!Contents
<1>2. ASSUME NEW k \in StoreKeys, Store!Del(k) PROVE StoreInv'
  <2>1. running /\ Store!Write([Store!Current.records EXCEPT ![k] = Store!Absent], TRUE)
    BY <1>2 DEF Store!Del
  <2>2. [Store!Current.records EXCEPT ![k] = Store!Absent] \in Store!Contents
    BY <1>1, <2>1
  <2> QED BY <2>1, <2>2, WriteKeeps
<1>3. ASSUME NEW k \in StoreKeys, NEW v \in StoreValues, Store!Put(k, v) PROVE StoreInv'
  <2>1. running /\ Store!Write([Store!Current.records EXCEPT ![k] = v], TRUE)
    BY <1>3 DEF Store!Put, Store!Write
  <2>2. [Store!Current.records EXCEPT ![k] = v] \in Store!Contents
    BY <1>1, <2>1
  <2> QED BY <2>1, <2>2, WriteKeeps
<1>4. CASE Store!Next
  BY <1>2, <1>3, <1>4, OpenKeeps, EraseKeeps, StopKeeps, ClearKeeps, EndKeeps, TimerKeeps DEF Store!Next
<1>5. CASE UNCHANGED storevars
  <2>1. UNCHANGED <<file, stores, running, answered, early>>
    BY <1>5 DEF storevars
  <2>2. (Store!Current' = Store!Current) /\ (Store!Unsaved' <=> Store!Unsaved)
    BY <2>1 DEF Store!Current, Store!Unsaved
  <2> QED BY <2>1, <2>2 DEF StoreInv, StoreTypes, StoreFollows
<1> QED BY <1>4, <1>5

\* What the invariant of the stores promises.
LEMMA StoreMeans ==
    ASSUME StoreInv
    PROVE  Store!NothingLost
<1>1. ASSUME ~early, running PROVE Store!Current.records = answered
  BY <1>1 DEF StoreInv, StoreTypes, StoreFollows
<1>2. ASSUME ~early, ~Store!Unsaved PROVE file = answered
  BY <1>2, AllSaved
<1> QED BY <1>1, <1>2 DEF Store!NothingLost

-----------------------------------------------------------------------------
Stages == {"stub", "record", "data", "protos", "categories", "refs", "active", "rejected"}

LoadTypes == /\ \A o \in WebObjects : \A kind : Load!To(o, kind) \subseteq WebObjects
             /\ stage \in [WebObjects -> Stages]
             /\ awaits \in [WebObjects -> SUBSET WebObjects]
             /\ hurt \subseteq WebObjects

\* Only an object in one of the three phases of its load waits, or has been told of a failure.
Waits(o) == stage[o] \in {"protos", "categories", "refs"}
OnlyLoadingWait == \A o \in WebObjects : awaits[o] # {} \/ o \in hurt => Waits(o)

\* Each of the objects S is active or awaited by o, or o knows that one failed.
Known(o, S) == \A p \in S : stage[p] = "active" \/ p \in awaits[o] \/ o \in hurt

\* The phases that an object has begun are answered for.
PhasesOf(o) ==
    /\ stage[o] \in {"protos", "categories", "refs", "active"} => Known(o, Load!To(o, "proto"))
    /\ stage[o] \in {"categories", "refs", "active"} => Known(o, Load!To(o, "category") \ {o})
    /\ stage[o] \in {"refs", "active"} => Known(o, Load!To(o, "autoload"))

LoadInv == LoadTypes /\ OnlyLoadingWait /\ \A o \in WebObjects : PhasesOf(o)

\* An object that is active waits for none, so its links are to active objects.
LEMMA LoadMeans ==
    ASSUME LoadInv
    PROVE  Load!ActiveIsComplete
<1>1. ASSUME NEW o \in WebObjects, stage[o] = "active", NEW p \in Load!Needs(o)
      PROVE  stage[p] = "active"
  <2>1. awaits[o] = {} /\ o \notin hurt
    BY <1>1 DEF LoadInv, OnlyLoadingWait, Waits
  <2>2. Known(o, Load!To(o, "proto")) /\ Known(o, Load!To(o, "category") \ {o}) /\ Known(o, Load!To(o, "autoload"))
    BY <1>1 DEF LoadInv, PhasesOf
  <2> QED BY <1>1, <2>1, <2>2 DEF Known, Load!Needs
<1> QED BY <1>1 DEF Load!ActiveIsComplete

\* What is known to an object stays so when no object that is active ceases to be, and those
\* it no longer awaits became active or it is told of them.
LEMMA StillKnown ==
    ASSUME LoadInv, NEW o \in WebObjects, UNCHANGED links,
           \A p \in WebObjects : stage[p] = "active" => stage'[p] = "active",
           \A p \in WebObjects : p \in awaits[o] => stage'[p] = "active" \/ p \in awaits'[o] \/ o \in hurt',
           o \in hurt => o \in hurt'
    PROVE  /\ \A S \in SUBSET WebObjects : Known(o, S) => Known(o, S)'
           /\ stage'[o] = stage[o] => PhasesOf(o)'
<1>1. \A S \in SUBSET WebObjects : Known(o, S) => Known(o, S)'
  BY DEF Known
<1>2. \A kind : Load!To(o, kind)' = Load!To(o, kind)
  BY DEF Load!To
<1>3. \A kind : Load!To(o, kind) \in SUBSET WebObjects /\ Load!To(o, kind) \ {o} \in SUBSET WebObjects
  BY DEF LoadInv, LoadTypes
<1>4. ASSUME stage'[o] = stage[o] PROVE PhasesOf(o)'
  BY <1>1, <1>2, <1>3, <1>4 DEF LoadInv, PhasesOf, Known
<1> QED BY <1>1, <1>4

\* Links that do not change lead to objects.
LEMMA LinksStay ==
    ASSUME LoadTypes, UNCHANGED links
    PROVE  \A o \in WebObjects : \A kind : Load!To(o, kind)' \subseteq WebObjects
BY DEF LoadTypes, Load!To

\* load() of some objects starts those that are stubs, and no others.
LEMMA LoadStarts ==
    ASSUME NEW S, NEW st \in [WebObjects -> Stages]
    PROVE  /\ Load!Load(S, st) \in [WebObjects -> Stages]
           /\ \A o \in WebObjects : \/ Load!Load(S, st)[o] = st[o]
                                    \/ st[o] = "stub" /\ Load!Load(S, st)[o] \in {"record", "data", "rejected"}
<1>1. \A o : Load!Started(o) \in {"record", "data", "rejected"}
  BY DEF Load!Started
<1>2. Load!Load(S, st) = [o \in WebObjects |-> IF o \in S /\ st[o] = "stub" THEN Load!Started(o) ELSE st[o]]
  BY DEF Load!Load
<1>3. \A o \in WebObjects : \/ Load!Load(S, st)[o] = st[o]
                            \/ st[o] = "stub" /\ Load!Load(S, st)[o] \in {"record", "data", "rejected"}
  BY <1>1, <1>2
<1> QED BY <1>2, <1>3 DEF Stages

\* An object that only begins to load has no phase to answer for.
LEMMA NoPhase ==
    ASSUME NEW o, stage'[o] \notin {"protos", "categories", "refs", "active"}
    PROVE  PhasesOf(o)'
BY DEF PhasesOf

\* A call of load() starts an object that is a stub.
LEMMA CallKeeps ==
    ASSUME LoadInv, NEW o \in WebObjects, Load!Call(o)
    PROVE  LoadInv'
<1>1. stage' = Load!Load({o}, stage) /\ UNCHANGED <<links, awaits, hurt>>
  BY DEF Load!Call
<1>2. /\ stage' \in [WebObjects -> Stages]
      /\ \A p \in WebObjects : \/ stage'[p] = stage[p]
                               \/ stage[p] = "stub" /\ stage'[p] \in {"record", "data", "rejected"}
  BY <1>1, LoadStarts DEF LoadInv, LoadTypes
<1>3. LoadTypes'
  BY <1>1, <1>2, LinksStay DEF LoadInv, LoadTypes
<1>4. OnlyLoadingWait'
  BY <1>1, <1>2 DEF LoadInv, OnlyLoadingWait, Waits
<1>5. ASSUME NEW p \in WebObjects PROVE PhasesOf(p)'
  <2>1. CASE stage'[p] = stage[p]
    BY <1>1, <1>2, <2>1, StillKnown
  <2>2. CASE stage'[p] # stage[p]
    BY <1>2, <2>2, NoPhase
  <2> QED BY <2>1, <2>2
<1> QED BY <1>3, <1>4, <1>5 DEF LoadInv

\* An object that awaits others knows of them, and of those it knew of before.
LEMMA AwaitKeeps ==
    ASSUME LoadInv, NEW o \in WebObjects, stage[o] \in {"data", "protos", "categories"},
           NEW next \in {"protos", "categories", "refs"}, NEW S \in SUBSET WebObjects,
           Load!Await(o, next, S)
    PROVE  /\ LoadTypes' /\ OnlyLoadingWait' /\ stage'[o] = next /\ UNCHANGED links
           /\ \A p \in WebObjects : p # o => PhasesOf(p)'
           /\ \A T \in SUBSET WebObjects : T = S \/ Known(o, T) => Known(o, T)'
<1> DEFINE missing == {p \in S : ~Load!IsLoaded(p)}
           st == [stage EXCEPT ![o] = next]
<1>1. /\ awaits[o] = {} /\ o \notin hurt
      /\ stage' = Load!Load(missing, st) /\ awaits' = [awaits EXCEPT ![o] = missing]
      /\ hurt \subseteq hurt' /\ hurt' \subseteq hurt \union {o} /\ UNCHANGED links
  BY DEF Load!Await
<1>2. missing \in SUBSET WebObjects /\ \A p \in S : p \in missing \/ stage[p] = "active"
  BY DEF Load!IsLoaded
<1>3. /\ st \in [WebObjects -> Stages] /\ st[o] = next
      /\ \A p \in WebObjects : p # o => st[p] = stage[p]
  BY DEF LoadInv, LoadTypes, Stages
<1> HIDE DEF missing, st
<1>4. /\ stage' \in [WebObjects -> Stages] /\ stage'[o] = next
      /\ \A p \in WebObjects : p # o => \/ stage'[p] = stage[p]
                                        \/ stage[p] = "stub" /\ stage'[p] \in {"record", "data", "rejected"}
      /\ \A p \in WebObjects : stage[p] = "active" => stage'[p] = "active"
  <2>1. /\ stage' \in [WebObjects -> Stages]
        /\ \A p \in WebObjects : \/ stage'[p] = st[p]
                                 \/ st[p] = "stub" /\ stage'[p] \in {"record", "data", "rejected"}
    BY <1>1, <1>3, LoadStarts
  <2> QED BY <1>3, <2>1
<1>5. /\ awaits' \in [WebObjects -> SUBSET WebObjects] /\ awaits'[o] = missing
      /\ \A p \in WebObjects : p # o => awaits'[p] = awaits[p]
  BY <1>1, <1>2 DEF LoadInv, LoadTypes
<1>6. LoadTypes'
  <2>1. hurt' \subseteq WebObjects
    BY <1>1 DEF LoadInv, LoadTypes
  <2> QED BY <1>1, <1>4, <1>5, <2>1, LinksStay DEF LoadInv, LoadTypes
<1>7. OnlyLoadingWait'
  BY <1>1, <1>4, <1>5 DEF LoadInv, OnlyLoadingWait, Waits
<1>8. ASSUME NEW p \in WebObjects, p # o PROVE PhasesOf(p)'
  <2>1. CASE stage'[p] = stage[p]
    BY <1>1, <1>4, <1>5, <1>8, <2>1, StillKnown
  <2>2. CASE stage'[p] # stage[p]
    BY <1>4, <1>8, <2>2, NoPhase
  <2> QED BY <2>1, <2>2
<1>9. ASSUME NEW T \in SUBSET WebObjects, T = S \/ Known(o, T) PROVE Known(o, T)'
  <2>1. ASSUME NEW p \in T PROVE stage'[p] = "active" \/ p \in awaits'[o]
    <3>1. p \in missing \/ stage[p] = "active"
      BY <1>1, <1>2, <1>9 DEF Known
    <3> QED BY <1>4, <1>5, <3>1
  <2> QED BY <2>1 DEF Known
<1> QED BY <1>1, <1>4, <1>6, <1>7, <1>8, <1>9

\* Prototypes are awaited first.
LEMMA PrototypesKeep ==
    ASSUME LoadInv, NEW o \in WebObjects, Load!LoadPrototypes(o)
    PROVE  LoadInv'
<1>1. stage[o] = "data" /\ Load!Await(o, "protos", Load!To(o, "proto"))
  BY DEF Load!LoadPrototypes
<1>2. PICK S \in SUBSET WebObjects : S = Load!To(o, "proto")
  BY DEF LoadInv, LoadTypes
<1>3. /\ LoadTypes' /\ OnlyLoadingWait' /\ stage'[o] = "protos" /\ UNCHANGED links
      /\ \A p \in WebObjects : p # o => PhasesOf(p)'
      /\ Known(o, S)'
  BY <1>1, <1>2, AwaitKeeps
<1>4. Load!To(o, "proto")' = S
  BY <1>2, <1>3 DEF Load!To
<1>5. PhasesOf(o)'
  BY <1>3, <1>4 DEF PhasesOf, Known
<1> QED BY <1>3, <1>5 DEF LoadInv

\* Categories are awaited once the prototypes are active.
LEMMA CategoriesKeep ==
    ASSUME LoadInv, NEW o \in WebObjects, Load!LoadCategories(o)
    PROVE  LoadInv'
<1>1. stage[o] = "protos" /\ Load!Await(o, "categories", Load!To(o, "category") \ {o})
  BY DEF Load!LoadCategories
<1>2. PICK S \in SUBSET WebObjects : S = Load!To(o, "proto")
  BY DEF LoadInv, LoadTypes
<1>3. PICK T \in SUBSET WebObjects : T = Load!To(o, "category") \ {o}
  BY DEF LoadInv, LoadTypes
<1>4. Known(o, S)
  BY <1>1, <1>2 DEF LoadInv, PhasesOf
<1>5. /\ LoadTypes' /\ OnlyLoadingWait' /\ stage'[o] = "categories" /\ UNCHANGED links
      /\ \A p \in WebObjects : p # o => PhasesOf(p)'
      /\ Known(o, S)' /\ Known(o, T)'
  BY <1>1, <1>3, <1>4, AwaitKeeps
<1>6. Load!To(o, "proto")' = S /\ (Load!To(o, "category") \ {o})' = T
  BY <1>2, <1>3, <1>5 DEF Load!To
<1>7. PhasesOf(o)'
  BY <1>5, <1>6 DEF PhasesOf, Known
<1> QED BY <1>5, <1>7 DEF LoadInv

\* References are awaited once prototypes and categories are active.
LEMMA ReferencesKeep ==
    ASSUME LoadInv, NEW o \in WebObjects, Load!LoadReferences(o)
    PROVE  LoadInv'
<1>1. stage[o] = "categories" /\ Load!Await(o, "refs", Load!To(o, "autoload"))
  BY DEF Load!LoadReferences
<1>2. PICK S \in SUBSET WebObjects : S = Load!To(o, "proto")
  BY DEF LoadInv, LoadTypes
<1>3. PICK T \in SUBSET WebObjects : T = Load!To(o, "category") \ {o}
  BY DEF LoadInv, LoadTypes
<1>4. PICK U \in SUBSET WebObjects : U = Load!To(o, "autoload")
  BY DEF LoadInv, LoadTypes
<1>5. Known(o, S) /\ Known(o, T)
  BY <1>1, <1>2, <1>3 DEF LoadInv, PhasesOf
<1>6. /\ LoadTypes' /\ OnlyLoadingWait' /\ stage'[o] = "refs" /\ UNCHANGED links
      /\ \A p \in WebObjects : p # o => PhasesOf(p)'
      /\ Known(o, S)' /\ Known(o, T)' /\ Known(o, U)'
  BY <1>1, <1>4, <1>5, AwaitKeeps
<1>7. Load!To(o, "proto")' = S /\ (Load!To(o, "category") \ {o})' = T /\ Load!To(o, "autoload")' = U
  BY <1>2, <1>3, <1>4, <1>6 DEF Load!To
<1>8. PhasesOf(o)'
  BY <1>6, <1>7 DEF PhasesOf, Known
<1> QED BY <1>6, <1>8 DEF LoadInv

\* An object becomes active once all that it awaited are.
LEMMA ActivateKeeps ==
    ASSUME LoadInv, NEW o \in WebObjects, Load!Activate(o)
    PROVE  LoadInv'
<1>1. /\ stage[o] = "refs" /\ awaits[o] = {} /\ o \notin hurt
      /\ stage' = [stage EXCEPT ![o] = "active"]
      /\ awaits' = [p \in WebObjects |-> awaits[p] \ {o}]
      /\ UNCHANGED <<links, hurt>>
  BY DEF Load!Activate
<1>2. /\ stage' \in [WebObjects -> Stages] /\ stage'[o] = "active"
      /\ \A p \in WebObjects : p # o => stage'[p] = stage[p]
      /\ awaits' \in [WebObjects -> SUBSET WebObjects]
      /\ \A p, q \in WebObjects : p \in awaits[q] => p = o \/ p \in awaits'[q]
  BY <1>1 DEF LoadInv, LoadTypes, Stages
<1>3. LoadTypes'
  BY <1>1, <1>2, LinksStay DEF LoadInv, LoadTypes
<1>4. OnlyLoadingWait'
  BY <1>1, <1>2 DEF LoadInv, LoadTypes, OnlyLoadingWait, Waits
<1>5. ASSUME NEW p \in WebObjects, p # o PROVE PhasesOf(p)'
  BY <1>1, <1>2, <1>5, StillKnown
<1>6. PhasesOf(o)'
  <2>1. \A kind : Load!To(o, kind)' = Load!To(o, kind) /\ Load!To(o, kind) \in SUBSET WebObjects
    BY <1>1 DEF Load!To, LoadInv, LoadTypes
  <2>2. Known(o, Load!To(o, "proto")) /\ Known(o, Load!To(o, "category") \ {o}) /\ Known(o, Load!To(o, "autoload"))
    BY <1>1 DEF LoadInv, PhasesOf
  <2>3. \A p \in WebObjects : stage[p] = "active" => stage'[p] = "active"
    BY <1>2
  <2> QED BY <1>1, <2>1, <2>2, <2>3 DEF PhasesOf, Known
<1> QED BY <1>3, <1>4, <1>5, <1>6 DEF LoadInv

\* A load that fails tells all who wait for it.
LEMMA RejectKeeps ==
    ASSUME LoadInv, NEW o \in WebObjects, stage[o] # "active", Load!Reject(o)
    PROVE  LoadInv'
<1>1. /\ stage' = [stage EXCEPT ![o] = "stub"]
      /\ awaits' = [p \in WebObjects |-> IF p = o THEN {} ELSE awaits[p] \ {o}]
      /\ hurt' = (hurt \ {o}) \union ({p \in WebObjects : o \in awaits[p]} \ {o})
      /\ UNCHANGED links
  BY DEF Load!Reject, Load!Waiting
<1>2. /\ stage' \in [WebObjects -> Stages] /\ stage'[o] = "stub"
      /\ \A p \in WebObjects : p # o => stage'[p] = stage[p]
  BY <1>1 DEF LoadInv, LoadTypes, Stages
<1>3. /\ awaits' \in [WebObjects -> SUBSET WebObjects] /\ awaits'[o] = {}
      /\ \A p \in WebObjects : p # o => awaits'[p] = awaits[p] \ {o}
  BY <1>1 DEF LoadInv, LoadTypes
<1>4. LoadTypes'
  BY <1>1, <1>2, <1>3, LinksStay DEF LoadInv, LoadTypes
<1>5. OnlyLoadingWait'
  <2>1. ASSUME NEW p \in WebObjects, awaits'[p] # {} \/ p \in hurt' PROVE stage'[p] \in {"protos", "categories", "refs"}
    <3>1. p # o /\ (awaits[p] # {} \/ p \in hurt)
      BY <1>1, <1>3, <2>1
    <3> QED BY <1>2, <3>1 DEF LoadInv, OnlyLoadingWait, Waits
  <2> QED BY <2>1 DEF OnlyLoadingWait, Waits
<1>6. ASSUME NEW p \in WebObjects PROVE PhasesOf(p)'
  <2>1. CASE p = o
    BY <1>2, <2>1, NoPhase
  <2>2. CASE p # o
    <3>1. \A q \in WebObjects : q \in awaits[p] => q \in awaits'[p] \/ p \in hurt'
      BY <1>1, <1>3, <2>2
    <3> QED BY <1>1, <1>2, <2>2, <3>1, StillKnown
  <2> QED BY <2>1, <2>2
<1> QED BY <1>4, <1>5, <1>6 DEF LoadInv

\* What changes the stage of an object that waits for none, before or besides its load.
LEMMA StageKeeps ==
    ASSUME LoadInv, NEW o \in WebObjects, stage[o] \in {"record", "rejected"},
           NEW next \in {"stub", "data"}, stage' = [stage EXCEPT ![o] = next], UNCHANGED <<links, awaits, hurt>>
    PROVE  LoadInv'
<1>1. /\ stage' \in [WebObjects -> Stages] /\ stage'[o] = next
      /\ \A p \in WebObjects : p # o => stage'[p] = stage[p]
  BY DEF LoadInv, LoadTypes, Stages
<1>2. LoadTypes'
  BY <1>1, LinksStay DEF LoadInv, LoadTypes
<1>3. OnlyLoadingWait'
  BY <1>1 DEF LoadInv, OnlyLoadingWait, Waits
<1>4. ASSUME NEW p \in WebObjects PROVE PhasesOf(p)'
  <2>1. CASE p = o
    BY <1>1, <2>1, NoPhase
  <2>2. CASE p # o
    BY <1>1, <2>2, StillKnown
  <2> QED BY <2>1, <2>2
<1> QED BY <1>2, <1>3, <1>4 DEF LoadInv

\* Steps that leave loads alone.
LEMMA SameLoads ==
    ASSUME LoadInv, UNCHANGED <<links, stage, awaits, hurt>>
    PROVE  LoadInv'
BY DEF LoadInv, LoadTypes, OnlyLoadingWait, Waits, PhasesOf, Known, Load!To

\* Every step of loading keeps its invariant.
LEMMA LoadKeeps ==
    ASSUME LoadInv, Load!Next \/ UNCHANGED loadvars
    PROVE  LoadInv'
<1>1. ASSUME NEW o \in WebObjects, Load!Receive(o) PROVE LoadInv'
  <2>1. stage[o] = "record"
    BY <1>1 DEF Load!Receive
  <2>2. CASE o \in corrupt
    BY <1>1, <2>1, <2>2, RejectKeeps DEF Load!Receive
  <2>3. CASE o \notin corrupt
    <3>1. stage' = [stage EXCEPT ![o] = "data"] /\ UNCHANGED <<links, awaits, hurt>>
      BY <1>1, <2>3 DEF Load!Receive
    <3> QED BY <2>1, <3>1, StageKeeps
  <2> QED BY <2>2, <2>3
<1>2. ASSUME NEW o \in WebObjects, Load!Fail(o) PROVE LoadInv'
  <2>1. stage[o] # "active" /\ Load!Reject(o)
    BY <1>2 DEF Load!Fail, LoadInv, OnlyLoadingWait, Waits
  <2> QED BY <2>1, RejectKeeps
<1>3. ASSUME NEW o \in WebObjects, Load!Error(o) PROVE LoadInv'
  BY <1>3, RejectKeeps DEF Load!Error
<1>4. ASSUME NEW o \in WebObjects, Load!Correct(o) PROVE LoadInv'
  BY <1>4, SameLoads DEF Load!Correct
<1>5. ASSUME NEW o \in WebObjects, Load!Purge(o) PROVE LoadInv'
  BY <1>5, StageKeeps DEF Load!Purge
<1>6. CASE Load!Next
  <2>1. PICK o \in WebObjects : Load!Call(o) \/ Load!Proceed(o) \/ Load!Error(o) \/ Load!Correct(o) \/ Load!Purge(o)
    BY <1>6 DEF Load!Next
  <2> QED BY <1>1, <1>2, <1>3, <1>4, <1>5, <2>1, CallKeeps, PrototypesKeep, CategoriesKeep, ReferencesKeep,
             ActivateKeeps DEF Load!Proceed
<1>7. CASE UNCHANGED loadvars
  BY <1>7, SameLoads DEF loadvars
<1> QED BY <1>6, <1>7

\* The sets of links of the model are sets of links.
LEMMA LinksOfObjects ==
    ASSUME NEW s \in SomeLinks
    PROVE  s \subseteq Link
<1>1. Between \subseteq Link
  BY DEF Between
<1>2. \/ \E l, m \in Between : s = {l, m}
      \/ \E l \in Link : s = {l}
      \/ \E l, m, n \in Between : s = {l, m, n}
  BY DEF SomeLinks
<1> QED BY <1>1, <1>2

\* No object is loaded.
LEMMA InitLoad ==
    ASSUME Load!Init
    PROVE  LoadInv
<1>1. /\ links \subseteq Link /\ stage = [o \in WebObjects |-> "stub"]
      /\ awaits = [o \in WebObjects |-> {}] /\ hurt = {}
  BY LinksOfObjects DEF Load!Init
<1>2. \A l \in Link : l.to \in WebObjects
  BY DEF Link
<1>3. \A o \in WebObjects : \A kind : Load!To(o, kind) \subseteq WebObjects
  BY <1>1, <1>2 DEF Load!To
<1>4. LoadTypes
  BY <1>1, <1>3 DEF LoadTypes, Stages
<1>5. OnlyLoadingWait
  BY <1>1 DEF OnlyLoadingWait
<1>6. \A o \in WebObjects : PhasesOf(o)
  BY <1>1 DEF PhasesOf
<1> QED BY <1>4, <1>5, <1>6 DEF LoadInv

\* Records and updates of them.
Seals(o) == {None} \cup [DOMAIN Deps[o] -> Nat \ {0}]
Recs == [content : Nat, ver : Nat, prev : Nat, seal : UNION {Seals(o) : o \in Versioned}]
Jobs == [record : Recs, held : BOOLEAN]
Busy(o) == update[o] # Vers!NoJob
Upright(o) == Busy(o) /\ ~update[o].held

VersTypes ==
    /\ record \in [Versioned -> Recs] /\ scanned \in [Versioned -> Recs] /\ copies \in [Processes -> [Versioned -> Recs]]
    /\ revisions \in Seq(Recs) /\ updates \in Nat /\ set \in Settings
    /\ DOMAIN update = Versioned /\ DOMAIN kept = Versioned
    /\ \A o \in Versioned : /\ record[o].seal \in Seals(o)
                            /\ Busy(o) => update[o] \in Jobs /\ update[o].record.seal \in Seals(o)

\* Revisions are of records that were there before.
Backward ==
    /\ \A i \in DOMAIN revisions : revisions[i].prev < i
    /\ \A o \in Versioned : /\ record[o].prev <= Len(revisions) /\ scanned[o].prev <= Len(revisions)
                            /\ \A p \in Processes : copies[p][o].prev <= Len(revisions)
                            /\ Busy(o) => update[o].record.prev <= Len(revisions)

\* k are the records that were saved, by version.
Told(k, n) == DOMAIN k = 1 .. n /\ \A v \in 1 .. n : k[v] \in Recs /\ k[v].ver = v
Was(k, n, r) == r.ver \in 1 .. n /\ r = k[r.ver]
Points(revs, r, s) == r.prev \in DOMAIN revs /\ revs[r.prev] = s
Chained(k, n, revs) == \A v \in 2 .. n : Points(revs, k[v], k[v - 1])

\* Only objects with numbers have versions. These go on with each record, which is the same for all that have its version;
\* and those that are archived lead back from each version to the one before.
Unnumbered(o) ==
    o \notin set.numbered => /\ record[o].ver = 0 /\ scanned[o].ver = 0 /\ \A p \in Processes : copies[p][o].ver = 0
                             /\ Busy(o) => update[o].record.ver = 0
Account(o) ==
    o \in set.numbered \ overwritten =>
        /\ Told(kept[o], record[o].ver) /\ Was(kept[o], record[o].ver, record[o]) /\ Was(kept[o], record[o].ver, scanned[o])
        /\ \A p \in Processes : Was(kept[o], record[o].ver, copies[p][o])
        /\ Upright(o) => update[o].record.ver = record[o].ver + 1
Trail(o) ==
    o \in (set.numbered \cap set.archived) \ overwritten =>
        /\ Chained(kept[o], record[o].ver, revisions)
        /\ Upright(o) => Points(revisions, update[o].record, record[o])
VersInv == /\ VersTypes /\ Backward /\ blind \subseteq overwritten
           /\ \A o \in Versioned : Unnumbered(o) /\ Account(o) /\ Trail(o)

\* A version that is not there is no record.
LEMMA NoSuch == /\ Vers!NoSuchVersion \notin Recs
                /\ \A r \in Recs : r.ver \in Nat /\ r.prev \in Nat /\ r.content \in Nat
BY DEF Vers!NoSuchVersion, Recs

\* What the constants are.
LEMMA VersConstants == /\ Home \in Processes /\ Deps \in [Versioned -> Seq(Versioned)]
                      /\ \A s \in Settings : s.numbered \subseteq Versioned
BY DataAssumption DEF Vers!RevisionsAssumption

-----------------------------------------------------------------------------
\* A function that goes back along __prev to version v.
From(s, f, v) == IF s.ver > v THEN f[s.prev] ELSE IF s.ver = v THEN s ELSE Vers!NoSuchVersion
Solves(f, n, v) == f = [i \in 0 .. n |-> IF i = 0 THEN Vers!NoSuchVersion ELSE From(revisions[i], f, v)]
\* The definition of get_version() has a solution.
LEMMA BackExists ==
    ASSUME VersTypes, Backward, NEW v
    PROVE  \E f : Solves(f, Len(revisions), v)
<1>1. Len(revisions) \in Nat /\ DOMAIN revisions = 1 .. Len(revisions) /\ \A i \in 1 .. Len(revisions) : revisions[i] \in Recs
  BY DEF VersTypes
<1> DEFINE N == Len(revisions)
           Unsolved == {n \in 0 .. N : ~\E f : Solves(f, n, v)}
<1>2. Unsolved = {}
  <2> SUFFICES ASSUME Unsolved # {} PROVE FALSE
    OBVIOUS
  <2>1. Unsolved \subseteq Nat
    BY <1>1
  <2>2. PICK m \in Unsolved : \A n \in Unsolved : m <= n
    BY <2>1, LeastElement
  <2>3. m \in Nat /\ m \in 0 .. N /\ ~\E f : Solves(f, m, v)
    BY <2>1, <2>2
  <2>4. CASE m = 0
    <3> DEFINE g == [i \in 0 .. 0 |-> Vers!NoSuchVersion]
    <3>1. Solves(g, 0, v)
      BY DEF Solves
    <3> QED BY <3>1, <2>3, <2>4
  <2>5. CASE m # 0
    <3>1. m - 1 \in 0 .. N /\ m - 1 \notin Unsolved
      BY <2>2, <2>3, <2>5, <1>1
    <3>2. PICK f : Solves(f, m - 1, v)
      BY <3>1
    <3> DEFINE g == [i \in 0 .. m |-> IF i = m THEN From(revisions[m], f, v) ELSE f[i]]
    <3>3. ASSUME NEW i \in 1 .. m PROVE revisions[i].prev \in 0 .. m - 1 /\ revisions[i].prev < i
      BY <1>1, <2>3, NoSuch DEF Backward
    <3>4. ASSUME NEW i \in 0 .. m PROVE g[i] = IF i = 0 THEN Vers!NoSuchVersion ELSE From(revisions[i], g, v)
      <4>1. CASE i = 0
        BY <4>1, <3>2, <2>3, <2>5 DEF Solves
      <4>2. CASE i # 0
        <5>1. revisions[i].prev \in 0 .. m - 1 /\ i \in 1 .. m
          BY <4>2, <3>3
        <5>2. g[revisions[i].prev] = f[revisions[i].prev]
          BY <5>1, <2>3
        <5>3. From(revisions[i], g, v) = From(revisions[i], f, v)
          BY <5>2 DEF From
        <5>4. CASE i = m
          BY <5>3, <5>4, <4>2
        <5>5. CASE i # m
          <6>1. i \in 0 .. m - 1
            BY <5>5, <2>3
          <6>2. f[i] = From(revisions[i], f, v)
            BY <6>1, <4>2, <3>2 DEF Solves
          <6> QED BY <6>2, <5>3, <5>5, <4>2
        <5> QED BY <5>4, <5>5
      <4> QED BY <4>1, <4>2
    <3>5. Solves(g, m, v)
      BY <3>4 DEF Solves
    <3> QED BY <3>5, <2>3
  <2> QED BY <2>4, <2>5
<1> QED BY <1>1, <1>2

\* get_version() goes back by such a function.
LEMMA GetVersionIs ==
    ASSUME VersTypes, Backward, NEW v
    PROVE  \E f : /\ Solves(f, Len(revisions), v)
                  /\ \A r : Vers!GetVersion(r, v) = From(r, f, v)
<1> DEFINE f == CHOOSE f : Solves(f, Len(revisions), v)
<1>1. Solves(f, Len(revisions), v)
  BY BackExists
<1>2. \A r : Vers!GetVersion(r, v) = From(r, f, v)
  BY DEF Vers!GetVersion, Vers!Restore, From, Solves, Vers!NoSuchVersion
<1> QED BY <1>1, <1>2

\* What get_version() returns is a record of that version, if anything.
LEMMA VersionOf ==
    ASSUME VersTypes, Backward, NEW v \in Nat, NEW r \in Recs, r.prev <= Len(revisions)
    PROVE  Vers!GetVersion(r, v) = Vers!NoSuchVersion \/ (Vers!GetVersion(r, v) \in Recs /\ Vers!GetVersion(r, v).ver = v)
<1> DEFINE N == Len(revisions)
           Is(x) == x = Vers!NoSuchVersion \/ (x \in Recs /\ x.ver = v)
<1>1. N \in Nat /\ DOMAIN revisions = 1 .. N /\ \A i \in 1 .. N : revisions[i] \in Recs
  BY DEF VersTypes
<1>2. PICK f : Solves(f, N, v) /\ Vers!GetVersion(r, v) = From(r, f, v)
  BY GetVersionIs
<1> DEFINE Odd == {i \in 0 .. N : ~Is(f[i])}
<1>3. Odd = {}
  <2> SUFFICES ASSUME Odd # {} PROVE FALSE
    OBVIOUS
  <2>0. Odd \subseteq Nat
    BY <1>1
  <2>1. PICK m \in Odd : \A n \in Odd : m <= n
    BY <2>0, LeastElement
  <2>2. f[m] = IF m = 0 THEN Vers!NoSuchVersion ELSE From(revisions[m], f, v)
    BY <1>2 DEF Solves
  <2>3. m \in 1 .. N /\ m # 0
    BY <2>1, <2>2, <1>1
  <2>4. revisions[m] \in Recs /\ revisions[m].prev \in Nat /\ revisions[m].prev < m
    BY <2>3, <1>1, NoSuch DEF Backward
  <2>5. revisions[m].prev \in 0 .. N /\ revisions[m].prev \notin Odd
    BY <2>1, <2>3, <2>4, <1>1
  <2>6. Is(From(revisions[m], f, v))
    BY <2>4, <2>5 DEF From
  <2> QED BY <2>1, <2>2, <2>3, <2>6
<1>4. r.prev \in 0 .. N
  BY <1>1, NoSuch
<1>5. Is(f[r.prev])
  BY <1>3, <1>4
<1>6. Is(From(r, f, v))
  BY <1>5 DEF From
<1> QED BY <1>2, <1>6

\* Each version is there, by way of the revisions.
LEMMA ReadsBack ==
    ASSUME VersTypes, Backward, NEW k, NEW n \in Nat, Told(k, n), Chained(k, n, revisions), NEW r, Was(k, n, r), NEW v \in 1 .. r.ver
    PROVE  Vers!GetVersion(r, v) = k[v]
<1>1. r.ver \in 1 .. n /\ r = k[r.ver] /\ v \in 1 .. n
  BY DEF Was
<1>2. Len(revisions) \in Nat /\ DOMAIN revisions = 1 .. Len(revisions)
  BY DEF VersTypes
<1>3. PICK f : Solves(f, Len(revisions), v) /\ \A s : Vers!GetVersion(s, v) = From(s, f, v)
  BY GetVersionIs
<1> DEFINE Odd == {w \in v .. n : From(k[w], f, v) # k[v]}
<1>4. Odd = {}
  <2> SUFFICES ASSUME Odd # {} PROVE FALSE
    OBVIOUS
  <2>0. Odd \subseteq Nat
    BY <1>1
  <2>1. PICK m \in Odd : \A w \in Odd : m <= w
    BY <2>0, LeastElement
  <2>2. k[m].ver = m /\ m \in 1 .. n /\ m >= v
    BY <2>1, <1>1 DEF Told
  <2>3. m # v
    BY <2>1, <2>2 DEF From
  <2>4. m \in 2 .. n /\ m - 1 \in v .. n /\ m - 1 \notin Odd /\ m > v
    BY <2>1, <2>2, <2>3, <1>1
  <2>5. k[m].prev \in 1 .. Len(revisions) /\ revisions[k[m].prev] = k[m - 1]
    BY <2>4, <1>2 DEF Chained, Points
  <2>6. From(k[m], f, v) = f[k[m].prev]
    BY <2>2, <2>4 DEF From
  <2>7. f[k[m].prev] = From(k[m - 1], f, v)
    BY <2>5, <1>2, <1>3 DEF Solves
  <2> QED BY <2>1, <2>4, <2>6, <2>7
<1>5. r.ver \in v .. n
  BY <1>1
<1> QED BY <1>1, <1>3, <1>4, <1>5

-----------------------------------------------------------------------------
\* The invariant holds at the start.
LEMMA VersStart == DataAssumption /\ Vers!Init => VersInv
<1> SUFFICES ASSUME DataAssumption, Vers!Init PROVE VersInv
  OBVIOUS
<1>1. ASSUME NEW o \in Versioned
      PROVE  /\ Vers!Newborn(o) \in Recs /\ Vers!Newborn(o).seal \in Seals(o) /\ Vers!Newborn(o).prev = 0
             /\ Vers!Newborn(o).ver = IF o \in set.numbered THEN 1 ELSE 0
  <2>1. Vers!Newborn(o).seal \in Seals(o)
    BY DEF Vers!Newborn, Seals
  <2> QED BY <2>1 DEF Vers!Newborn, Recs
<1>2. /\ record = [o \in Versioned |-> Vers!Newborn(o)] /\ scanned = record /\ copies = [p \in Processes |-> record]
      /\ revisions = << >> /\ updates = 0 /\ set \in Settings /\ update = [o \in Versioned |-> Vers!NoJob] /\ blind = {} /\ overwritten = {}
      /\ kept = [o \in Versioned |-> [v \in {record[o].ver} |-> record[o]]]
  BY DEF Vers!Init
<1>3. \A o \in Versioned : ~Busy(o)
  BY <1>2 DEF Busy
<1>4. VersTypes
  BY <1>1, <1>2, <1>3 DEF VersTypes
<1>5. Backward
  BY <1>1, <1>2, <1>3 DEF Backward
<1>6. ASSUME NEW o \in Versioned PROVE Unnumbered(o) /\ Account(o) /\ Trail(o)
  <2>1. Unnumbered(o)
    BY <1>1, <1>2, <1>3 DEF Unnumbered
  <2>2. Account(o)
    BY <1>1, <1>2, <1>3 DEF Account, Told, Was, Upright
  <2>3. Trail(o)
    BY <1>1, <1>2, <1>3 DEF Trail, Chained, Upright
  <2> QED BY <2>1, <2>2, <2>3
<1> QED BY <1>2, <1>4, <1>5, <1>6 DEF VersInv

\* A copy is loaded: it is the record that was written last.
LEMMA VersLoad ==
    ASSUME VersInv, NEW p \in Processes, NEW o \in Versioned, Vers!Load(p, o) PROVE VersInv'
<1>1. /\ copies' = [copies EXCEPT ![p] = [copies[p] EXCEPT ![o] = record[o]]]
      /\ UNCHANGED <<set, record, revisions, scanned, update, updates, kept, blind, overwritten>>
  BY DEF Vers!Load
<1>2. \A q \in Processes, d \in Versioned : copies'[q][d] = copies[q][d] \/ copies'[q][d] = record[d]
  BY <1>1 DEF VersInv, VersTypes
<1>3. copies' \in [Processes -> [Versioned -> Recs]]
  BY <1>1 DEF VersInv, VersTypes
<1>4. \A d \in Versioned : Busy(d)' = Busy(d) /\ Upright(d)' = Upright(d)
  BY <1>1 DEF Busy, Upright
<1>5. VersTypes'
  BY <1>1, <1>3, <1>4 DEF VersInv, VersTypes
<1>6. Backward'
  BY <1>1, <1>2, <1>4 DEF VersInv, Backward
<1>7. ASSUME NEW d \in Versioned PROVE Unnumbered(d)' /\ Account(d)' /\ Trail(d)'
  <2>0. Unnumbered(d) /\ Account(d) /\ Trail(d)
    BY DEF VersInv
  <2>1. Unnumbered(d)'
    BY <1>1, <1>2, <1>4, <2>0 DEF Unnumbered
  <2>2. Account(d)'
    BY <1>1, <1>2, <1>4, <2>0 DEF Account
  <2>3. Trail(d)'
    BY <1>1, <1>4, <2>0 DEF Trail
  <2> QED BY <2>1, <2>2, <2>3
<1> QED BY <1>1, <1>5, <1>6, <1>7 DEF VersInv

\* A scan reads that record.
LEMMA VersScan ==
    ASSUME VersInv, NEW o \in Versioned, Vers!Scan(o) PROVE VersInv'
<1>1. /\ scanned' = [scanned EXCEPT ![o] = record[o]]
      /\ UNCHANGED <<set, record, revisions, copies, update, updates, kept, blind, overwritten>>
  BY DEF Vers!Scan
<1>2. \A d \in Versioned : scanned'[d] = scanned[d] \/ scanned'[d] = record[d]
  BY <1>1 DEF VersInv, VersTypes
<1>3. scanned' \in [Versioned -> Recs]
  BY <1>1 DEF VersInv, VersTypes
<1>4. \A d \in Versioned : Busy(d)' = Busy(d) /\ Upright(d)' = Upright(d)
  BY <1>1 DEF Busy, Upright
<1>5. VersTypes'
  BY <1>1, <1>3, <1>4 DEF VersInv, VersTypes
<1>6. Backward'
  BY <1>1, <1>2, <1>4 DEF VersInv, Backward
<1>7. ASSUME NEW d \in Versioned PROVE Unnumbered(d)' /\ Account(d)' /\ Trail(d)'
  <2>0. Unnumbered(d) /\ Account(d) /\ Trail(d)
    BY DEF VersInv
  <2>1. Unnumbered(d)'
    BY <1>1, <1>2, <1>4, <2>0 DEF Unnumbered
  <2>2. Account(d)'
    BY <1>1, <1>2, <1>4, <2>0 DEF Account
  <2>3. Trail(d)'
    BY <1>1, <1>4, <2>0 DEF Trail
  <2> QED BY <2>1, <2>2, <2>3
<1> QED BY <1>1, <1>5, <1>6, <1>7 DEF VersInv

\* The dependencies of an object that is loaded are records.
LEMMA DependenciesAreRecs ==
    ASSUME VersInv, NEW p \in Processes, NEW o \in Versioned, Vers!Loadable(p, o, record[o])
    PROVE  /\ DOMAIN Vers!Dependencies(p, o, record[o]) = DOMAIN Deps[o]
           /\ \A i \in DOMAIN Deps[o] : Vers!Dependencies(p, o, record[o])[i] \in Recs
<1>1. DOMAIN Vers!Dependencies(p, o, record[o]) = DOMAIN Deps[o]
  BY DEF Vers!Dependencies
<1>2. ASSUME NEW i \in DOMAIN Deps[o] PROVE Vers!Dependencies(p, o, record[o])[i] \in Recs
  <2>1. Deps[o][i] \in Versioned
    BY VersConstants
  <2> DEFINE d == copies[p][Deps[o][i]]
  <2>2. d \in Recs /\ d.prev <= Len(revisions)
    BY <2>1 DEF VersInv, VersTypes, Backward
  <2>3. Vers!Dependencies(p, o, record[o])[i]
            = IF record[o].seal = None \/ d.ver = record[o].seal[i] THEN d ELSE Vers!GetVersion(d, record[o].seal[i])
    BY DEF Vers!Dependencies
  <2>4. Vers!Dependencies(p, o, record[o])[i] # Vers!NoSuchVersion
    BY DEF Vers!Loadable
  <2>5. CASE record[o].seal = None \/ d.ver = record[o].seal[i]
    BY <2>2, <2>3, <2>5
  <2>6. CASE ~(record[o].seal = None \/ d.ver = record[o].seal[i])
    <3>1. record[o].seal[i] \in Nat
      BY <2>6 DEF VersInv, VersTypes, Seals
    <3>2. Vers!GetVersion(d, record[o].seal[i]) = Vers!NoSuchVersion \/ Vers!GetVersion(d, record[o].seal[i]) \in Recs
      BY <2>2, <3>1, VersionOf DEF VersInv
    <3> QED BY <2>3, <2>4, <2>6, <3>2
  <2> QED BY <2>5, <2>6
<1> QED BY <1>1, <1>2

\* An update that is computed keeps the invariant.
LEMMA VersCompute ==
    ASSUME VersInv, NEW o \in Versioned, NEW base \in {record[o], scanned[o]}, NEW deps, NEW old,
           old = (base # record[o]), DOMAIN deps = DOMAIN Deps[o], \A i \in DOMAIN deps : deps[i] \in Recs,
           Vers!Compute(o, base, deps, old), overwritten' = overwritten, blind' \subseteq overwritten
    PROVE  VersInv'
<1> DEFINE ver == Vers!Bumped(o, base.ver)
           new == [content |-> updates + 1, ver |-> ver, prev |-> Vers!PrevOf(o, base), seal |-> Vers!SealOf(o, deps)]
<1>N. PICK N : N = Len(revisions)
  OBVIOUS
<1>L. PICK L : L = Len(revisions')
  OBVIOUS
<1>0. VersTypes /\ Backward /\ \A d \in Versioned : Unnumbered(d) /\ Account(d) /\ Trail(d)
  BY DEF VersInv
<1>1. /\ updates' = updates + 1 /\ update' = [update EXCEPT ![o] = [record |-> new, held |-> old]]
      /\ revisions' = Vers!Revised(o, record[o]) /\ UNCHANGED <<set, record, copies, scanned, kept>>
      /\ o \in set.sealing => Vers!CanSeal(o, ver, deps)
      /\ ~Busy(o)
  BY DEF Vers!Compute, Busy
<1>2. base \in Recs /\ base.ver \in Nat /\ base.prev \in Nat /\ base.prev <= N /\ record[o] \in Recs /\ updates \in Nat
      /\ N \in Nat /\ DOMAIN revisions = 1 .. N /\ old \in BOOLEAN /\ record[o].prev \in Nat /\ record[o].prev <= N
  BY <1>N, <1>0, NoSuch DEF VersTypes, Backward
<1>3. ver \in Nat
  BY <1>2 DEF Vers!Bumped
<1>4. Vers!SealOf(o, deps) \in Seals(o)
  <2>1. CASE o \in set.sealing
    <3>1. \A i \in DOMAIN deps : deps[i].ver \in Nat \ {0}
      BY <1>1, <2>1, NoSuch DEF Vers!CanSeal
    <3> QED BY <2>1, <3>1 DEF Vers!SealOf, Seals
  <2>2. CASE o \notin set.sealing
    BY <2>2 DEF Vers!SealOf, Seals
  <2> QED BY <2>1, <2>2
<1>5. /\ L \in Nat /\ N <= L /\ DOMAIN revisions' = 1 .. L /\ revisions' \in Seq(Recs)
      /\ \A i \in 1 .. N : revisions'[i] = revisions[i]
      /\ \A i \in 1 .. L : i \in 1 .. N \/ (i = N + 1 /\ revisions'[i] = record[o])
      /\ o \in set.archived => L = N + 1 /\ revisions'[L] = record[o]
  <2>1. revisions \in Seq(Recs)
    BY <1>0 DEF VersTypes
  <2>2. CASE o \in set.archived
    <3>1. revisions' = Append(revisions, record[o])
      BY <1>1, <2>2 DEF Vers!Revised
    <3>2. revisions' \in Seq(Recs) /\ L = N + 1 /\ DOMAIN revisions' = 1 .. L
      BY <1>N, <1>L, <1>2, <2>1, <3>1
    <3>3. \A i \in 1 .. L : revisions'[i] = IF i = L THEN record[o] ELSE revisions[i]
      BY <1>N, <1>2, <2>1, <3>1, <3>2
    <3> QED BY <1>2, <3>2, <3>3
  <2>3. CASE o \notin set.archived
    <3>1. revisions' = revisions /\ L = N
      BY <1>1, <1>N, <1>L, <2>3 DEF Vers!Revised
    <3> QED BY <1>2, <2>1, <2>3, <3>1
  <2> QED BY <2>2, <2>3
<1>6. Vers!PrevOf(o, base) \in Nat /\ Vers!PrevOf(o, base) <= L
  BY <1>N, <1>2, <1>5 DEF Vers!PrevOf
<1>7. new \in Recs
  BY <1>2, <1>3, <1>4, <1>6 DEF Recs
<1>8. /\ update'[o] = [record |-> new, held |-> old] /\ DOMAIN update' = Versioned
      /\ \A d \in Versioned \ {o} : update'[d] = update[d] /\ Busy(d)' = Busy(d) /\ Upright(d)' = Upright(d)
  BY <1>0, <1>1 DEF VersTypes, Busy, Upright
<1>9. update'[o] \in Jobs /\ update'[o].record = new /\ update'[o].held = old
  BY <1>2, <1>7, <1>8 DEF Jobs
<1>10. VersTypes'
  <2>1. /\ record' \in [Versioned -> Recs] /\ scanned' \in [Versioned -> Recs] /\ copies' \in [Processes -> [Versioned -> Recs]]
        /\ updates' \in Nat /\ set' \in Settings /\ DOMAIN kept' = Versioned
    BY <1>0, <1>1, <1>2 DEF VersTypes
  <2>2. ASSUME NEW d \in Versioned
        PROVE  record'[d].seal \in Seals(d) /\ (Busy(d)' => update'[d] \in Jobs /\ update'[d].record.seal \in Seals(d))
    <3>1. record'[d].seal \in Seals(d)
      BY <1>0, <1>1 DEF VersTypes
    <3>2. CASE d = o
      BY <3>1, <3>2, <1>4, <1>9
    <3>3. CASE d # o
      BY <3>1, <3>3, <1>0, <1>8 DEF VersTypes
    <3> QED BY <3>2, <3>3
  <2> QED BY <2>1, <2>2, <1>5, <1>8 DEF VersTypes
<1>11. Backward'
  <2>1. ASSUME NEW i \in DOMAIN revisions' PROVE revisions'[i].prev < i
    <3>1. CASE i \in 1 .. N
      BY <3>1, <1>N, <1>0, <1>2, <1>5 DEF Backward
    <3>2. CASE i \notin 1 .. N
      <4>1. i = N + 1 /\ revisions'[i] = record[o]
        BY <3>2, <1>5
      <4> QED BY <4>1, <1>2
    <3> QED BY <3>1, <3>2
  <2>2. ASSUME NEW r \in Recs, r.prev <= N PROVE r.prev <= L
    <3>1. r.prev \in Nat
      BY NoSuch
    <3> QED BY <2>2, <3>1, <1>2, <1>5
  <2>3. ASSUME NEW d \in Versioned
        PROVE  /\ record'[d].prev <= L /\ scanned'[d].prev <= L
               /\ \A p \in Processes : copies'[p][d].prev <= L
    BY <1>N, <1>0, <1>1, <2>2 DEF Backward, VersTypes
  <2>4. ASSUME NEW d \in Versioned, Busy(d)' PROVE update'[d].record.prev <= L
    <3>1. CASE d = o
      BY <3>1, <1>6, <1>9
    <3>2. CASE d # o
      <4>1. update'[d] = update[d] /\ update[d].record \in Recs /\ update[d].record.prev <= N
        BY <3>2, <2>4, <1>N, <1>0, <1>8 DEF Backward, VersTypes, Jobs
      <4> QED BY <4>1, <2>2
    <3> QED BY <3>1, <3>2
  <2> QED BY <1>L, <2>1, <2>3, <2>4 DEF Backward
<1>12. ASSUME NEW d \in Versioned PROVE Unnumbered(d)'
  <2>1. CASE d = o
    <3>1. o \notin set.numbered => ver = 0
      BY <1>0 DEF Unnumbered, Vers!Bumped
    <3>2. update'[o].record.ver = ver
      BY <1>9
    <3> QED BY <2>1, <3>1, <3>2, <1>0, <1>1 DEF Unnumbered
  <2>2. CASE d # o
    BY <2>2, <1>0, <1>1, <1>8 DEF Unnumbered
  <2> QED BY <2>1, <2>2
<1>13. Upright(o)' => base = record[o]
  BY <1>9 DEF Upright
<1>14. ASSUME NEW d \in Versioned PROVE Account(d)'
  <2>1. CASE d = o
    <3>1. Upright(o)' /\ o \in set.numbered => update'[o].record.ver = record[o].ver + 1
      BY <1>9, <1>13 DEF Vers!Bumped
    <3> QED BY <2>1, <3>1, <1>0, <1>1 DEF Account
  <2>2. CASE d # o
    BY <2>2, <1>0, <1>1, <1>8 DEF Account
  <2> QED BY <2>1, <2>2
<1>15. ASSUME NEW r, NEW s, Points(revisions, r, s) PROVE Points(revisions', r, s)
  <2>1. r.prev \in 1 .. N /\ revisions[r.prev] = s
    BY <1>15, <1>2 DEF Points
  <2>2. r.prev \in 1 .. L /\ revisions'[r.prev] = revisions[r.prev]
    BY <2>1, <1>2, <1>5
  <2> QED BY <2>1, <2>2, <1>5 DEF Points
<1>16. ASSUME NEW d \in Versioned PROVE Trail(d)'
  <2>1. ASSUME Chained(kept[d], record[d].ver, revisions) PROVE Chained(kept'[d], record'[d].ver, revisions')
    BY <2>1, <1>1, <1>15 DEF Chained
  <2>2. CASE d = o
    <3>1. o \in set.archived => Points(revisions', update'[o].record, record[o])
      <4>1. o \in set.archived => update'[o].record.prev = N + 1
        BY <1>N, <1>9 DEF Vers!PrevOf
      <4> QED BY <4>1, <1>2, <1>5 DEF Points
    <3> QED BY <2>1, <2>2, <3>1, <1>0, <1>1 DEF Trail
  <2>3. CASE d # o
    BY <2>1, <2>3, <1>0, <1>1, <1>8, <1>15 DEF Trail
  <2> QED BY <2>2, <2>3
<1> QED BY <1>1, <1>10, <1>11, <1>12, <1>14, <1>16 DEF VersInv

\* The record is written: it has the next version, unless old data overwrites the object.
LEMMA VersWrite ==
    ASSUME VersInv, NEW o \in Versioned, Vers!Write(o) PROVE VersInv'
<1>0. VersTypes /\ Backward /\ \A d \in Versioned : Unnumbered(d) /\ Account(d) /\ Trail(d)
  BY DEF VersInv
<1> DEFINE new == update[o].record
<1>1. /\ record' = [record EXCEPT ![o] = new] /\ update' = [update EXCEPT ![o] = Vers!NoJob]
      /\ kept' = [kept EXCEPT ![o] = [v \in DOMAIN kept[o] \cup {new.ver} |-> IF v = new.ver THEN new ELSE kept[o][v]]]
      /\ overwritten' = IF update[o].held THEN overwritten \cup {o} ELSE overwritten
      /\ UNCHANGED <<set, revisions, copies, scanned, updates, blind>> /\ Busy(o)
  BY DEF Vers!Write, Busy
<1>2. /\ record'[o] = new /\ kept'[o] = [v \in DOMAIN kept[o] \cup {new.ver} |-> IF v = new.ver THEN new ELSE kept[o][v]]
      /\ ~Busy(o)' /\ ~Upright(o)'
      /\ \A d \in Versioned \ {o} : /\ record'[d] = record[d] /\ kept'[d] = kept[d] /\ update'[d] = update[d]
                                    /\ Busy(d)' = Busy(d) /\ Upright(d)' = Upright(d)
  BY <1>0, <1>1 DEF VersTypes, Busy, Upright
<1>3. new \in Recs /\ new.seal \in Seals(o) /\ new.prev <= Len(revisions) /\ update[o].held \in BOOLEAN
  BY <1>0, <1>1 DEF VersTypes, Backward, Jobs
<1>4. VersTypes'
  <2>1. record' \in [Versioned -> Recs] /\ DOMAIN update' = Versioned /\ DOMAIN kept' = Versioned
    BY <1>0, <1>1, <1>3 DEF VersTypes
  <2>2. ASSUME NEW d \in Versioned
        PROVE  record'[d].seal \in Seals(d) /\ (Busy(d)' => update'[d] \in Jobs /\ update'[d].record.seal \in Seals(d))
    BY <1>0, <1>2, <1>3 DEF VersTypes
  <2> QED BY <2>1, <2>2, <1>0, <1>1 DEF VersTypes
<1>5. Backward'
  <2>1. ASSUME NEW d \in Versioned PROVE record'[d].prev <= Len(revisions)
    BY <1>0, <1>2, <1>3 DEF Backward
  <2>2. ASSUME NEW d \in Versioned, Busy(d)' PROVE update'[d].record.prev <= Len(revisions)
    BY <2>2, <1>0, <1>2 DEF Backward
  <2> QED BY <2>1, <2>2, <1>0, <1>1 DEF Backward
<1>6. overwritten \subseteq overwritten'
  BY <1>1
<1>7. ASSUME NEW d \in Versioned PROVE Unnumbered(d)'
  <2>1. CASE d = o
    BY <2>1, <1>0, <1>1, <1>2 DEF Unnumbered
  <2>2. CASE d # o
    BY <2>2, <1>0, <1>1, <1>2 DEF Unnumbered
  <2> QED BY <2>1, <2>2
<1>8. ASSUME NEW d \in Versioned, d # o PROVE Account(d)' /\ Trail(d)'
  <2>1. Account(d)'
    BY <1>8, <1>0, <1>1, <1>2, <1>6 DEF Account
  <2>2. Trail(d)'
    BY <1>8, <1>0, <1>1, <1>2, <1>6 DEF Trail
  <2> QED BY <2>1, <2>2
<1>9. ASSUME o \in set.numbered \ overwritten'
      PROVE  /\ Account(o) /\ Trail(o) /\ o \in set.numbered \ overwritten /\ Upright(o)
             /\ Told(kept[o], record[o].ver) /\ record[o].ver \in Nat /\ new.ver = record[o].ver + 1
             /\ Was(kept[o], record[o].ver, record[o])
  <2>1. o \in set.numbered \ overwritten /\ Upright(o)
    BY <1>9, <1>1, <1>3 DEF Upright
  <2>2. record[o].ver \in Nat
    BY <1>0, NoSuch DEF VersTypes
  <2> QED BY <2>1, <2>2, <1>0 DEF Account
<1>10. ASSUME o \in set.numbered \ overwritten', NEW v \in 1 .. new.ver
       PROVE  kept'[o][v] = IF v = new.ver THEN new ELSE kept[o][v]
  BY <1>2, <1>9, <1>10 DEF Told
<1>11. ASSUME o \in set.numbered \ overwritten', NEW r, Was(kept[o], record[o].ver, r) PROVE Was(kept'[o], new.ver, r)
  <2>1. r.ver \in 1 .. record[o].ver /\ r = kept[o][r.ver]
    BY <1>11 DEF Was
  <2>2. r.ver \in 1 .. new.ver /\ r.ver # new.ver
    BY <2>1, <1>9, <1>11
  <2>3. kept'[o][r.ver] = kept[o][r.ver]
    BY <2>2, <1>10, <1>11
  <2> QED BY <2>1, <2>2, <2>3 DEF Was
<1>12. Account(o)'
  <2> SUFFICES ASSUME o \in set.numbered \ overwritten'
               PROVE  /\ Told(kept'[o], new.ver) /\ Was(kept'[o], new.ver, new) /\ Was(kept'[o], new.ver, scanned[o])
                      /\ \A p \in Processes : Was(kept'[o], new.ver, copies[p][o])
    BY <1>1, <1>2 DEF Account
  <2>1. new.ver \in Nat /\ new.ver \in 1 .. new.ver
    BY <1>9
  <2>2. DOMAIN kept'[o] = 1 .. new.ver
    <3>1. DOMAIN kept'[o] = DOMAIN kept[o] \cup {new.ver}
      BY <1>2
    <3>2. DOMAIN kept[o] = 1 .. record[o].ver
      BY <1>9 DEF Told
    <3> QED BY <3>1, <3>2, <1>9
  <2>3. ASSUME NEW v \in 1 .. new.ver PROVE kept'[o][v] \in Recs /\ kept'[o][v].ver = v
    <3>1. CASE v = new.ver
      BY <3>1, <1>3, <1>10
    <3>2. CASE v # new.ver
      <4>1. v \in 1 .. record[o].ver
        BY <3>2, <1>9
      <4>2. kept[o][v] \in Recs /\ kept[o][v].ver = v
        BY <4>1, <1>9 DEF Told
      <4> QED BY <3>2, <4>2, <1>10
    <3> QED BY <3>1, <3>2
  <2>4. Told(kept'[o], new.ver)
    BY <2>2, <2>3 DEF Told
  <2>5. Was(kept'[o], new.ver, new)
    BY <2>1, <1>10 DEF Was
  <2>6. Was(kept'[o], new.ver, scanned[o])
    BY <1>9, <1>11 DEF Account
  <2>7. \A p \in Processes : Was(kept'[o], new.ver, copies[p][o])
    BY <1>9, <1>11 DEF Account
  <2> QED BY <2>4, <2>5, <2>6, <2>7
<1>13. Trail(o)'
  <2> SUFFICES ASSUME o \in (set.numbered \cap set.archived) \ overwritten' PROVE Chained(kept'[o], new.ver, revisions)
    BY <1>1, <1>2 DEF Trail
  <2>1. Chained(kept[o], record[o].ver, revisions) /\ Points(revisions, new, record[o])
    BY <1>9 DEF Trail
  <2>2. ASSUME NEW v \in 2 .. new.ver PROVE Points(revisions, kept'[o][v], kept'[o][v - 1])
    <3>1. v - 1 \in 1 .. new.ver /\ v - 1 # new.ver /\ v \in 1 .. new.ver /\ v \in Nat
      BY <1>9
    <3>2. kept'[o][v - 1] = kept[o][v - 1]
      BY <3>1, <1>10
    <3>3. CASE v = new.ver
      <4>1. record[o] = kept[o][record[o].ver] /\ v - 1 = record[o].ver
        BY <3>3, <1>9 DEF Was
      <4>2. kept'[o][v] = new
        BY <3>1, <3>3, <1>10
      <4>3. kept'[o][v - 1] = record[o]
        BY <3>2, <4>1
      <4> QED BY <4>2, <4>3, <2>1
    <3>4. CASE v # new.ver
      <4>1. v \in 2 .. record[o].ver
        BY <3>4, <1>9
      <4>2. Points(revisions, kept[o][v], kept[o][v - 1])
        BY <4>1, <2>1 DEF Chained
      <4>3. kept'[o][v] = kept[o][v]
        BY <3>1, <3>4, <1>10
      <4> QED BY <3>2, <4>2, <4>3
    <3> QED BY <3>3, <3>4
  <2> QED BY <2>2 DEF Chained
<1>14. blind' \subseteq overwritten'
  BY <1>1, <1>6 DEF VersInv
<1>15. ASSUME NEW d \in Versioned PROVE Account(d)' /\ Trail(d)'
  BY <1>8, <1>12, <1>13
<1> QED BY <1>4, <1>5, <1>7, <1>14, <1>15 DEF VersInv

\* The record is not written, and its Revision is one that nothing points to.
LEMMA VersAbandon ==
    ASSUME VersInv, NEW o \in Versioned, Vers!Abandon(o) PROVE VersInv'
<1>1. /\ update' = [update EXCEPT ![o] = Vers!NoJob]
      /\ UNCHANGED <<set, record, revisions, copies, scanned, updates, kept, blind, overwritten>>
  BY DEF Vers!Abandon
<1>2. DOMAIN update' = Versioned /\ \A d \in Versioned : (Busy(d)' => Busy(d) /\ update'[d] = update[d]) /\ (Upright(d)' => Upright(d))
  BY <1>1 DEF VersInv, VersTypes, Busy, Upright
<1>3. VersTypes'
  BY <1>1, <1>2 DEF VersInv, VersTypes
<1>4. Backward'
  BY <1>1, <1>2 DEF VersInv, Backward
<1>5. ASSUME NEW d \in Versioned PROVE Unnumbered(d)' /\ Account(d)' /\ Trail(d)'
  <2>0. Unnumbered(d) /\ Account(d) /\ Trail(d)
    BY DEF VersInv
  <2>1. Unnumbered(d)'
    BY <1>1, <1>2, <2>0 DEF Unnumbered
  <2>2. Account(d)'
    <3>1. Upright(d)' => Upright(d) /\ update'[d] = update[d]
      BY <1>2 DEF Upright
    <3> QED BY <1>1, <3>1, <2>0 DEF Account
  <2>3. Trail(d)'
    <3>1. Upright(d)' => Upright(d) /\ update'[d] = update[d]
      BY <1>2 DEF Upright
    <3> QED BY <1>1, <3>1, <2>0 DEF Trail
  <2> QED BY <2>1, <2>2, <2>3
<1> QED BY <1>1, <1>3, <1>4, <1>5 DEF VersInv

\* Nothing happens to the versions.
LEMMA VersStay == VersInv /\ UNCHANGED revisionvars => VersInv'
<1> SUFFICES ASSUME VersInv, UNCHANGED revisionvars PROVE VersInv'
  OBVIOUS
<1>1. UNCHANGED <<set, record, revisions, copies, scanned, update, updates, kept, blind, overwritten>>
  BY DEF revisionvars
<1>2. \A d \in Versioned : Busy(d)' = Busy(d) /\ Upright(d)' = Upright(d)
  BY <1>1 DEF Busy, Upright
<1> QED BY <1>1, <1>2 DEF VersInv, VersTypes, Backward, Unnumbered, Account, Trail

\* Each step keeps the invariant. A check succeeds on the record that the client saw, as versions differ.
LEMMA VersStep == VersInv /\ Vers!Next => VersInv'
<1> SUFFICES ASSUME VersInv, NEW o \in Versioned,
                    \/ Vers!Update(o) \/ Vers!Relink(o) \/ Vers!Overwrite(o) \/ Vers!Write(o) \/ Vers!Abandon(o) \/ Vers!Scan(o)
                    \/ \E p \in Processes : Vers!Load(p, o) \/ Vers!UpdateChecked(p, o)
             PROVE  VersInv'
  BY DEF Vers!Next
<1>1. DOMAIN Vers!Current(o) = DOMAIN Deps[o] /\ \A i \in DOMAIN Deps[o] : Vers!Current(o)[i] \in Recs
  <2>1. \A i \in DOMAIN Deps[o] : Deps[o][i] \in Versioned
    BY VersConstants
  <2> QED BY <2>1, VersConstants DEF Vers!Current, VersInv, VersTypes
<1>2. ASSUME Vers!Loadable(Home, o, record[o])
      PROVE  DOMAIN Vers!Pinned(o) = DOMAIN Deps[o] /\ \A i \in DOMAIN Deps[o] : Vers!Pinned(o)[i] \in Recs
  BY <1>2, DependenciesAreRecs, VersConstants DEF Vers!Pinned
<1>3. blind \subseteq overwritten
  BY DEF VersInv
<1>4. CASE Vers!Update(o)
  <2>1. Vers!Compute(o, record[o], Vers!Pinned(o), FALSE) /\ UNCHANGED <<blind, overwritten>> /\ Vers!Loadable(Home, o, record[o])
    BY <1>4 DEF Vers!Update, Vers!Compute
  <2>2. DOMAIN Vers!Pinned(o) = DOMAIN Deps[o] /\ \A i \in DOMAIN Vers!Pinned(o) : Vers!Pinned(o)[i] \in Recs
    BY <1>2, <2>1
  <2>3. blind' \subseteq overwritten /\ FALSE = (record[o] # record[o])
    BY <1>3, <2>1
  <2> QED BY <2>1, <2>2, <2>3, VersCompute
<1>5. CASE Vers!Relink(o)
  <2>1. Vers!Compute(o, record[o], Vers!Current(o), FALSE) /\ UNCHANGED <<blind, overwritten>>
    BY <1>5 DEF Vers!Relink
  <2>2. DOMAIN Vers!Current(o) = DOMAIN Deps[o] /\ \A i \in DOMAIN Vers!Current(o) : Vers!Current(o)[i] \in Recs
    BY <1>1
  <2>3. blind' \subseteq overwritten /\ FALSE = (record[o] # record[o])
    BY <1>3, <2>1
  <2> QED BY <2>1, <2>2, <2>3, VersCompute
<1>6. CASE Vers!Overwrite(o)
  <2>1. Vers!Compute(o, scanned[o], Vers!Current(o), scanned[o] # record[o]) /\ UNCHANGED <<blind, overwritten>>
    BY <1>6 DEF Vers!Overwrite
  <2>2. DOMAIN Vers!Current(o) = DOMAIN Deps[o] /\ \A i \in DOMAIN Vers!Current(o) : Vers!Current(o)[i] \in Recs
    BY <1>1
  <2>3. blind' \subseteq overwritten
    BY <1>3, <2>1
  <2> QED BY <2>1, <2>2, <2>3, VersCompute
<1>7. ASSUME NEW p \in Processes, Vers!UpdateChecked(p, o) PROVE VersInv'
  <2>1. /\ Vers!Compute(o, record[o], Vers!Pinned(o), FALSE) /\ overwritten' = overwritten /\ Vers!Loadable(Home, o, record[o])
        /\ copies[p][o].ver > 0 /\ copies[p][o].ver = record[o].ver
        /\ blind' = IF copies[p][o].content # record[o].content THEN blind \cup {o} ELSE blind
    BY <1>7 DEF Vers!UpdateChecked, Vers!Compute, Vers!SameVersion
  <2>2. DOMAIN Vers!Pinned(o) = DOMAIN Deps[o] /\ \A i \in DOMAIN Vers!Pinned(o) : Vers!Pinned(o)[i] \in Recs
    BY <1>2, <2>1
  <2>3. o \notin overwritten => copies[p][o] = record[o]
    <3>1. Unnumbered(o) /\ Account(o)
      BY DEF VersInv
    <3>2. o \in set.numbered
      BY <2>1, <3>1 DEF Unnumbered
    <3> QED BY <2>1, <3>1, <3>2 DEF Account, Was
  <2>4. blind' \subseteq overwritten /\ FALSE = (record[o] # record[o])
    BY <1>3, <2>1, <2>3
  <2> QED BY <2>1, <2>2, <2>4, VersCompute
<1> QED BY <1>4, <1>5, <1>6, <1>7, VersWrite, VersAbandon, VersScan, VersLoad

-----------------------------------------------------------------------------
\* What the invariant says of versions: a sealed version of a dependency is one that copies lead back to.
LEMMA VersSound == VersInv => Vers!VersionsAreSound
<1> SUFFICES ASSUME VersInv PROVE Vers!VersionsAreSound
  OBVIOUS
<1>0. VersTypes /\ Backward /\ \A o \in Versioned : Unnumbered(o) /\ Account(o) /\ Trail(o)
  BY DEF VersInv
<1>1. ASSUME NEW o \in Versioned, o \in (set.numbered \cap set.archived) \ overwritten, NEW r, Was(kept[o], record[o].ver, r),
             NEW v \in 1 .. r.ver
      PROVE  Vers!GetVersion(r, v) = kept[o][v] /\ kept[o][v] \in Recs
  <2>1. Told(kept[o], record[o].ver) /\ Chained(kept[o], record[o].ver, revisions) /\ record[o].ver \in Nat
    BY <1>0, <1>1, NoSuch DEF Account, Trail, VersTypes
  <2>2. Vers!GetVersion(r, v) = kept[o][v]
    BY <2>1, <1>0, <1>1, ReadsBack
  <2>3. v \in 1 .. record[o].ver
    BY <2>1, <1>1 DEF Was
  <2> QED BY <2>1, <2>2, <2>3 DEF Told
<1>2. Vers!ChecksHold
  BY DEF VersInv, Vers!ChecksHold
<1>3. Vers!VersionsReadBack
  <2> SUFFICES ASSUME NEW o \in (set.numbered \cap set.archived) \ overwritten, NEW v \in 1 .. record[o].ver
               PROVE  Vers!GetVersion(record[o], v) = kept[o][v]
    BY DEF Vers!VersionsReadBack
  <2>1. o \in Versioned
    BY <1>0, VersConstants DEF VersTypes
  <2>2. Was(kept[o], record[o].ver, record[o])
    BY <2>1, <1>0 DEF Account
  <2> QED BY <2>1, <2>2, <1>1
<1>4. Vers!SealedLoads
  <2> SUFFICES ASSUME NEW p \in Processes, NEW o \in Versioned,
                      \A i \in {j \in DOMAIN Deps[o] : record[o].seal # None} :
                          /\ Deps[o][i] \in set.archived \ overwritten
                          /\ copies[p][Deps[o][i]].ver >= record[o].seal[i],
                      NEW i \in DOMAIN Deps[o]
               PROVE  Vers!Dependencies(p, o, record[o])[i] # Vers!NoSuchVersion
    BY DEF Vers!SealedLoads, Vers!Loadable
  <2>1. Deps[o][i] \in Versioned
    BY VersConstants
  <2> DEFINE d == copies[p][Deps[o][i]]
  <2>2. d \in Recs /\ d.ver \in Nat
    BY <2>1, <1>0, NoSuch DEF VersTypes
  <2>3. Vers!Dependencies(p, o, record[o])[i]
            = IF record[o].seal = None \/ d.ver = record[o].seal[i] THEN d ELSE Vers!GetVersion(d, record[o].seal[i])
    BY DEF Vers!Dependencies
  <2>4. CASE record[o].seal = None \/ d.ver = record[o].seal[i]
    BY <2>2, <2>3, <2>4, NoSuch
  <2>5. CASE ~(record[o].seal = None \/ d.ver = record[o].seal[i])
    <3>1. record[o].seal[i] \in Nat \ {0}
      BY <2>5, <1>0 DEF VersTypes, Seals
    <3>2. Deps[o][i] \in set.archived \ overwritten /\ d.ver >= record[o].seal[i]
      BY <2>5
    <3>3. record[o].seal[i] \in 1 .. d.ver /\ d.ver # 0
      BY <2>2, <3>1, <3>2
    <3>4. Unnumbered(Deps[o][i]) /\ Account(Deps[o][i])
      BY <2>1, <1>0
    <3>5. Deps[o][i] \in set.numbered
      BY <3>3, <3>4 DEF Unnumbered
    <3>6. Was(kept[Deps[o][i]], record[Deps[o][i]].ver, d)
      BY <3>2, <3>4, <3>5 DEF Account
    <3>7. Vers!GetVersion(d, record[o].seal[i]) \in Recs
      BY <2>1, <3>2, <3>3, <3>5, <3>6, <1>1
    <3> QED BY <2>3, <2>5, <3>7, NoSuch
  <2> QED BY <2>4, <2>5
<1> QED BY <1>2, <1>3, <1>4 DEF Vers!VersionsAreSound

-----------------------------------------------------------------------------
\* The invariants of the four instances, the one of a backfill where there is one.
DataInv == /\ StoreInv /\ LoadInv /\ VersInv
           /\ (part = "backfill" => FillInv)
           /\ (part # "backfill" => FilledIsComplete)

\* The invariant holds at first, of all parts.
LEMMA DataInit == Init => DataInv
<1> SUFFICES ASSUME Init PROVE DataInv
  OBVIOUS
<1>1. StoreInv /\ LoadInv /\ VersInv
  BY InitStore, InitLoad, VersStart, DataAssumption DEF Init
<1>2. ASSUME part = "backfill" PROVE FillInv
  BY <1>2, InitFill DEF Init
<1>3. ASSUME part # "backfill" PROVE FilledIsComplete
  BY <1>3 DEF Init, FillAtRest, FilledIsComplete, Fill!FilledIsComplete
<1> QED BY <1>1, <1>2, <1>3 DEF DataInv

\* Every step keeps it: one part moves, the others stay.
LEMMA DataStep == DataInv /\ [Next]_vars => DataInv'
<1> SUFFICES ASSUME DataInv, [Next]_vars PROVE DataInv'
  OBVIOUS
<1>1. /\ part' = part
      /\ Store!Next \/ UNCHANGED storevars
      /\ Load!Next \/ UNCHANGED loadvars
      /\ Vers!Next \/ UNCHANGED revisionvars
      /\ (part = "backfill" /\ Fill!Next) \/ UNCHANGED backfillvars
  <2>1. CASE Next
    BY <2>1 DEF Next
  <2>2. CASE UNCHANGED vars
    BY <2>2 DEF vars
  <2> QED BY <2>1, <2>2
<1>2. StoreInv' /\ LoadInv' /\ VersInv'
  BY <1>1, StoreKeeps, LoadKeeps, VersStep, VersStay DEF DataInv
<1>3. ASSUME part' = "backfill" PROVE FillInv'
  BY <1>1, <1>3, FillKeeps DEF DataInv
<1>4. ASSUME part' # "backfill" PROVE FilledIsComplete'
  <2>1. FilledIsComplete /\ UNCHANGED backfillvars
    BY <1>1, <1>4 DEF DataInv
  <2>2. UNCHANGED <<filled, sent>>
    BY <2>1 DEF backfillvars
  <2> QED BY <2>1, <2>2 DEF FilledIsComplete, Fill!FilledIsComplete, Fill!Keys
<1> QED BY <1>2, <1>3, <1>4 DEF DataInv

\* The invariant holds always.
LEMMA DataAlways == Spec => []DataInv
BY DataInit, DataStep, PTL DEF Spec

\* A sequence is marked as filled only when all records of its source were sent, in whatever
\* order the edits of the backfill are saved or lost, and whatever restarts between them.
THEOREM Filled == Spec => []FilledIsComplete
<1>1. DataInv => FilledIsComplete
  <2>1. ASSUME FillInv PROVE FilledIsComplete
    BY <2>1, FilledMeans DEF FilledIsComplete, Fill!FilledIsComplete
  <2> QED BY <2>1 DEF DataInv
<1> QED BY <1>1, DataAlways, PTL

\* As long as no store is left before its timers, the store in use has what was answered, and
\* so has the file once all timers fired.
THEOREM Kept == Spec => []NothingLost
<1>1. DataInv => NothingLost
  BY StoreMeans DEF DataInv, NothingLost
<1> QED BY <1>1, DataAlways, PTL

\* An active object has all that it inherits from, for every number of objects.
THEOREM Complete == Spec => []ActiveIsComplete
<1>1. DataInv => ActiveIsComplete
  BY LoadMeans DEF DataInv, ActiveIsComplete
<1> QED BY <1>1, DataAlways, PTL

\* Versions of an object can be got back, its checked edits are applied to what the client saw, and its sealed dependents
\* load, in whatever order records are loaded, scanned, computed, written and abandoned, unless old data overwrote it.
THEOREM ReadBack == Spec => []VersionsAreSound
<1>1. DataInv => VersionsAreSound
  BY VersSound DEF DataInv, VersionsAreSound
<1> QED BY <1>1, DataAlways, PTL
=============================================================================
