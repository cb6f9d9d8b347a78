------------------------------ MODULE SpotDiff ------------------------------
(* Differences between two strings: compute() cuts off their common tips, and then looks for a spot of the new string that
   is in the old one, and for such spots on both sides of it. A string is a sequence of characters. *)
EXTENDS Integers, Sequences, SequencesExt, FiniteSetsExt

CONSTANTS Strings,      \* the strings to be compared
          MaxDepth, NumPatches, MinLen, MinPatches, Penalty,    \* options of compute(); min_improvement is a tenth
          Whole         \* no plan: the string is to be replaced as a whole

DiffAssumption == {MaxDepth, NumPatches, MinPatches, Penalty} \subseteq Nat /\ MinLen \in Nat \ {0}

VARIABLES s1, s2,       \* the old string and the new one
          plan,         \* [start, length, new] in the order of application, Whole, or << >> before compute()
          overrun,      \* did the spot that was found reach beyond the end of the string
          computed
diffvars == <<s1, s2, plan, overrun, computed>>

\* String.substring(): positions beyond the ends count as the ends, and the lesser one is the start.
Clamp(s, i) == Max({0, Min({i, Len(s)})})
Substring(s, i, j) == SubSeq(s, Min({Clamp(s, i), Clamp(s, j)}) + 1, Max({Clamp(s, i), Clamp(s, j)}))
At(s, i) == IF i \in 0 .. Len(s) - 1 THEN <<s[i + 1]>> ELSE << >>
IndexOf(s, t) == LET places == {i \in 0 .. Len(s) - Len(t) : SubSeq(s, i + 1, i + Len(t)) = t}
                 IN IF places = {} THEN -1 ELSE Min(places)

PrefixLength(s, t) == Max({n \in 0 .. Min({Len(s), Len(t)}) : SubSeq(s, 1, n) = SubSeq(t, 1, n)})
SuffixLength(s, t) == PrefixLength(Reverse(s), Reverse(t))

----------------------------------------------------------------------------
\* Patches are pieces of the new string, each reaching into the next by a third.
Patch(i, n, patches) == <<(i * n) \div patches, (3 * (i + 1) * n + n) \div (3 * patches)>>
Found(s, t, patches) == {i \in 0 .. patches - 1 : IndexOf(s, Substring(t, Patch(i, Len(t), patches)[1],
                                                                          Patch(i, Len(t), patches)[2])) >= 0}
\* The first patch of the longest row of patches that were found
RowFrom(i, found) == Cardinality({j \in found : j >= i /\ i .. j \subseteq found})
Spot(found) == Min({i \in found : \A j \in found : RowFrom(i, found) >= RowFrom(j, found)})

Shift_Nothing(p, by) == p                         \* mutant: the plan for the right side keeps its own positions
Shift(p, by) == [i \in DOMAIN p |-> [p[i] EXCEPT !.start = @ + by]]
Replace(s, t) == <<[start |-> 0, length |-> Len(s), new |-> t]>>

RECURSIVE Diff(_, _, _, _)
Diff(s, t, depth, most) ==
    LET M == Len(s)  N == Len(t)
        patches == Min({most, (4 * N) \div (3 * MinLen)})
        found == IF patches > 0 THEN Found(s, t, patches) ELSE {}
    IN IF s = t THEN [plan |-> << >>, over |-> FALSE]
       ELSE IF depth = 0 \/ M > 5 * N \/ N > 5 * M \/ patches < MinPatches \/ found = {}
       THEN [plan |-> Replace(s, t), over |-> FALSE]
       ELSE LET left0  == Patch(Spot(found), N, patches)[1]
                right0 == Patch(Spot(found), N, patches)[2]
                match0 == IndexOf(s, Substring(t, left0, right0))
                back == Max({n \in 0 .. left0 : \A k \in 1 .. n : At(s, match0 - k) = At(t, left0 - k)})
                ahead == Max({n \in 0 .. Max({0, N - right0}) :
                                \A k \in 0 .. n - 1 : At(s, match0 + right0 - left0 + k) = At(t, right0 + k)})
                left == left0 - back  right == right0 + ahead  match == match0 - back
                end == match + right - left
                before == Diff(Substring(s, 0, match), Substring(t, 0, left), depth - 1, patches)
                after == Diff(Substring(s, end, M), Substring(t, right, N), depth - 1, patches)
            IN [plan |-> Shift(after.plan, end) \o before.plan, over |-> right > N \/ before.over \/ after.over]

NewLength(p) == FoldFunction(LAMBDA e, n : n + Len(e.new), 0, p)
Tips == PrefixLength(s1, s2) + SuffixLength(s1, s2)
Compute ==
    LET L == PrefixLength(s1, s2)  R == SuffixLength(s1, s2)
        d == Diff(Substring(s1, L, Len(s1) - R), Substring(s2, L, Len(s2) - R), MaxDepth, NumPatches)
    IN /\ ~computed /\ computed' = TRUE
       /\ plan' = IF 10 * (NewLength(d.plan) + Penalty * Len(d.plan)) >= 9 * Len(s2) THEN Whole ELSE Shift(d.plan, L)
       /\ overrun' = d.over
       /\ UNCHANGED <<s1, s2>>

Apply(s, p) == FoldLeft(LAMBDA acc, e : Substring(acc, 0, e.start) \o e.new \o Substring(acc, e.start + e.length, Len(acc)), s, p)

Init == s1 \in Strings /\ s2 \in Strings /\ plan = << >> /\ overrun = FALSE /\ computed = FALSE
Next == Compute

----------------------------------------------------------------------------
\* The plan turns the old string into the new one and is shorter than that, with two exceptions: the common prefix and
\* suffix overlap in the shorter string, and a spot in the last patch, which reaches beyond the end of the new string.
\* (SpotDiff.compute, apply)
PlanLeadsToNew == computed /\ plan # Whole => \/ Apply(s1, plan) = s2
                                              \/ Tips > Min({Len(s1), Len(s2)})
                                              \/ overrun
=============================================================================
