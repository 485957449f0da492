------------------------------ MODULE ReduceEq ------------------------------
(***************************************************************************)
(* The equation reducer of seq_rewriter (reduce_eq and the stages it       *)
(* chains, as driven by mk_eq_core): an equation ls = rs between two       *)
(* flattened concatenations is cancelled from the back and the front, and  *)
(* then checked by itos matching, value clash, length, subsequence and     *)
(* non-overlap reasoning.  Each stage either refutes the equation (the     *)
(* code returns false and mk_eq_core rewrites to false), or shrinks ls/rs  *)
(* and emits side equations into eqs.                                      *)
(*                                                                         *)
(* The loops of reduce_back and reduce_front are modelled one iteration    *)
(* per step; every other stage is one atomic step, in the order of the     *)
(* && chain of reduce_eq.                                                  *)
(***************************************************************************)
EXTENDS Integers, Sequences, FiniteSets

CONSTANTS
    Chars,      \* character values (constant characters of the theory)
    CharVars,   \* uninterpreted character terms
    SeqVars,    \* uninterpreted sequence terms (variables, opaque atoms)
    IntVars,    \* integer terms appearing under str.from_int (itos)
    Inputs      \* the equations l = r given to mk_eq_core, as pairs of atom lists

(***************************************************************************)
(* Atoms of a flattened concatenation.  The empty sequence and the empty   *)
(* string literal are the same term, Empty.                                *)
(***************************************************************************)
Unit(c)  == [k |-> "unit", c |-> c]
Str(s)   == [k |-> "str",  s |-> s]
Var(x)   == [k |-> "var",  x |-> x]
ItosOf(n) == [k |-> "itos", n |-> n]
Empty    == Str(<<>>)

CharTerm == Chars \cup CharVars
Atom == [k : {"unit"}, c : CharTerm] \cup [k : {"str"}, s : Seq(Chars)]
        \cup [k : {"var"}, x : SeqVars] \cup [k : {"itos"}, n : IntVars]

ASSUME InputsAssumption == Inputs \subseteq Seq(Atom) \X Seq(Atom)

IsUnit(e)   == e.k = "unit"
IsString(e) == e.k = "str"
IsItos(e)   == e.k = "itos"
IsEmpty(e)  == e = Empty
\* m().is_value(e) && str().is_unit(e): a unit of a constant character
IsUnitValue(e) == IsUnit(e) /\ e.c \in Chars
\* m().are_distinct on character terms: two different values
AreDistinct(a, b) == a \in Chars /\ b \in Chars /\ a # b

(***************************************************************************)
(* Side equations pushed to eqs: between characters (unit/unit and         *)
(* unit/string cancellation), between an integer and a numeral (itos) and  *)
(* between two concatenations.                                             *)
(***************************************************************************)
ChrEq(a, b) == [kind |-> "chr", l |-> a, r |-> b]
IntEq(n, v) == [kind |-> "int", l |-> n, r |-> v]
SeqEq(l, r) == [kind |-> "seq", l |-> l, r |-> r]

Last(s) == s[Len(s)]
Front(s) == SubSeq(s, 1, Len(s) - 1)
Drop(s, n) == SubSeq(s, n + 1, Len(s))

(***************************************************************************)
(* min_length of a list of atoms: <<bounded, length>>; bounded means the   *)
(* minimal length is the exact length.                                     *)
(***************************************************************************)
AtomMin(e) == CASE IsUnit(e) -> 1 [] IsString(e) -> Len(e.s) [] OTHER -> 0
MinLen(es) == LET f[i \in 0..Len(es)] ==
                    IF i = 0 THEN 0 ELSE f[i - 1] + AtomMin(es[i])
              IN f[Len(es)]
Bounded(es) == \A i \in 1..Len(es) : IsUnit(es[i]) \/ IsString(es[i])

VARIABLES
    lhs0, rhs0, \* the flattened inputs (m_lhs, m_rhs) whose hashes reduce_eq keeps
    ls, rs,     \* the lists being reduced
    eqs,        \* new_eqs: the side equations emitted so far
    h1, h2,     \* head1, head2 of reduce_front
    pc,         \* the stage reduce_eq is in
    result      \* "none" while running; then "false", "failed" or "rewrite"

vars == <<lhs0, rhs0, ls, rs, eqs, h1, h2, pc, result>>

Stages == {"flatten", "back", "front", "itos1", "itos2", "clash", "length",
           "subseq", "overlap1", "overlap2", "finish", "done"}

Init ==
    /\ \E in \in Inputs : lhs0 = in[1] /\ rhs0 = in[2]
    /\ ls = lhs0 /\ rs = rhs0
    /\ eqs = <<>>
    /\ h1 = 0 /\ h2 = 0
    /\ pc = "flatten"
    /\ result = "none"

\* A stage returned false: mk_eq_core rewrites the equation to false.
Refute ==
    /\ pc' = "done" /\ result' = "false"

Goto(stage) == pc' = stage /\ UNCHANGED result

(***************************************************************************)
(* remove_empty_and_concats on both sides.                                 *)
(***************************************************************************)
RemoveEmpty(es) == SelectSeq(es, LAMBDA e : ~IsEmpty(e))

Flatten ==
    /\ pc = "flatten"
    /\ ls' = RemoveEmpty(ls) /\ rs' = RemoveEmpty(rs)
    /\ Goto("back")
    /\ UNCHANGED <<lhs0, rhs0, eqs, h1, h2>>

MinOf(a, b) == IF a <= b THEN a ELSE b

\* Some branch of the cancellation loops applies to the last (first) atoms l, r;
\* otherwise the loop breaks.
Cancels(l, r) ==
    \/ l = r
    \/ IsUnit(l) /\ IsUnit(r)
    \/ IsUnit(l) /\ IsString(r)
    \/ IsString(l) /\ IsUnit(r)
    \/ IsString(l) /\ IsString(r)

(***************************************************************************)
(* One iteration of the loop of reduce_back, on the lists L, R after the   *)
(* swap that puts a unit on the left of a string.                          *)
(***************************************************************************)
BackCancel(L, R) ==
    LET l == Last(L)
        r == Last(R)
    IN  \/ /\ l = r
           /\ ls' = Front(L) /\ rs' = Front(R)
           /\ UNCHANGED eqs /\ Goto("back")
        \/ /\ l # r /\ IsUnit(l) /\ IsUnit(r) /\ AreDistinct(l.c, r.c)
           /\ ls' = L /\ rs' = R
           /\ UNCHANGED eqs /\ Refute
        \/ /\ l # r /\ IsUnit(l) /\ IsUnit(r) /\ ~AreDistinct(l.c, r.c)
           /\ eqs' = Append(eqs, ChrEq(l.c, r.c))
           /\ ls' = Front(L) /\ rs' = Front(R)
           /\ Goto("back")
        \/ /\ IsUnit(l) /\ IsString(r)
           /\ eqs' = Append(eqs, ChrEq(Last(r.s), l.c))
           /\ ls' = Front(L)
           /\ rs' = IF Len(r.s) = 1 THEN Front(R)
                    ELSE [R EXCEPT ![Len(R)] = Str(Front(r.s))]
           /\ Goto("back")
        \/ /\ l # r /\ IsString(l) /\ IsString(r)
           /\ LET m == MinOf(Len(l.s), Len(r.s))
                  clash == \E i \in 0..m - 1 : l.s[Len(l.s) - i] # r.s[Len(r.s) - i]
                  Rest(s) == IF m < Len(s) THEN <<Str(SubSeq(s, 1, Len(s) - m))>>
                             ELSE <<>>
              IN  IF clash
                  THEN ls' = L /\ rs' = R /\ UNCHANGED eqs /\ Refute
                  ELSE /\ ls' = Front(L) \o Rest(l.s)
                       /\ rs' = Front(R) \o Rest(r.s)
                       /\ UNCHANGED eqs /\ Goto("back")

BackStep ==
    /\ pc = "back"
    /\ Len(ls) > 0 /\ Len(rs) > 0
    /\ Cancels(Last(ls), Last(rs))
    /\ LET sw == IsUnit(Last(rs)) /\ IsString(Last(ls))
       IN  BackCancel(IF sw THEN rs ELSE ls, IF sw THEN ls ELSE rs)
    /\ UNCHANGED <<lhs0, rhs0, h1, h2>>

BackExit ==
    /\ pc = "back"
    /\ ~(Len(ls) > 0 /\ Len(rs) > 0 /\ Cancels(Last(ls), Last(rs)))
    /\ Goto("front")
    /\ UNCHANGED <<lhs0, rhs0, ls, rs, eqs, h1, h2>>

(***************************************************************************)
(* One iteration of the loop of reduce_front: the heads H1, H2 index the   *)
(* lists L, R (0-based, as head1, head2) after the swap.                   *)
(***************************************************************************)
FrontCancel(L, R, H1, H2) ==
    LET l == L[H1 + 1]
        r == R[H2 + 1]
    IN  \/ /\ l = r
           /\ ls' = L /\ rs' = R /\ h1' = H1 + 1 /\ h2' = H2 + 1
           /\ UNCHANGED eqs /\ Goto("front")
        \/ /\ l # r /\ IsUnit(l) /\ IsUnit(r) /\ AreDistinct(l.c, r.c)
           /\ ls' = L /\ rs' = R /\ h1' = H1 /\ h2' = H2
           /\ UNCHANGED eqs /\ Refute
        \/ /\ l # r /\ IsUnit(l) /\ IsUnit(r) /\ ~AreDistinct(l.c, r.c)
           /\ eqs' = Append(eqs, ChrEq(l.c, r.c))
           /\ ls' = L /\ rs' = R /\ h1' = H1 + 1 /\ h2' = H2 + 1
           /\ Goto("front")
        \/ /\ IsUnit(l) /\ IsString(r)
           /\ eqs' = Append(eqs, ChrEq(r.s[1], l.c))
           /\ ls' = L /\ h1' = H1 + 1
           /\ IF Len(r.s) = 1
              THEN rs' = R /\ h2' = H2 + 1
              ELSE rs' = [R EXCEPT ![H2 + 1] = Str(Tail(r.s))] /\ h2' = H2
           /\ Goto("front")
        \/ /\ l # r /\ IsString(l) /\ IsString(r)
           /\ LET m == MinOf(Len(l.s), Len(r.s))
                  clash == \E i \in 1..m : l.s[i] # r.s[i]
              IN  IF clash
                  THEN /\ ls' = L /\ rs' = R /\ h1' = H1 /\ h2' = H2
                       /\ UNCHANGED eqs /\ Refute
                  ELSE /\ IF m = Len(l.s)
                          THEN ls' = L /\ h1' = H1 + 1
                          ELSE ls' = [L EXCEPT ![H1 + 1] = Str(Drop(l.s, m))] /\ h1' = H1
                       /\ IF m = Len(r.s)
                          THEN rs' = R /\ h2' = H2 + 1
                          ELSE rs' = [R EXCEPT ![H2 + 1] = Str(Drop(r.s, m))] /\ h2' = H2
                       /\ UNCHANGED eqs /\ Goto("front")

FrontStep ==
    /\ pc = "front"
    /\ h1 < Len(ls) /\ h2 < Len(rs)
    /\ Cancels(ls[h1 + 1], rs[h2 + 1])
    /\ LET sw == IsUnit(rs[h2 + 1]) /\ IsString(ls[h1 + 1])
       IN  FrontCancel(IF sw THEN rs ELSE ls, IF sw THEN ls ELSE rs,
                       IF sw THEN h2 ELSE h1, IF sw THEN h1 ELSE h2)
    /\ UNCHANGED <<lhs0, rhs0>>

\* Mutant: the end of reduce_front re-enters the loop instead of the next stage.
FrontExitLoop ==
    /\ pc = "front"
    /\ ~(h1 < Len(ls) /\ h2 < Len(rs) /\ Cancels(ls[h1 + 1], rs[h2 + 1]))
    /\ ls' = Drop(ls, h1) /\ rs' = Drop(rs, h2)
    /\ h1' = 0 /\ h2' = 0
    /\ Goto("front")
    /\ UNCHANGED <<lhs0, rhs0, eqs>>

\* The loop ends; remove_leading drops the cancelled heads.
FrontExit ==
    /\ pc = "front"
    /\ ~(h1 < Len(ls) /\ h2 < Len(rs) /\ Cancels(ls[h1 + 1], rs[h2 + 1]))
    /\ ls' = Drop(ls, h1) /\ rs' = Drop(rs, h2)
    /\ h1' = 0 /\ h2' = 0
    /\ Goto("itos1")
    /\ UNCHANGED <<lhs0, rhs0, eqs>>

(***************************************************************************)
(* reduce_itos(L, R): a single itos(n) against a literal made of strings   *)
(* and value units.  A non-digit or a leading zero refutes; otherwise a    *)
(* non-empty literal s gives n = s (the parse/print round trip of the      *)
(* code accepts exactly the non-empty digit strings without leading zero). *)
(***************************************************************************)
DigitSeq == <<"0", "1", "2", "3", "4", "5", "6", "7", "8", "9">>
DigitChars == {DigitSeq[i] : i \in 1..10}
DigitOf(ch) == CHOOSE d \in 0..9 : DigitSeq[d + 1] = ch

IsStringList(es) == \A i \in 1..Len(es) : IsString(es[i]) \/ IsUnitValue(es[i])
StringOf(es) ==
    LET f[i \in 0..Len(es)] ==
          IF i = 0 THEN <<>>
          ELSE f[i - 1] \o (IF IsString(es[i]) THEN es[i].s ELSE <<es[i].c>>)
    IN  f[Len(es)]
DecValue(s) ==
    LET f[i \in 0..Len(s)] == IF i = 0 THEN 0 ELSE 10 * f[i - 1] + DigitOf(s[i])
    IN  f[Len(s)]

\* Mutant: any literal starting with 0, "0" itself included, is refuted.
LeadingZeroAny(s) == Len(s) > 0 /\ s[1] = "0"
\* A decimal literal of more than one digit starting with 0.
LeadingZero(s) == Len(s) > 1 /\ s[1] = "0"

ReduceItos(L, R, next) ==
    \/ /\ ~(Len(L) = 1 /\ IsItos(L[1]) /\ IsStringList(R))
       /\ UNCHANGED <<ls, rs, eqs>> /\ Goto(next)
    \/ /\ Len(L) = 1 /\ IsItos(L[1]) /\ IsStringList(R)
       /\ LET s == StringOf(R)
          IN  \/ /\ \/ \E i \in 1..Len(s) : s[i] \notin DigitChars
                    \/ LeadingZero(s)
                 /\ UNCHANGED <<ls, rs, eqs>> /\ Refute
              \/ /\ \A i \in 1..Len(s) : s[i] \in DigitChars
                 /\ ~LeadingZero(s)
                 /\ IF s # <<>>
                    THEN /\ eqs' = Append(eqs, IntEq(L[1].n, DecValue(s)))
                         /\ ls' = <<>> /\ rs' = <<>>
                    ELSE UNCHANGED <<ls, rs, eqs>>
                 /\ Goto(next)

Itos1 ==
    /\ pc = "itos1" /\ ReduceItos(ls, rs, "itos2")
    /\ UNCHANGED <<lhs0, rhs0, h1, h2>>

Itos2 ==
    /\ pc = "itos2" /\ ReduceItos(rs, ls, "clash")
    /\ UNCHANGED <<lhs0, rhs0, h1, h2>>

(***************************************************************************)
(* reduce_value_clash: every atom of rs that is not matched by an equal    *)
(* atom of ls (as multisets) is a value unit, and the atoms of ls left     *)
(* over are all value units, at least one: the equation is refuted.        *)
(***************************************************************************)
SeqRange(s) == {s[i] : i \in DOMAIN s}
Count(s, e) == Cardinality({i \in DOMAIN s : s[i] = e})
\* Mutant: the unmatched atoms of R are not required to be value units.
ValueClashNoGuard(L, R) ==
    LET leftover == {e \in SeqRange(L) : Count(L, e) > Count(R, e)}
    IN  /\ L # <<>> /\ R # <<>>
        /\ leftover # {}
        /\ \A e \in leftover : IsUnitValue(e)

ValueClash(L, R) ==
    LET unmatched == {e \in SeqRange(R) : Count(R, e) > Count(L, e)}
        leftover  == {e \in SeqRange(L) : Count(L, e) > Count(R, e)}
    IN  /\ L # <<>> /\ R # <<>>
        /\ \A e \in unmatched : IsUnitValue(e)
        /\ leftover # {}
        /\ \A e \in leftover : IsUnitValue(e)

Clash ==
    /\ pc = "clash"
    /\ IF ValueClash(ls, rs) THEN Refute ELSE Goto("length")
    /\ UNCHANGED <<lhs0, rhs0, ls, rs, eqs, h1, h2>>

(***************************************************************************)
(* reduce_by_length.  set_empty(es, false) equates to empty every atom of  *)
(* minimal length 0 that is not bounded; concat_non_empty keeps the units  *)
(* and strings.                                                            *)
(***************************************************************************)
HasVar(es) == \E i \in 1..Len(es) : AtomMin(es[i]) = 0
SetEmptyEqs(es) ==
    LET zs == SelectSeq(es, LAMBDA e : AtomMin(e) = 0 /\ ~IsString(e))
    IN  [i \in 1..Len(zs) |-> SeqEq(<<>>, <<zs[i]>>)]
ConcatNonEmpty(es) == SelectSeq(es, LAMBDA e : IsUnit(e) \/ IsString(e))

ByLength ==
    /\ pc = "length"
    /\ LET b1 == Bounded(ls)
           b2 == Bounded(rs)
           len1 == MinLen(ls)
           len2 == MinLen(rs)
           Collapse(vs) ==
               /\ eqs' = eqs \o SetEmptyEqs(vs)
                            \o <<SeqEq(ConcatNonEmpty(ls), ConcatNonEmpty(rs))>>
               /\ ls' = <<>> /\ rs' = <<>>
       IN  \/ /\ ls # <<>> \/ rs # <<>>
              /\ (b1 /\ len1 < len2) \/ (b2 /\ len2 < len1)
              /\ UNCHANGED <<ls, rs, eqs>> /\ Refute
           \/ /\ ls # <<>> \/ rs # <<>>
              /\ ~((b1 /\ len1 < len2) \/ (b2 /\ len2 < len1))
              /\ IF b1 /\ len1 = len2 /\ len1 > 0 /\ HasVar(rs) THEN Collapse(rs)
                 ELSE IF b2 /\ len1 = len2 /\ len1 > 0 /\ HasVar(ls) THEN Collapse(ls)
                 ELSE UNCHANGED <<ls, rs, eqs>>
              /\ Goto("subseq")
           \/ /\ ls = <<>> /\ rs = <<>>
              /\ UNCHANGED <<ls, rs, eqs>> /\ Goto("subseq")
    /\ UNCHANGED <<lhs0, rhs0, h1, h2>>

(***************************************************************************)
(* reduce_subsequence.  The lists are first swapped when ls is the         *)
(* longer one, so L (the new ls) is the shorter list.  Then each atom of   *)
(* L is greedily matched, left to right, to the first free position of R   *)
(* holding the same atom or, for a unit, any unit; an atom with no match   *)
(* ends the stage.  When all of L is matched, the unmatched atoms of R     *)
(* must be empty: one of positive minimal length refutes, the others are   *)
(* equated to empty, and L = (the matched atoms of R) is emitted.          *)
(***************************************************************************)
SetMin(S) == CHOOSE x \in S : \A y \in S : x <= y
Matches(L, R) ==
    LET Free(x, used) == {j \in 1..Len(R) : j \notin used /\ (x = R[j] \/ (IsUnit(x) /\ IsUnit(R[j])))}
        rpos[i \in 0..Len(L)] ==
            IF i = 0 THEN {}
            ELSE IF Free(L[i], rpos[i - 1]) = {} THEN rpos[i - 1]
            ELSE rpos[i - 1] \cup {SetMin(Free(L[i], rpos[i - 1]))}
    IN  rpos[Len(L)]
SubList(R, S) ==
    LET f[i \in 0..Len(R)] == IF i = 0 THEN <<>>
                              ELSE f[i - 1] \o (IF i \in S THEN <<R[i]>> ELSE <<>>)
    IN  f[Len(R)]

ReduceSubsequence(L, R) ==
    LET rpos == Matches(L, R)
        unmatched == SubList(R, (1..Len(R)) \ rpos)
    IN  IF \/ Len(L) = Len(R)
           \/ L = <<>> /\ Len(R) = 1
           \/ Cardinality(rpos) < Len(L)
           \/ rpos = 1..Len(R)
        THEN ls' = L /\ rs' = R /\ UNCHANGED eqs /\ Goto("overlap1")
        ELSE IF \E i \in 1..Len(unmatched) : AtomMin(unmatched[i]) > 0
        THEN ls' = L /\ rs' = R /\ UNCHANGED eqs /\ Refute
        ELSE /\ eqs' = eqs \o SetEmptyEqs(unmatched)
                          \o (IF L # <<>> THEN <<SeqEq(L, SubList(R, rpos))>> ELSE <<>>)
             /\ ls' = <<>> /\ rs' = <<>>
             /\ Goto("overlap1")

Subsequence ==
    /\ pc = "subseq"
    /\ IF Len(ls) > Len(rs) THEN ReduceSubsequence(rs, ls) ELSE ReduceSubsequence(ls, rs)
    /\ UNCHANGED <<lhs0, rhs0, h1, h2>>

(***************************************************************************)
(* non_overlap on unit lists (the zstring overload is not reached from     *)
(* reduce_non_overlap, whose lists hold units only).  can_overlap(s1, e1,  *)
(* s2) compares p1[i] with p2[s2 + i] for i in s1..e1-1 and stops at the   *)
(* first pair that is not the same term: it may overlap unless that pair   *)
(* is distinct.  The three loops are those of the code, 0-based.           *)
(***************************************************************************)
CanOverlap(p1, p2, s1, e1, s2) ==
    LET D == {i \in s1..e1 - 1 : p1[i + 1] # p2[s2 + i + 1]}
    IN  D = {} \/ ~AreDistinct(p1[SetMin(D) + 1].c, p2[s2 + SetMin(D) + 1].c)

\* Mutant: the last loop starts one offset late (misses p1 at the end of p2).
NonOverlapLate(p1, p2) ==
    LET sz1 == Len(p1)
        sz2 == Len(p2)
    IN  /\ sz1 # 0 /\ sz2 # 0
        /\ \A i \in 1..sz1 - 1 : ~CanOverlap(p1, p2, i, sz1, 0)
        /\ \A j \in 0..sz2 - sz1 - 1 : ~CanOverlap(p1, p2, 0, sz1, j)
        /\ \A j \in sz2 - sz1 + 1..sz2 - 1 : ~CanOverlap(p1, p2, 0, sz2 - j, j)

NonOverlapOrdered(p1, p2) ==
    LET sz1 == Len(p1)
        sz2 == Len(p2)
    IN  /\ sz1 # 0 /\ sz2 # 0
        /\ \A i \in 1..sz1 - 1 : ~CanOverlap(p1, p2, i, sz1, 0)
        /\ \A j \in 0..sz2 - sz1 - 1 : ~CanOverlap(p1, p2, 0, sz1, j)
        /\ \A j \in sz2 - sz1..sz2 - 1 : ~CanOverlap(p1, p2, 0, sz2 - j, j)

NonOverlap(p1, p2) ==
    IF Len(p1) > Len(p2) THEN NonOverlapOrdered(p2, p1) ELSE NonOverlapOrdered(p1, p2)

(* The three ways p1 and p2 can overlap that the comment above non_overlap *)
(* names.                                                                   *)
\* A proper suffix of p equals a prefix of q.
SuffixIsPrefix(p, q) ==
    \E k \in 1..Len(p) - 1 : k <= Len(q) /\ SubSeq(p, Len(p) - k + 1, Len(p)) = SubSeq(q, 1, k)
\* A proper prefix of p equals a suffix of q.
PrefixIsSuffix(p, q) ==
    \E k \in 1..Len(p) - 1 : k <= Len(q) /\ SubSeq(p, 1, k) = SubSeq(q, Len(q) - k + 1, Len(q))
\* p occurs inside q.
Inside(p, q) == \E j \in 0..Len(q) - Len(p) : SubSeq(q, j + 1, j + Len(p)) = p

(***************************************************************************)
(* reduce_non_overlap(L, R): when R is all units, every maximal run of     *)
(* units in L must occur inside R; a run that cannot overlap R refutes.    *)
(***************************************************************************)
UnitRuns(L) ==
    {run \in (1..Len(L)) \X (1..Len(L)) :
        LET i == run[1]
            j == run[2]
        IN  /\ i <= j
            /\ \A p \in i..j : IsUnit(L[p])
            /\ i = 1 \/ ~IsUnit(L[i - 1])
            /\ j = Len(L) \/ ~IsUnit(L[j + 1])}

OverlapClash(L, R) ==
    /\ \A i \in 1..Len(R) : IsUnit(R[i])
    /\ \E run \in UnitRuns(L) : NonOverlap(SubSeq(L, run[1], run[2]), R)

Overlap1 ==
    /\ pc = "overlap1"
    /\ IF OverlapClash(ls, rs) THEN Refute ELSE Goto("overlap2")
    /\ UNCHANGED <<lhs0, rhs0, ls, rs, eqs, h1, h2>>

Overlap2 ==
    /\ pc = "overlap2"
    /\ IF OverlapClash(rs, ls) THEN Refute ELSE Goto("finish")
    /\ UNCHANGED <<lhs0, rhs0, ls, rs, eqs, h1, h2>>

(***************************************************************************)
(* End of reduce_eq(l, r, ...) and mk_eq_core: change compares the hashes  *)
(* of the lists (and the number of eqs) with those on entry.  Without a    *)
(* change the rewrite fails; otherwise add_seqs emits the residual         *)
(* ls = rs and the equation is rewritten to the conjunction of eqs.        *)
(***************************************************************************)
Changed == ls # lhs0 \/ rs # rhs0 \/ eqs # <<>>

Finish ==
    /\ pc = "finish"
    /\ pc' = "done"
    /\ IF Changed
       THEN /\ eqs' = eqs \o (IF ls # <<>> \/ rs # <<>> THEN <<SeqEq(ls, rs)>> ELSE <<>>)
            /\ result' = "rewrite"
       ELSE UNCHANGED eqs /\ result' = "failed"
    /\ UNCHANGED <<lhs0, rhs0, ls, rs, h1, h2>>

Next ==
    \/ Flatten
    \/ BackStep \/ BackExit
    \/ FrontStep \/ FrontExit
    \/ Itos1 \/ Itos2
    \/ Clash
    \/ ByLength
    \/ Subsequence
    \/ Overlap1 \/ Overlap2
    \/ Finish

(***************************************************************************)
(* reduce_eq is a sequential function that runs to its end once called:    *)
(* weak fairness of its steps.  Once done, the reducer stops.              *)
(***************************************************************************)
Spec == Init /\ [][Next]_vars /\ WF_vars(Next)

-----------------------------------------------------------------------------
\* A list of units, the only lists non_overlap compares atom by atom.
UnitList(es) == \A i \in 1..Len(es) : IsUnit(es[i])

\* The half of the contract the loops of non_overlap keep: when it returns
\* true for |p1| <= |p2|, p1 is not inside p2 and no proper prefix of p1 is
\* a suffix of p2.
NonOverlapDetects(p1, p2) ==
    (Len(p1) <= Len(p2) /\ NonOverlap(p1, p2)) =>
        ~(PrefixIsSuffix(p1, p2) \/ Inside(p1, p2))

(***************************************************************************)
(* What reduce_non_overlap relies on (a run of units of L that cannot      *)
(* overlap R refutes L = R): on unit lists, non_overlap(p1, p2) returns    *)
(* true only if p1 occurs nowhere in p2, not even at the last offset        *)
(* sz2 - sz1, and no proper prefix of p1 ends p2.  It fails if one of the  *)
(* second and third loops of non_overlap misses an offset.                 *)
(***************************************************************************)
NonOverlapSound ==
    UnitList(lhs0) /\ UnitList(rhs0) => NonOverlapDetects(lhs0, rhs0)
=============================================================================
