------------------------------ MODULE SeqTerms ------------------------------
(***************************************************************************)
(* The terms the string rewrites of seq_rewriter take apart and build, and *)
(* the analyses on them the rewrites share: min_length, max_length,        *)
(* get_lengths, sign_is_determined, get_concat_units and mk_concat.        *)
(*                                                                         *)
(* Terms are hash-consed in z3, so term identity (==) is equality of the   *)
(* records.  Sequence terms: a unit of a character constant or variable,   *)
(* a literal, a sequence variable, a concatenation of two or more terms,   *)
(* an extract, an at and an ite on an integer comparison.  Integer terms:  *)
(* a numeral, the length of a sequence term, a sum, a difference, a        *)
(* product and an integer variable, in the arithmetic normal form the      *)
(* arithmetic rewriter leaves them in (x - k is a sum with -k).            *)
(***************************************************************************)
EXTENDS Integers, Sequences

CONSTANTS
    Chars,      \* character constants
    CharVars,   \* character variables
    SeqVars,    \* sequence variables
    IntVars     \* integer variables

Unit(c)        == [k |-> "unit", c |-> c]
Str(s)         == [k |-> "str", s |-> s]
Var(x)         == [k |-> "var", x |-> x]
Cat(es)        == [k |-> "cat", es |-> es]
Ext(s, i, n)   == [k |-> "ext", s |-> s, i |-> i, n |-> n]
At(s, i)       == [k |-> "at", s |-> s, i |-> i]
Ite(l, v, t, e) == [k |-> "ite", l |-> l, v |-> v, th |-> t, el |-> e]
Rep(s, p, t)   == [k |-> "rep", s |-> s, p |-> p, t |-> t]
Itos(i)        == [k |-> "itos", i |-> i]
\* An ite on a Boolean condition, of sequences.
SIte(c, t, e)  == [k |-> "site", c |-> c, th |-> t, el |-> e]
Empty          == Str(<<>>)

Num(v)     == [k |-> "num", v |-> v]
Length(s)  == [k |-> "len", s |-> s]
Add(es)    == [k |-> "add", es |-> es]
Sub(a, b)  == [k |-> "sub", a |-> a, b |-> b]
Mul(f, e)  == [k |-> "mul", es |-> <<f, e>>]
IVar(n)    == [k |-> "ivar", n |-> n]
Stoi(s)    == [k |-> "stoi", s |-> s]

(* Boolean terms, the results of the predicates' rewrites. *)
BoolVal(v)     == [k |-> "bool", v |-> v]
Eq(s, t)       == [k |-> "eq", s |-> s, t |-> t]
PrefixOf(s, t) == [k |-> "prefix", s |-> s, t |-> t]
SuffixOf(s, t) == [k |-> "suffix", s |-> s, t |-> t]
Contains(s, t) == [k |-> "contains", s |-> s, t |-> t]
Le(i, j)       == [k |-> "le", s |-> i, t |-> j]
IEq(i, j)      == [k |-> "ieq", s |-> i, t |-> j]
\* Integer terms over Boolean ones: an ite and str.indexof.
IIte(c, t, e)  == [k |-> "iite", c |-> c, th |-> t, el |-> e]
Index(s, t, i) == [k |-> "index", s |-> s, t |-> t, i |-> i]
\* str().mk_is_empty(s): the equation s = empty.
IsEmptyT(s)    == Eq(s, Empty)
\* mk_and and mk_or: the unit for no argument, the argument itself for one.
MkAnd(es) == IF es = <<>> THEN BoolVal(TRUE) ELSE IF Len(es) = 1 THEN es[1]
             ELSE [k |-> "and", es |-> es]
MkOr(es)  == IF es = <<>> THEN BoolVal(FALSE) ELSE IF Len(es) = 1 THEN es[1]
             ELSE [k |-> "or", es |-> es]

IsUnit(e)  == e.k = "unit"
IsStr(e)   == e.k = "str"
\* m().is_value on the atoms of get_concat_units: a unit of a constant.
IsValue(e) == IsUnit(e) /\ e.c \in Chars
IsNum(e)   == e.k = "num"
\* rational::is_unsigned for the small numerals of the model.
IsUnsignedNum(e) == IsNum(e) /\ e.v >= 0

Min2(a, b) == IF a <= b THEN a ELSE b
\* zstring::prefixof and suffixof.
IsPrefixSeq(s, t) == Len(s) <= Len(t) /\ SubSeq(t, 1, Len(s)) = s
IsSuffixSeq(s, t) == Len(s) <= Len(t) /\ SubSeq(t, Len(t) - Len(s) + 1, Len(t)) = s
Rev(s) == [i \in 1..Len(s) |-> s[Len(s) + 1 - i]]
\* zstring::indexofu(t, i), as str.indexof: the first occurrence of t in s
\* at or after i (i itself for an empty t), -1 when none or i > |s|.
IndexOfu(s, t, i) ==
    LET occ == {j \in i..Len(s) - Len(t) : SubSeq(s, j + 1, j + Len(t)) = t}
    IN  IF i < 0 \/ i > Len(s) \/ occ = {} THEN -1
        ELSE CHOOSE j \in occ : \A l \in occ : j <= l
\* The decimal digits, DigitStr[d + 1] for the digit d.
DigitStr == <<"0", "1", "2", "3", "4", "5", "6", "7", "8", "9">>
Digits   == {DigitStr[i] : i \in 1..10}
DigitVal(ch) == CHOOSE d \in 0..9 : DigitStr[d + 1] = ch

\* The number a string of digits denotes in decimal, leading zeros allowed.
Decimal(s) ==
    LET f[i \in 0..Len(s)] == IF i = 0 THEN 0 ELSE 10 * f[i - 1] + DigitVal(s[i])
    IN  f[Len(s)]

\* zstring(r) for a natural r: its decimal digits, without leading zeros.
ZItos(r) ==
    LET f[v \in 0..r] == IF v < 10 THEN <<DigitStr[v + 1]>>
                        ELSE f[v \div 10] \o <<DigitStr[(v % 10) + 1]>>
    IN  f[r]

\* zstring::replace(p, t), as str.replace: the first occurrence of p
\* replaced by t; t ++ s when p is empty.
ZReplace(s, p, t) ==
    LET i == IndexOfu(s, p, 0)
    IN  IF i < 0 THEN s ELSE SubSeq(s, 1, i) \o t \o SubSeq(s, i + Len(p) + 1, Len(s))
Take(s, n) == SubSeq(s, 1, n)
DropN(s, n) == SubSeq(s, n + 1, Len(s))

\* str().mk_concat(n, es, srt): empty for no term, the term itself for one.
MkConcat(es) == IF es = <<>> THEN Empty ELSE IF Len(es) = 1 THEN es[1] ELSE Cat(es)

\* seq_util::str::get_concat_units: the atoms of a concatenation, with
\* every literal split into the units of its characters.
RECURSIVE Units(_)
Units(e) ==
    CASE e.k = "cat" -> LET f[i \in 0..Len(e.es)] ==
                                IF i = 0 THEN <<>> ELSE f[i - 1] \o Units(e.es[i])
                        IN  f[Len(e.es)]
      [] e.k = "str" -> [i \in 1..Len(e.s) |-> Unit(e.s[i])]
      [] OTHER       -> <<e>>

\* seq_util::str::get_concat: the arguments of nested concatenations, in
\* order, with literals kept whole and empty ones left out.
RECURSIVE Atoms(_)
Atoms(e) ==
    CASE e.k = "cat" -> LET f[i \in 0..Len(e.es)] ==
                                IF i = 0 THEN <<>> ELSE f[i - 1] \o Atoms(e.es[i])
                        IN  f[Len(e.es)]
      [] e = Empty   -> <<>>
      [] OTHER       -> <<e>>

\* seq_util::str::get_leftmost_concat: the first argument, down nested
\* concatenations.
RECURSIVE Leftmost(_)
Leftmost(e) == IF e.k = "cat" THEN Leftmost(e.es[1]) ELSE e

\* ast_manager::are_distinct on the atoms of get_concat_units: two units of
\* different character constants (values).
AreDistinct(u, v) == IsValue(u) /\ IsValue(v) /\ u.c # v.c

(***************************************************************************)
(* min_length(e): (bounded, n) where n is a lower bound of the length and  *)
(* bounded says it is exact.  An ite is bounded when both branches are,    *)
(* with the same length; any other term is (false, 0).                     *)
(***************************************************************************)
RECURSIVE MinLength(_)
MinLength(e) ==
    CASE e.k = "unit" -> <<TRUE, 1>>
      [] e.k = "str"  -> <<TRUE, Len(e.s)>>
      [] e.k = "cat"  -> LET f[i \in 0..Len(e.es)] ==
                                IF i = 0 THEN <<TRUE, 0>>
                                ELSE LET r == MinLength(e.es[i])
                                     IN  <<f[i - 1][1] /\ r[1], f[i - 1][2] + r[2]>>
                         IN  f[Len(e.es)]
      [] e.k = "ite"  -> LET r1 == MinLength(e.th)
                             r2 == MinLength(e.el)
                         IN  <<r1[1] /\ r2[1] /\ r1[2] = r2[2], Min2(r1[2], r2[2])>>
      [] OTHER        -> <<FALSE, 0>>
MinLengthList(es) == MinLength(Cat(es))

(***************************************************************************)
(* max_length(e): (bounded, n), n an upper bound of the length when        *)
(* bounded.  An extract whose length is a non-negative numeral l counts l. *)
(***************************************************************************)
RECURSIVE MaxLength(_)
MaxLength(e) ==
    CASE e.k \in {"unit", "at"} -> <<TRUE, 1>>
      [] e.k = "str"            -> <<TRUE, Len(e.s)>>
      [] e.k = "ext" /\ IsNum(e.n) /\ e.n.v >= 0 -> <<TRUE, e.n.v>>
      [] e.k = "cat"            ->
            LET f[i \in 0..Len(e.es)] ==
                    IF i = 0 THEN <<TRUE, 0>>
                    ELSE LET r == MaxLength(e.es[i])
                         IN  <<f[i - 1][1] /\ r[1], f[i - 1][2] + r[2]>>
            IN  f[Len(e.es)]
      [] OTHER                  -> <<FALSE, 0>>

(***************************************************************************)
(* get_lengths(e, lens, pos): e is a sum of numerals, lengths len(t) and   *)
(* products k * len(t) with 0 <= k <= 10; returns (ok, lens, pos) with the *)
(* t's (with multiplicity) and the sum of the numerals.                    *)
(***************************************************************************)
RECURSIVE GetLengths(_)
GetLengths(e) ==
    CASE e.k = "add" ->
            LET f[i \in 0..Len(e.es)] ==
                    IF i = 0 THEN <<TRUE, <<>>, 0>>
                    ELSE LET r == GetLengths(e.es[i])
                         IN  <<f[i - 1][1] /\ r[1], f[i - 1][2] \o r[2], f[i - 1][3] + r[3]>>
            IN  f[Len(e.es)]
      [] e.k = "len" -> <<TRUE, <<e.s>>, 0>>
      [] e.k = "mul" /\ IsNum(e.es[1]) /\ e.es[2].k = "len"
                     /\ 0 <= e.es[1].v /\ e.es[1].v <= 10 ->
            <<TRUE, [i \in 1..e.es[1].v |-> e.es[2].s], 0>>
      [] e.k = "num" -> <<TRUE, <<>>, e.v>>
      [] OTHER       -> <<FALSE, <<>>, 0>>

\* expr_ref_vector::contains and erase (the first occurrence).
InSeq(t, s) == \E i \in 1..Len(s) : s[i] = t
Erase(s, t) ==
    LET i == CHOOSE j \in 1..Len(s) : s[j] = t /\ \A k \in 1..j - 1 : s[k] # t
    IN  SubSeq(s, 1, i - 1) \o SubSeq(s, i + 1, Len(s))

\* Mutant: the bound n is not checked; every leading unit is counted.
LeadUnitsUnbounded(s, n) ==
    LET k == {i \in 0..Len(s) : \A j \in 1..i : IsUnit(s[j])}
    IN  CHOOSE i \in k : \A j \in k : j <= i

\* The number of leading units of s, at most n (n >= 0).
LeadUnits(s, n) ==
    LET k == {i \in 0..Min2(n, Len(s)) : \A j \in 1..i : IsUnit(s[j])}
    IN  CHOOSE i \in k : \A j \in k : j <= i

\* mk_len(p, xs): p + len(x1) + ... + len(xn).
MkLen(p, xs) == Add(<<Num(p)>> \o [i \in 1..Len(xs) |-> Length(xs[i])])

(***************************************************************************)
(* sign_is_determined(e, s): "pos", "neg" or "zero", or "undet" when the   *)
(* sign is not determined.  A sum needs all non-zero summands of one sign; *)
(* a product multiplies the signs and is zero at a zero factor; a length   *)
(* counts as positive.                                                     *)
(***************************************************************************)
RECURSIVE SignOf(_)
SignOf(e) ==
    CASE e.k = "add" ->
            LET f[i \in 0..Len(e.es)] ==
                    IF i = 0 THEN "zero"
                    ELSE LET s == f[i - 1]
                             s1 == SignOf(e.es[i])
                         IN  CASE s = "undet" \/ s1 = "undet" -> "undet"
                               [] s = "zero"                  -> s1
                               [] s1 = "zero"                 -> s
                               [] s1 # s                      -> "undet"
                               [] OTHER                       -> s
            IN  f[Len(e.es)]
      [] e.k = "mul" ->
            LET f[i \in 0..Len(e.es)] ==
                    IF i = 0 THEN <<"zero", FALSE>>    \* (sign, returned zero)
                    ELSE LET s == f[i - 1][1]
                             s1 == SignOf(e.es[i])
                         IN  CASE f[i - 1][2]                  -> f[i - 1]
                               [] s = "undet" \/ s1 = "undet" -> <<"undet", FALSE>>
                               [] s1 = "zero"                 -> <<"zero", TRUE>>
                               [] s = "zero"                  -> <<s1, FALSE>>
                               [] s # s1                      -> <<"neg", FALSE>>
                               [] OTHER                       -> <<"pos", FALSE>>
            IN  f[Len(e.es)][1]
      [] e.k = "len" -> "pos"
      [] e.k = "num" -> IF e.v > 0 THEN "pos" ELSE IF e.v < 0 THEN "neg" ELSE "zero"
      [] OTHER       -> "undet"

(***************************************************************************)
(* reduce_by_char(r, ch, depth): with ch a unit value, a replace of a unit *)
(* value by a unit value, both different from ch, is replaced by its      *)
(* subject, inside concatenations and extract subjects up to depth        *)
(* levels.  Returns (reduced, r').  Concatenations are n-ary here, binary *)
(* in z3: a level of Cat is one level of the depth.                       *)
(***************************************************************************)
RECURSIVE ReduceByChar(_, _, _)
ReduceByChar(r, ch, depth) ==
    CASE /\ r.k = "rep" /\ IsValue(r.p) /\ IsValue(r.t)
         /\ ch # r.p /\ ch # r.t ->
            <<TRUE, IF depth > 0 THEN ReduceByChar(r.s, ch, depth - 1)[2] ELSE r.s>>
      [] depth > 0 /\ r.k = "cat" ->
            LET rs == [i \in 1..Len(r.es) |-> ReduceByChar(r.es[i], ch, depth - 1)]
                reduced == \E i \in 1..Len(r.es) : rs[i][1]
            IN  <<reduced, IF reduced THEN MkConcat([i \in 1..Len(r.es) |-> rs[i][2]]) ELSE r>>
      [] depth > 0 /\ r.k = "ext" /\ ReduceByChar(r.s, ch, depth - 1)[1] ->
            <<TRUE, Ext(ReduceByChar(r.s, ch, depth - 1)[2], r.i, r.n)>>
      [] OTHER -> <<FALSE, r>>
=============================================================================
