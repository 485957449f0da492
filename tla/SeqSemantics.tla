---------------------------- MODULE SeqSemantics ----------------------------
(***************************************************************************)
(* The meaning of the terms of SeqTerms under an assignment of the         *)
(* variables: the reference the rewrites are checked against.  extract,    *)
(* at and the ite follow the SMT-LIB theory of strings.                    *)
(***************************************************************************)
EXTENDS SeqTerms

CONSTANTS SeqVals, IntVals   \* the values the variables range over

Asg == [chr : [CharVars -> Chars], seq : [SeqVars -> SeqVals], int : [IntVars -> IntVals]]

\* str.substr(s, i, n): empty unless 0 <= i < |s| and n > 0.
Substr(s, i, n) ==
    IF i < 0 \/ n <= 0 \/ i >= Len(s) THEN <<>>
    ELSE SubSeq(s, i + 1, Min2(i + n, Len(s)))

\* str.contains(s, t).
Inside(t, s) == \E i \in 0..Len(s) - Len(t) : SubSeq(s, i + 1, i + Len(t)) = t

\* str.replace_all(s, p, t): every occurrence of a non-empty p, left to
\* right and not overlapping, replaced by t; s itself when p is empty.
RECURSIVE ReplaceAllSem(_, _, _)
ReplaceAllSem(s, p, t) ==
    IF p = <<>> \/ Len(s) < Len(p) THEN s
    ELSE IF SubSeq(s, 1, Len(p)) = p THEN t \o ReplaceAllSem(SubSeq(s, Len(p) + 1, Len(s)), p, t)
    ELSE <<s[1]>> \o ReplaceAllSem(Tail(s), p, t)

\* str.to_int(s): the decimal value of a non-empty string of digits, -1
\* for any other string.  str.from_int(i): the decimal digits of i >= 0,
\* the empty string for i < 0.
StrToInt(s) == IF s # <<>> /\ \A i \in 1..Len(s) : s[i] \in Digits THEN Decimal(s) ELSE -1
StrFromInt(i) == IF i < 0 THEN <<>> ELSE CHOOSE s \in [1..Len(ZItos(i)) -> Digits] : Decimal(s) = i

RECURSIVE SVal(_, _), IVal(_, _), BVal(_, _)
SVal(e, g) ==
    CASE e.k = "unit" -> <<IF e.c \in CharVars THEN g.chr[e.c] ELSE e.c>>
      [] e.k = "str"  -> e.s
      [] e.k = "var"  -> g.seq[e.x]
      [] e.k = "cat"  -> LET f[i \in 0..Len(e.es)] ==
                                IF i = 0 THEN <<>> ELSE f[i - 1] \o SVal(e.es[i], g)
                         IN  f[Len(e.es)]
      [] e.k = "ext"  -> Substr(SVal(e.s, g), IVal(e.i, g), IVal(e.n, g))
      [] e.k = "at"   -> Substr(SVal(e.s, g), IVal(e.i, g), 1)
      [] e.k = "ite"  -> IF IVal(e.l, g) >= e.v THEN SVal(e.th, g) ELSE SVal(e.el, g)
      [] e.k = "rep"  -> ZReplace(SVal(e.s, g), SVal(e.p, g), SVal(e.t, g))
      [] e.k = "site" -> IF BVal(e.c, g) THEN SVal(e.th, g) ELSE SVal(e.el, g)
      [] e.k = "itos" -> StrFromInt(IVal(e.i, g))
IVal(e, g) ==
    CASE e.k = "num"  -> e.v
      [] e.k = "len"  -> Len(SVal(e.s, g))
      [] e.k = "add"  -> LET f[i \in 0..Len(e.es)] ==
                                IF i = 0 THEN 0 ELSE f[i - 1] + IVal(e.es[i], g)
                         IN  f[Len(e.es)]
      [] e.k = "sub"  -> IVal(e.a, g) - IVal(e.b, g)
      [] e.k = "mul"  -> IVal(e.es[1], g) * IVal(e.es[2], g)
      [] e.k = "ivar" -> g.int[e.n]
      [] e.k = "iite" -> IF BVal(e.c, g) THEN IVal(e.th, g) ELSE IVal(e.el, g)
      [] e.k = "index" -> IndexOfu(SVal(e.s, g), SVal(e.t, g), IVal(e.i, g))
      [] e.k = "stoi" -> StrToInt(SVal(e.s, g))
BVal(e, g) ==
    CASE e.k = "bool"     -> e.v
      [] e.k = "eq"       -> SVal(e.s, g) = SVal(e.t, g)
      [] e.k = "prefix"   -> IsPrefixSeq(SVal(e.s, g), SVal(e.t, g))
      [] e.k = "suffix"   -> IsSuffixSeq(SVal(e.s, g), SVal(e.t, g))
      [] e.k = "contains" -> Inside(SVal(e.t, g), SVal(e.s, g))
      [] e.k = "and"      -> \A i \in 1..Len(e.es) : BVal(e.es[i], g)
      [] e.k = "or"       -> \E i \in 1..Len(e.es) : BVal(e.es[i], g)
      [] e.k = "le"       -> IVal(e.s, g) <= IVal(e.t, g)
      [] e.k = "ieq"      -> IVal(e.s, g) = IVal(e.t, g)
=============================================================================
