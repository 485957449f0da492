-------------------------- MODULE MC_SeqPredicate --------------------------
(***************************************************************************)
(* mk_seq_prefix and mk_seq_suffix on every pair of a few terms: literals  *)
(* (empty, one and two characters), a constant and a variable unit, two    *)
(* variables, concatenations that start or end with a literal or a unit,   *)
(* an at (bounded length) and replace(x, y, x).  mk_seq_contains on every  *)
(* pair of a subject and a pattern: literals, constant and variable units, *)
(* variables, their concatenations, an extract of x, and replaces of one   *)
(* character by another, alone, inside a concatenation and under an       *)
(* extract (for reduce_by_char).                                           *)
(***************************************************************************)
EXTENDS SeqPredicate, SeqSemantics, TLC

CONSTANTS x, y, cv

\* Strings of length at most 2, so that a prefix can be proper.
MCSeqVals == UNION {[1..k -> Chars] : k \in 0..2}
MCIntVals == {0}

X == Var(x)
Y == Var(y)
Terms ==
    {Empty, Str(<<"a">>), Str(<<"a", "b">>), Str(<<"b", "a">>), Unit("a"), Unit(cv), X, Y,
     Cat(<<Str(<<"a">>), X>>), Cat(<<Str(<<"a", "b">>), Y>>), Cat(<<X, Str(<<"b">>)>>),
     Cat(<<Unit(cv), X>>), Cat(<<X, Unit("a")>>), Cat(<<X, Y>>),
     At(X, Num(0)), Rep(X, Y, X)}
MCPrefixInputs == Terms \X Terms
RepAB == Rep(X, Unit("a"), Unit("b"))
Subjects ==
    {Str(<<"a", "b">>), X, Cat(<<Unit("a"), X>>), Cat(<<X, Unit("b")>>),
     Cat(<<Unit("a"), Unit(cv)>>), Cat(<<Unit("a"), Unit("b"), Unit("a")>>),
     Cat(<<Unit("b"), X, Unit("a")>>), Cat(<<X, Y>>),
     RepAB, Cat(<<RepAB, Unit("a")>>), Ext(RepAB, Num(0), Num(1))}
Patterns ==
    {Empty, Str(<<"a">>), Str(<<"a", "b">>), Unit("a"), Unit("c"), Unit(cv), X, Y,
     Cat(<<Unit("a"), Y>>), Cat(<<Unit("c"), Y>>), Cat(<<Unit(cv), Unit("a")>>),
     Str(<<"a", "b", "a">>), Ext(X, Num(0), Num(1))}
MCContainsInputs == Subjects \X Patterns

\* str.prefixof(a, b), str.suffixof(a, b) or str.contains(a, b), by the theory.
Holds(g) ==
    CASE op = "prefix" -> IsPrefixSeq(SVal(a, g), SVal(b, g))
      [] op = "suffix" -> IsSuffixSeq(SVal(a, g), SVal(b, g))
      [] OTHER         -> Inside(SVal(b, g), SVal(a, g))

-----------------------------------------------------------------------------
(***************************************************************************)
(* Soundness of mk_seq_prefix, mk_seq_suffix and mk_seq_contains: whenever *)
(* they rewrite, the result is true under exactly the assignments under    *)
(* which a is a prefix (suffix) of b, or b occurs in a.  Breaking it takes *)
(* a unit walk that stops one atom off, a residual built from the wrong    *)
(* atoms, an emptiness test left out, a dropped atom that could hold part  *)
(* of b, or a refuting value test that meets a non-value.                  *)
(***************************************************************************)
PredicateSound ==
    status = "rewrite" => \A g \in Asg : BVal(result, g) = Holds(g)
=============================================================================
