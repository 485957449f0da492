--------------------------- MODULE MC_SeqFunctions ---------------------------
(***************************************************************************)
(* The rewrites of the string functions with integer arguments or results *)
(* on one run: mk_seq_index, mk_seq_at and mk_seq_last_index (module       *)
(* SeqPosition) and mk_str_stoi and mk_str_itos (module SeqStoi).  A call  *)
(* of any of them is one rewrite; stoi and itos leave b and c alone.       *)
(*                                                                         *)
(* mk_seq_index on subjects a, patterns b and offsets c: literals, units, *)
(* variables, concatenations, an extract of x with a numeral length and a *)
(* concatenation holding a replace of one character by another (for      *)
(* reduce_by_char); offsets are numerals -1, 0, 1 and 3, an integer       *)
(* variable and len(x).  mk_seq_at on subjects that also include an       *)
(* extract from 0 and an at, with offsets that are sums of numerals and   *)
(* lengths; mk_seq_last_index on pairs of literals and variables.          *)
(* mk_str_stoi on literals (digits, leading zero, a non-digit), units of  *)
(* a digit, of a letter and of a character variable, variables and their *)
(* concatenations, an itos and both kinds of ite; mk_str_itos on          *)
(* numerals, an integer variable and stoi of strings of bounded and of    *)
(* unbounded length.                                                      *)
(***************************************************************************)
EXTENDS SeqSemantics, TLC

CONSTANTS x, y, cv, n,
          IndexInputs, AtInputs, LastIndexInputs, StoiInputs, ItosInputs

VARIABLES op, a, b, c, status, result
vars == <<op, a, b, c, status, result>>

Pos == INSTANCE SeqPosition
Sto == INSTANCE SeqStoi

Init == Pos!Init \/ (Sto!Init /\ b = Num(0) /\ c = Num(0))
Next == Pos!Next \/ (Sto!Next /\ UNCHANGED <<b, c>>)
Spec == Init /\ [][Next]_vars /\ WF_vars(Next)

\* Strings of length at most 2 over the letters, and over the digits and a.
MCSeqVals == UNION {[1..k -> {"a", "b", "c"}] : k \in 0..2}
             \cup UNION {[1..k -> {"0", "1", "a"}] : k \in 0..2}
MCIntVals == -1..3

X  == Var(x)
Y  == Var(y)
ua == Unit("a")
ub == Unit("b")
Subjects ==
    {Empty, Str(<<"a", "b">>), X, Cat(<<ua, X>>), Cat(<<ua, ub, X>>),
     Cat(<<ua, Unit(cv)>>), Cat(<<X, Y>>), Ext(X, Num(0), Num(2)),
     Cat(<<Rep(X, Unit("a"), Unit("b")), Y>>)}
Patterns ==
    {Empty, Str(<<"b">>), Str(<<"a", "b">>), Unit("a"), Unit("c"), Unit(cv), X, Y,
     Cat(<<Unit("a"), Unit(cv)>>), Cat(<<Y, X>>), Cat(<<Unit(cv), X>>)}
Offsets == {Num(-1), Num(0), Num(1), Num(3), IVar(n), Length(X)}
MCIndexInputs == Subjects \X Patterns \X Offsets
AtSubjects ==
    {Empty, Str(<<"a", "b">>), X, Cat(<<ua, X>>), Cat(<<X, ub>>), Cat(<<ua, X, ub>>),
     Cat(<<X, Y, ua>>), Cat(<<Unit(cv), ua>>), Ext(X, Num(0), Num(2)), At(X, IVar(n))}
AtOffsets ==
    {Num(-1), Num(0), Num(1), Num(2), IVar(n), Length(X), Add(<<Num(1), Length(X)>>),
     Add(<<Num(-1), Length(X)>>), Add(<<Length(X), Length(Y)>>)}
MCAtInputs == AtSubjects \X AtOffsets
MCLastIndexInputs == {Empty, Str(<<"a">>), Str(<<"a", "b">>), X} \X {Empty, Str(<<"a">>), X}
MCStoiInputs ==
    {Empty, Str(<<"0", "1">>), Str(<<"1", "0">>), Str(<<"1", "a">>), Unit("1"), Unit("a"),
     X, Unit(cv), Cat(<<X, Unit(cv)>>), Cat(<<X, Unit("1")>>), Cat(<<Unit("0"), X>>),
     Cat(<<Unit("1"), X>>), Cat(<<Unit("0"), Unit("0"), X>>), Cat(<<Unit("0"), Unit(cv)>>),
     Itos(IVar(n)), Ite(IVar(n), 1, Str(<<"1">>), X), SIte(IsEmptyT(X), Str(<<"0">>), X),
     Str(<<"0">>), Str(<<"a">>), Str(<<"0", "0">>), Str(<<"0", "a">>), Unit("0"), Unit("9"),
     Cat(<<X, Y>>), Cat(<<Y, Unit("0")>>), Cat(<<Unit("0"), Unit("1")>>), Cat(<<Unit(cv), X>>),
     Cat(<<Unit("a"), X>>), Cat(<<Str(<<"0">>), X>>), Cat(<<Unit("1"), Unit("0"), Unit("1")>>),
     Ext(X, Num(0), Num(1)), At(X, Num(0)), Ite(IVar(n), 0, Empty, Str(<<"1">>)),
     SIte(Eq(X, Y), Unit("1"), Empty), Itos(Num(3)), Itos(Length(X))}
MCItosInputs ==
    {Num(-1), Num(0), Num(12), IVar(n), Stoi(X), Stoi(Unit(cv)), Stoi(Ext(X, Num(0), Num(1))),
     Stoi(Cat(<<X, Y>>)), Num(1), Num(9), Num(10), Num(-7), Stoi(Y), Stoi(Empty),
     Stoi(Unit("1")), Stoi(Str(<<"0", "7">>)), Stoi(Str(<<"a">>)), Stoi(Itos(IVar(n))),
     Length(X), Add(<<IVar(n), Num(1)>>), Stoi(At(X, IVar(n)))}

-----------------------------------------------------------------------------
\* str.last_indexof(s, t): the last position at which t occurs in s, -1
\* when it does not occur (|s| for an empty t).
LastIndexSem(s, t) ==
    IF \A i \in 0..Len(s) : ~IsPrefixSeq(t, SubSeq(s, i + 1, Len(s))) THEN -1
    ELSE CHOOSE i \in 0..Len(s) : /\ IsPrefixSeq(t, SubSeq(s, i + 1, Len(s)))
                                  /\ \A j \in i + 1..Len(s) : ~IsPrefixSeq(t, SubSeq(s, j + 1, Len(s)))

(***************************************************************************)
(* Soundness of the positional rewrites: whenever mk_seq_index, mk_seq_at *)
(* or mk_seq_last_index rewrites, the result denotes, under every          *)
(* assignment, the first position of b in a at or after c, the character  *)
(* of a at b (empty out of range), or the last position of b in a.        *)
(* Breaking it takes a shift by the skipped units that is off by one, an  *)
(* empty pattern treated like a non-empty one, a length comparison that   *)
(* counts a shared atom as foreign, or an at walk that answers a unit     *)
(* while lengths of the offset are still owed.                            *)
(***************************************************************************)
PositionSound ==
    status = "rewrite" /\ op \in {"index", "at", "last_index"} =>
        \A g \in Asg :
            CASE op = "index" -> IVal(result, g) = IndexOfu(SVal(a, g), SVal(b, g), IVal(c, g))
              [] op = "at"    -> SVal(result, g) = Substr(SVal(a, g), IVal(b, g), 1)
              [] OTHER        -> IVal(result, g) = LastIndexSem(SVal(a, g), SVal(b, g))
(***************************************************************************)
(* Soundness of mk_str_stoi and mk_str_itos: whenever one of them          *)
(* rewrites, the result denotes, under every assignment, str.to_int of a  *)
(* (the decimal value of a non-empty digit string, -1 otherwise) or       *)
(* str.from_int of a.  Breaking it takes a digit walk that loses a        *)
(* leading zero's meaning, lets a non-digit tail through as a digit, or   *)
(* treats the empty head as the number 0.                                 *)
(***************************************************************************)
StoiSound ==
    status = "rewrite" /\ op \in {"stoi", "itos"} =>
        \A g \in Asg :
            IF op = "stoi" THEN IVal(result, g) = StrToInt(SVal(a, g))
            ELSE SVal(result, g) = StrFromInt(IVal(a, g))

(***************************************************************************)
(* Progress of the stoi walk: a rewrite of stoi(a) does not return a term *)
(* that, once the rewriter decides the ite on "" = "", is stoi(a) again.   *)
(* The host re-applies the rules to a result until none applies, so such  *)
(* a rewrite makes no progress on a character the walk cannot fold.       *)
(***************************************************************************)
Decided(t) == IF t.k = "iite" /\ t.c = IsEmptyT(Empty) THEN t.th ELSE t
StoiProgress ==
    status = "rewrite" /\ op = "stoi" => Decided(result) # Stoi(a)
=============================================================================
