---------------------------- MODULE MC_SeqReplace ----------------------------
(***************************************************************************)
(* mk_seq_replace and mk_seq_replace_all on subjects a, patterns b and    *)
(* replacements c: literals, units, variables and concatenations of them, *)
(* chosen so that every case of both rewrites is reached, the unit loop   *)
(* included (a stop at a variable, a match running past the end of a, a  *)
(* match inside a).                                                        *)
(***************************************************************************)
EXTENDS SeqReplace, SeqSemantics, TLC

CONSTANTS x, y, cv

\* Strings of length at most 2 over the characters.
MCSeqVals == UNION {[1..k -> Chars] : k \in 0..2}

X  == Var(x)
Y  == Var(y)
ua == Unit("a")
ub == Unit("b")
Subjects ==
    {Empty, Str(<<"a", "b">>), X, Cat(<<ua, X>>), Cat(<<X, ub>>), Cat(<<ua, ub, X>>),
     Cat(<<ua, Unit(cv)>>), Cat(<<Str(<<"a", "b">>), X>>), Cat(<<ua, ub>>), Cat(<<X, ua, ub>>)}
Patterns ==
    {Empty, Str(<<"b">>), Str(<<"a", "b">>), ua, Unit(cv), X, Cat(<<ub, X>>),
     Cat(<<X, ua>>), Cat(<<ua, ub>>), Cat(<<X, ub>>)}
Replacements == {Empty, Str(<<"b">>), ub, Y}
MCInputs == Subjects \X Patterns \X Replacements

-----------------------------------------------------------------------------
(***************************************************************************)
(* Soundness of mk_seq_replace and mk_seq_replace_all: whenever one of     *)
(* them rewrites, the result denotes, under every assignment, the string   *)
(* str.replace (first occurrence) or str.replace_all gives.  Breaking it   *)
(* takes the unit loop stepping past a position where b may still start,  *)
(* a splice at the wrong offset, or a match running off the end of a      *)
(* taken as a match.                                                       *)
(***************************************************************************)
ReplaceSound ==
    status = "rewrite" =>
        \A g \in Asg :
            LET s == SVal(a, g)
                p == SVal(b, g)
                t == SVal(c, g)
            IN  SVal(result, g) = IF op = "replace" THEN ZReplace(s, p, t)
                                  ELSE ReplaceAllSem(s, p, t)
=============================================================================
