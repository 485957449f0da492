------------------------------ MODULE SeqStoi ------------------------------
(***************************************************************************)
(* seq_rewriter::mk_str_stoi(a) and mk_str_itos(a): one rewrite of        *)
(* stoi(a) (str.to_int) or of itos(a) (str.from_int).  The specification  *)
(* picks the operation and its argument and applies the rewrite once.      *)
(***************************************************************************)
EXTENDS SeqTerms

CONSTANTS StoiInputs,   \* the string arguments of stoi
          ItosInputs    \* the integer arguments of itos

VARIABLES op, a, status, result
vars == <<op, a, status, result>>

Done(t) == <<"rewrite", t>>
Failed  == <<"failed", Num(0)>>

MinusOne == Num(-1)
Zero     == Num(0)

\* The digit a character stands for, -1 for another character.
CharDigit(ch) == IF ch \in Digits THEN DigitVal(ch) ELSE -1

(***************************************************************************)
(* The rule for a string ending in a unit u: with head the units before   *)
(* it, ite(head = "", stoi(u), ite(stoi(u) >= 0, ite(stoi(head) >= 0,     *)
(* 10 * stoi(head) + stoi(u), -1), stoi(u))).                              *)
(***************************************************************************)
\* Mutant: a negative tail is not passed through; the sum is taken anyway.
LastUnitNoTailTest(as) ==
    LET tail == Stoi(as[Len(as)])
        head == MkConcat(Take(as, Len(as) - 1))
        sh   == Stoi(head)
    IN  IIte(IsEmptyT(head), tail,
             IIte(Le(Zero, sh), Add(<<Mul(Num(10), sh), tail>>), MinusOne))
LastUnit(as) ==
    LET tail == Stoi(as[Len(as)])
        head == MkConcat(Take(as, Len(as) - 1))
        sh   == Stoi(head)
    IN  IIte(IsEmptyT(head), tail,
             IIte(Le(Zero, tail),
                  IIte(Le(Zero, sh), Add(<<Mul(Num(10), sh), tail>>), MinusOne),
                  tail))

(***************************************************************************)
(* mk_str_stoi(a), its cases in the order of the code.  A literal folds;  *)
(* stoi(itos(b)) is ite(b >= 0, b, -1); stoi distributes over an ite; a   *)
(* unit character folds; then the units of a are walked from the back or *)
(* a leading '0' is dropped.                                               *)
(***************************************************************************)
MkStrStoi(A) ==
    LET as == Units(A)
    IN  IF IsStr(A)
        THEN Done(Num(IF A.s # <<>> /\ \A i \in 1..Len(A.s) : A.s[i] \in Digits
                      THEN Decimal(A.s) ELSE -1))
        ELSE IF A.k = "itos" THEN Done(IIte(Le(Zero, A.i), A.i, MinusOne))
        ELSE IF A.k = "ite" THEN Done(IIte(Le(Num(A.v), A.l), Stoi(A.th), Stoi(A.el)))
        ELSE IF A.k = "site" THEN Done(IIte(A.c, Stoi(A.th), Stoi(A.el)))
        ELSE IF IsValue(A) THEN Done(Num(CharDigit(A.c)))
        ELSE IF as = <<>> THEN Done(MinusOne)
        ELSE IF IsUnit(as[Len(as)]) THEN Done(LastUnit(as))
        ELSE IF IsValue(as[1]) /\ as[1].c = "0"
        THEN LET rest == MkConcat(Tail(as))
             IN  Done(IIte(IsEmptyT(rest), Zero, Stoi(rest)))
        ELSE Failed

(***************************************************************************)
(* mk_str_itos(a): a numeral folds (the empty string when negative);      *)
(* itos(stoi(b)) with |b| <= 1 is b when b is one of '0'..'9', else "".    *)
(***************************************************************************)
MkStrItos(A) ==
    IF IsNum(A) THEN Done(IF A.v >= 0 THEN Str(ZItos(A.v)) ELSE Empty)
    ELSE IF A.k = "stoi" /\ MaxLength(A.s)[1] /\ MaxLength(A.s)[2] <= 1
    THEN Done(SIte(MkOr([i \in 1..10 |-> Eq(A.s, Str(<<DigitStr[i]>>))]), A.s, Empty))
    ELSE <<"failed", Empty>>

Init ==
    /\ \/ op = "stoi" /\ a \in StoiInputs
       \/ op = "itos" /\ a \in ItosInputs
    /\ status = "start"
    /\ result = Num(0)

Apply(r) == status' = r[1] /\ result' = r[2] /\ UNCHANGED <<op, a>>

\* The rewriter applies mk_str_stoi to stoi(a).
RewriteStoi == status = "start" /\ op = "stoi" /\ Apply(MkStrStoi(a))

\* The rewriter applies mk_str_itos to itos(a).
RewriteItos == status = "start" /\ op = "itos" /\ Apply(MkStrItos(a))

Next == RewriteStoi \/ RewriteItos

Spec == Init /\ [][Next]_vars /\ WF_vars(Next)
=============================================================================
