------------------------------ MODULE SeqDeriv ------------------------------
(***************************************************************************)
(* The symbolic derivative of seq_rewriter: mk_derivative(r), the          *)
(* Antimirov derivative of a regex r with respect to the character         *)
(* variable v (de Bruijn variable 0), and its helpers for concatenation,   *)
(* union, intersection, complement and restriction to a path.  The        *)
(* result is a tree of ite(c, t, e) on conditions of v whose leaves are    *)
(* regexes without v.                                                      *)
(*                                                                         *)
(* Regexes are the ground fragment the sampler reaches: the empty regex,   *)
(* epsilon (to_re("")), .* and .+, character ranges, literals to_re(s),    *)
(* concatenation, union, intersection, complement and star; ite on a      *)
(* condition of v appears in derivatives.  Characters are 0..MaxChar  *)
(* (u().max_char(), the bound elim_condition decides paths against).       *)
(***************************************************************************)
EXTENDS Integers, Sequences

CONSTANT MaxChar   \* the largest character of the alphabet

ASSUME MaxCharAssumption == MaxChar \in Nat

Chars == 0..MaxChar

REmpty == [k |-> "empty"]
REps   == [k |-> "eps"]
RFull  == [k |-> "full"]
RDotPlus == [k |-> "dotplus"]
RRange(lo, hi) == [k |-> "range", lo |-> lo, hi |-> hi]
RLit(s)     == [k |-> "lit", s |-> s]
RCat(a, b)  == [k |-> "cat", a |-> a, b |-> b]
RUnion(a, b) == [k |-> "union", a |-> a, b |-> b]
RInter(a, b) == [k |-> "inter", a |-> a, b |-> b]
RComp(a)    == [k |-> "comp", a |-> a]
RStar(a)    == [k |-> "star", a |-> a]
RIte(c, t, e) == [k |-> "ite", c |-> c, th |-> t, el |-> e]
\* to_re(s): epsilon for the empty literal.
ToRe(s) == IF s = <<>> THEN REps ELSE RLit(s)

(* Conditions on v: lo <= v <= hi (a range's and(le, le)), v = ch (the     *)
(* head of a literal), and the negation a path adds for an else branch.    *)
CRange(lo, hi) == [k |-> "range", lo |-> lo, hi |-> hi]
CEq(ch)        == [k |-> "eq", ch |-> ch]
CNot(c)        == [k |-> "not", c |-> c]

RECURSIVE CondHolds(_, _)
CondHolds(c, ch) ==
    CASE c.k = "range" -> c.lo <= ch /\ ch <= c.hi
      [] c.k = "eq"    -> ch = c.ch
      [] OTHER         -> ~CondHolds(c.c, ch)

(***************************************************************************)
(* A path is the set of conditions of a conjunction; {} is true.           *)
(* simplify_path/elim_condition turns a conjunction of character ranges   *)
(* and their negations into false exactly when no character of 0..MaxChar *)
(* satisfies it, and leaves it a conjunction otherwise.                    *)
(***************************************************************************)
PathFalse(P) == ~\E ch \in Chars : \A c \in P : CondHolds(c, ch)

\* re().mk_ite_simplify(c, t, e): the branch itself when both are equal.
IteSimplify(c, t, e) == IF t = e THEN t ELSE RIte(c, t, e)

\* is_nullable_rec on a regex without v: does it accept the empty word?
\* Mutant: a star is not nullable.
RECURSIVE Nullable(_), NullableNoStar(_)
NullableNoStar(r) ==
    CASE r.k \in {"cat", "inter"} -> Nullable(r.a) /\ Nullable(r.b)
      [] r.k = "union"            -> Nullable(r.a) \/ Nullable(r.b)
      [] r.k \in {"full", "eps"}  -> TRUE
      [] r.k = "comp"             -> ~Nullable(r.a)
      [] r.k = "lit"              -> r.s = <<>>
      [] OTHER                    -> FALSE
Nullable(r) ==
    CASE r.k \in {"cat", "inter"} -> Nullable(r.a) /\ Nullable(r.b)
      [] r.k = "union"            -> Nullable(r.a) \/ Nullable(r.b)
      [] r.k \in {"star", "full", "eps"} -> TRUE
      [] r.k = "comp"             -> ~Nullable(r.a)
      [] r.k = "lit"              -> r.s = <<>>
      [] OTHER                    -> FALSE

(***************************************************************************)
(* re().get_info(r).nullable, three-valued: an ite is "undef" unless both  *)
(* branches agree; a union, intersection or concatenation is decided by   *)
(* one decided side that settles it, else "undef" when a side is.  Its    *)
(* min_length is positive exactly when it is "false".                      *)
(***************************************************************************)
RECURSIVE NullInfo(_)
NullInfo(r) ==
    CASE r.k = "ite"  -> IF NullInfo(r.th) = NullInfo(r.el) THEN NullInfo(r.th) ELSE "undef"
      [] r.k = "comp" -> CASE NullInfo(r.a) = "true" -> "false"
                           [] NullInfo(r.a) = "false" -> "true"
                           [] OTHER -> "undef"
      [] r.k \in {"union", "inter", "cat"} ->
            LET dom == IF r.k = "union" THEN "true" ELSE "false"
                is  == {NullInfo(r.a), NullInfo(r.b)}
            IN  CASE dom \in is     -> dom
                  [] "undef" \in is -> "undef"
                  [] OTHER          -> IF dom = "true" THEN "false" ELSE "true"
      [] OTHER -> IF Nullable(r) THEN "true" ELSE "false"

\* mk_re_append(d, r): the concatenation, with the empty regex absorbing
\* and epsilon dropped.
ReAppend(d, r) ==
    CASE d = REmpty \/ r = REmpty -> REmpty
      [] d = REps                 -> r
      [] r = REps                 -> d
      [] OTHER                    -> RCat(d, r)

(* mk_regex_union_normalize and mk_regex_inter_normalize: equal sides,     *)
(* the empty regex and .* are absorbed or dropped; epsilon meets a regex   *)
(* by its nullability, .+ one of positive min_length (for a regex without  *)
(* v: one that is not nullable); anything else is merged into one union    *)
(* or intersection (merge_regex_sets orders the sides by term id and folds *)
(* complements and subsets, which does not change the language).          *)
UnionNormalize(r1, r2) ==
    CASE r1 = r2 \/ r2 = REmpty \/ r1 = RFull -> r1
      [] r1 = REmpty \/ r2 = RFull           -> r2
      [] r1 = RDotPlus /\ NullInfo(r2) = "false" -> r1
      [] r2 = RDotPlus /\ NullInfo(r1) = "false" -> r2
      [] OTHER                               -> RUnion(r1, r2)
InterNormalize(s1, s2) ==
    LET r1 == IF s2 = REps THEN s2 ELSE s1
        r2 == IF s2 = REps THEN s1 ELSE s2
    IN  CASE r1 = r2 \/ r1 = REmpty \/ r2 = RFull -> r1
          [] r2 = REmpty \/ r1 = RFull           -> r2
          [] r1 = REps /\ NullInfo(r2) = "true"  -> r1
          [] r1 = REps /\ NullInfo(r2) = "false" -> REmpty
          [] r1 = RDotPlus /\ NullInfo(r2) = "false" -> r2
          [] r2 = RDotPlus /\ NullInfo(r1) = "false" -> r1
          [] OTHER     -> RInter(r1, r2)

RECURSIVE AntimirovUnion(_, _), DerivConcat(_, _), Restrict(_, _),
          Intersection(_, _, _), Negate(_), Deriv(_, _)

\* mk_antimirov_deriv_union: ites on the same condition are merged branch
\* by branch; otherwise the two derivatives are normalized into a union.
AntimirovUnion(d1, d2) ==
    IF d1.k = "ite" /\ d2.k = "ite" /\ d1.c = d2.c
    THEN RIte(d1.c, AntimirovUnion(d1.th, d2.th), AntimirovUnion(d1.el, d2.el))
    ELSE UnionNormalize(d1, d2)

\* mk_antimirov_deriv_concat(d, r): r is appended to every leaf of d.
DerivConcat(d, r) ==
    CASE d.k = "ite"   -> RIte(d.c, DerivConcat(d.th, r), DerivConcat(d.el, r))
      [] d.k = "union" -> AntimirovUnion(DerivConcat(d.a, r), DerivConcat(d.b, r))
      [] OTHER         -> ReAppend(d, r)

\* mk_antimirov_deriv_restrict(d, P): the branches of d infeasible under
\* the path P are cut.
Restrict(d, P) ==
    CASE PathFalse(P)               -> REmpty
      [] d = REmpty \/ P = {}        -> d
      [] d.k = "ite" -> IteSimplify(d.c, Restrict(d.th, P \cup {d.c}),
                                         Restrict(d.el, P \cup {CNot(d.c)}))
      [] d.k = "union" -> AntimirovUnion(Restrict(d.a, P), Restrict(d.b, P))
      [] OTHER         -> d

(***************************************************************************)
(* mk_antimirov_deriv_intersection(d1, d2, P): the ites of d1, then of d2, *)
(* are pushed to the top, a branch whose path is false is dropped; a       *)
(* leaf meets an equal leaf or .* by restriction, a union distributes.     *)
(***************************************************************************)
Intersection(d1, d2, P) ==
    CASE d1 = REmpty -> d1
      [] d2 = REmpty -> d2
      [] d1.k = "ite" ->
            LET pc == P \cup {d1.c}
                pn == P \cup {CNot(d1.c)}
            IN  CASE PathFalse(pc) -> Intersection(d1.el, d2, P)
                  [] PathFalse(pn) -> Intersection(d1.th, d2, P)
                  [] OTHER -> RIte(d1.c, Intersection(d1.th, d2, pc), Intersection(d1.el, d2, pn))
      [] d2.k = "ite" -> Intersection(d2, d1, P)
      [] d1 = d2 \/ d2 = RFull -> Restrict(d1, P)
      [] d1 = RFull           -> Restrict(d2, P)
      [] d1.k = "union" -> AntimirovUnion(Intersection(d1.a, d2, P), Intersection(d1.b, d2, P))
      [] d2.k = "union" -> AntimirovUnion(Intersection(d1, d2.a, P), Intersection(d1, d2.b, P))
      [] OTHER          -> InterNormalize(d1, d2)

\* mk_antimirov_deriv_negate(d): the complement of every leaf of d.
Negate(d) ==
    CASE d = REmpty    -> RFull
      [] d = REps      -> RDotPlus
      [] d = RFull     -> REmpty
      [] d = RDotPlus  -> REps
      [] d.k = "ite"   -> RIte(d.c, Negate(d.th), Negate(d.el))
      [] d.k = "union" -> Intersection(Negate(d.a), Negate(d.b), {})
      [] d.k = "inter" -> AntimirovUnion(Negate(d.a), Negate(d.b))
      [] d.k = "comp"  -> d.a
      [] OTHER         -> RComp(d)

(***************************************************************************)
(* mk_antimirov_deriv_rec(v, r, P), the cases of the fragment in the order *)
(* of the code.  A literal branches on its head character; a concatenation *)
(* adds the derivative of its tail when its head is nullable (is_nullable  *)
(* of a ground regex is true or false, so the ite on it simplifies away);  *)
(* an ite derives each branch under its path and drops an infeasible one;  *)
(* a range whose path is infeasible derives to the empty regex.            *)
(***************************************************************************)
Deriv(r, P) ==
    CASE r = REmpty \/ r = REps     -> REmpty
      [] r = RFull \/ r = RDotPlus  -> RFull
      [] r.k = "lit"   -> IteSimplify(CEq(r.s[1]), ToRe(Tail(r.s)), REmpty)
      [] r.k = "cat"   ->
            LET c1 == DerivConcat(Deriv(r.a, P), r.b)
            IN  IF Nullable(r.a) THEN AntimirovUnion(c1, Deriv(r.b, P)) ELSE c1
      [] r.k = "ite"   ->
            LET pc == P \cup {r.c}
                pn == P \cup {CNot(r.c)}
            IN  CASE PathFalse(pc) -> Deriv(r.el, pn)
                  [] PathFalse(pn) -> Deriv(r.th, pc)
                  [] OTHER -> IteSimplify(r.c, Deriv(r.th, pc), Deriv(r.el, pn))
      [] r.k = "range" ->
            IF r.lo > r.hi \/ PathFalse(P \cup {CRange(r.lo, r.hi)}) THEN REmpty
            ELSE IteSimplify(CRange(r.lo, r.hi), REps, REmpty)
      [] r.k = "union" -> AntimirovUnion(Deriv(r.a, P), Deriv(r.b, P))
      [] r.k = "inter" -> Intersection(Deriv(r.a, P), Deriv(r.b, P), {})
      [] r.k = "star"  -> DerivConcat(Deriv(r.a, P), r)
      [] OTHER         -> Negate(Deriv(r.a, P))

\* mk_derivative(r): the derivative under the path true.
MkDerivative(r) == Deriv(r, {})

(***************************************************************************)
(* Reference semantics, for the properties: Matches(r, w) says the word w  *)
(* (a sequence of characters) is in the language of the ite-free regex r;  *)
(* Eval(d, ch) is the regex a derivative d stands for at the character ch. *)
(***************************************************************************)
RECURSIVE Matches(_, _)
Matches(r, w) ==
    LET Split(i) == <<SubSeq(w, 1, i), SubSeq(w, i + 1, Len(w))>>
    IN  CASE r.k = "empty"   -> FALSE
          [] r.k = "eps"     -> w = <<>>
          [] r.k = "full"    -> TRUE
          [] r.k = "dotplus" -> w # <<>>
          [] r.k = "range"   -> Len(w) = 1 /\ r.lo <= w[1] /\ w[1] <= r.hi
          [] r.k = "lit"     -> w = r.s
          [] r.k = "cat"     -> \E i \in 0..Len(w) :
                                  Matches(r.a, Split(i)[1]) /\ Matches(r.b, Split(i)[2])
          [] r.k = "union"   -> Matches(r.a, w) \/ Matches(r.b, w)
          [] r.k = "inter"   -> Matches(r.a, w) /\ Matches(r.b, w)
          [] r.k = "comp"    -> ~Matches(r.a, w)
          [] r.k = "star"    -> w = <<>> \/ \E i \in 1..Len(w) :
                                  Matches(r.a, Split(i)[1]) /\ Matches(r, Split(i)[2])

RECURSIVE Eval(_, _)
Eval(d, ch) ==
    CASE d.k = "ite"   -> IF CondHolds(d.c, ch) THEN Eval(d.th, ch) ELSE Eval(d.el, ch)
      [] d.k = "union" -> RUnion(Eval(d.a, ch), Eval(d.b, ch))
      [] OTHER         -> d
=============================================================================
