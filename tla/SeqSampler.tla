----------------------------- MODULE SeqSampler -----------------------------
(***************************************************************************)
(* seq_rewriter::some_string_in_re(r): a depth-first search for a string  *)
(* of the language of r by symbolic derivatives.  A work item is a regex   *)
(* with the length the string had when it was pushed, the character ranges *)
(* its choice must avoid and whether it still needs a derivative.  A      *)
(* derivative ite(c, th, el) on the next character tries the lowest       *)
(* character of c first (then-branch, pushed last) and, for el, excludes   *)
(* the bounds of c; a ground leaf takes the first character from 'a' on,  *)
(* wrapping to 0, outside its exclusions.  The result is true with the     *)
(* string, false, or undef for a derivative the search cannot split.       *)
(***************************************************************************)
EXTENDS SeqDeriv

CONSTANTS UnicodeMaxChar,  \* zstring::unicode_max_char(), the bound of get_bounds
          StartChar,       \* 'a', the first character a ground leaf tries
          MaxStrLen,       \* the longest string the model lets the search build
          Inputs           \* the regexes r

ASSUME SamplerAssumption ==
    /\ UnicodeMaxChar \in Nat /\ MaxChar <= UnicodeMaxChar
    /\ StartChar \in 0..UnicodeMaxChar
    /\ MaxStrLen \in Nat

VARIABLES start,    \* the regex r the search was called on
          todo,     \* the stack of work items (its top is the last element)
          str,      \* the string built so far
          visited,  \* the regexes whose derivative has been taken
          pc,       \* "loop" while the search runs, "done" after it returns
          outcome   \* l_true, l_false or l_undef once done
vars == <<start, todo, str, visited, pc, outcome>>

\* A work item also carries the regex its iteration works on: e, or, when
\* e is to be derived, mk_derivative(e), a pure function of e (cached by the
\* code), so that taking it when the item is pushed changes nothing.
Item(e, len, ex, deriv) ==
    [e |-> e, len |-> len, ex |-> ex, deriv |-> deriv,
     w |-> IF deriv THEN MkDerivative(e) ELSE e]

(***************************************************************************)
(* get_bounds(c): the bounds low..high of a conjunction of lo <= v,        *)
(* v <= hi and v = ch, starting from 0..unicode_max_char; FALSE for any    *)
(* other condition or when low > high.                                      *)
(***************************************************************************)
GetBounds(c) ==
    CASE c.k = "range" -> [ok |-> c.lo <= c.hi, low |-> c.lo, high |-> IF c.hi < UnicodeMaxChar THEN c.hi ELSE UnicodeMaxChar]
      [] c.k = "eq"    -> [ok |-> TRUE, low |-> c.ch, high |-> c.ch]
      [] OTHER         -> [ok |-> FALSE, low |-> 0, high |-> UnicodeMaxChar]

(***************************************************************************)
(* The character loop of a ground leaf: one pass over the exclusions in    *)
(* order moves ch past each range that holds it; passes repeat while one   *)
(* moved it; at unicode_max_char + 1 the scan wraps to 0 once, and fails   *)
(* (-1) the second time.                                                   *)
(***************************************************************************)
RECURSIVE Pass(_, _, _)
Pass(ex, i, ch) ==
    IF i > Len(ex) THEN [ch |-> ch, found |-> FALSE]
    ELSE LET hit  == ex[i][1] <= ch /\ ch <= ex[i][2]
             rest == Pass(ex, i + 1, IF hit THEN ex[i][2] + 1 ELSE ch)
         IN  [ch |-> rest.ch, found |-> hit \/ rest.found]

RECURSIVE ScanWrapToStart(_, _, _)
\* Mutant: the scan wraps to 'a' instead of 0.
ScanWrapToStart(ex, ch, wrapped) ==
    LET p == Pass(ex, 1, ch)
    IN  CASE ~p.found                    -> ch
          [] p.ch # UnicodeMaxChar + 1   -> ScanWrapToStart(ex, p.ch, wrapped)
          [] wrapped                     -> -1
          [] OTHER                       -> ScanWrapToStart(ex, StartChar, TRUE)
RECURSIVE Scan(_, _, _)
Scan(ex, ch, wrapped) ==
    LET p == Pass(ex, 1, ch)
    IN  CASE ~p.found                    -> ch
          [] p.ch # UnicodeMaxChar + 1   -> Scan(ex, p.ch, wrapped)
          [] wrapped                     -> -1
          [] OTHER                       -> Scan(ex, 0, TRUE)

\* is_ground: no ite on the character variable is left inside.
RECURSIVE IsGround(_)
IsGround(r) ==
    CASE r.k = "ite" -> FALSE
      [] r.k \in {"cat", "union", "inter"} -> IsGround(r.a) /\ IsGround(r.b)
      [] r.k \in {"comp", "star"} -> IsGround(r.a)
      [] OTHER -> TRUE

Init ==
    /\ start \in Inputs
    /\ todo = <<Item(start, 0, <<>>, TRUE)>>
    /\ str = <<>>
    /\ visited = {}
    /\ pc = "loop"
    /\ outcome = "none"

(***************************************************************************)
(* One iteration of the loop pops the top item cur and cuts str back to    *)
(* cur.len.  The operators below name cur, the rest of the stack, and the  *)
(* regex the iteration works on: cur.e, or its derivative when cur needs   *)
(* one (after the visited, empty and nullable tests).                      *)
(***************************************************************************)
Cur   == todo[Len(todo)]
Rest  == SubSeq(todo, 1, Len(todo) - 1)
Cut   == SubSeq(str, 1, Cur.len)
Work  == Cur.w
Mark  == IF Cur.deriv THEN visited \cup {Cur.e} ELSE visited
\* Mutant: a regex to derive is not tested against visited.
DerivableNoVisited == Cur.e # REmpty
\* A regex to derive that was derived before, or is empty, is dropped.
Derivable == ~(Cur.e \in visited \/ Cur.e = REmpty)

Loop == pc = "loop" /\ todo # <<>>

Return(o) == pc' = "done" /\ outcome' = o

\* A nullable regex to derive: the search returns true with str.
Accept ==
    /\ Loop /\ Cur.deriv /\ Derivable /\ NullInfo(Cur.e) = "true"
    /\ str' = Cut /\ todo' = Rest /\ Return("true")
    /\ UNCHANGED <<start, visited>>

\* The regex to work on, when the loop gets past the tests above.
Live == Loop /\ (~Cur.deriv \/ (Derivable /\ NullInfo(Cur.e) # "true"))

\* An item is dropped: visited or empty before its derivative (unmarked),
\* or an empty derivative or branch.
Skip ==
    /\ \/ Loop /\ Cur.deriv /\ ~Derivable /\ visited' = visited
       \/ Live /\ Work = REmpty /\ visited' = Mark
    /\ todo' = Rest /\ str' = Cut
    /\ UNCHANGED <<start, pc, outcome>>

\* A union to derive: its arguments are pushed, to be derived each.
SplitUnion ==
    /\ Live /\ Cur.deriv /\ Cur.e.k = "union"
    /\ todo' = Rest \o <<Item(Cur.e.a, Cur.len, <<>>, TRUE), Item(Cur.e.b, Cur.len, <<>>, TRUE)>>
    /\ str' = Cut /\ visited' = Mark
    /\ UNCHANGED <<start, pc, outcome>>

\* A union in a derivative: its arguments are pushed with the exclusions.
BranchUnion ==
    /\ Live /\ ~(Cur.deriv /\ Cur.e.k = "union") /\ Work.k = "union"
    /\ todo' = Rest \o <<Item(Work.a, Cur.len, Cur.ex, FALSE), Item(Work.b, Cur.len, Cur.ex, FALSE)>>
    /\ str' = Cut /\ visited' = Mark
    /\ UNCHANGED <<start, pc, outcome>>

(***************************************************************************)
(* ite(c, th, el): el, unless empty, is pushed with the bounds of c added  *)
(* to its exclusions; then, when c has bounds, the lowest character of c   *)
(* is appended to str and th pushed last, to be derived first.  The       *)
(* successor stack and string of the item cur.                             *)
(***************************************************************************)
\* Mutant: el inherits the exclusions without the bounds of c.
IteSuccessorNoExclude(cur) ==
    LET d   == cur.w
        b   == GetBounds(d.c)
        els == IF d.el = REmpty THEN <<>> ELSE <<Item(d.el, cur.len, cur.ex, FALSE)>>
        cut == SubSeq(str, 1, cur.len)
    IN  [todo |-> Rest \o els \o (IF b.ok THEN <<Item(d.th, cur.len + 1, <<>>, TRUE)>> ELSE <<>>),
         str  |-> IF b.ok THEN Append(cut, b.low) ELSE cut]
IteSuccessor(cur) ==
    LET d   == cur.w
        b   == GetBounds(d.c)
        ex  == IF b.ok THEN Append(cur.ex, <<b.low, b.high>>) ELSE cur.ex
        els == IF d.el = REmpty THEN <<>> ELSE <<Item(d.el, cur.len, ex, FALSE)>>
        cut == SubSeq(str, 1, cur.len)
    IN  [todo |-> Rest \o els \o (IF b.ok THEN <<Item(d.th, cur.len + 1, <<>>, TRUE)>> ELSE <<>>),
         str  |-> IF b.ok THEN Append(cut, b.low) ELSE cut]

\* A derivative ite: its branches are pushed.
BranchIte ==
    /\ Live /\ ~(Cur.deriv /\ Cur.e.k = "union") /\ Work.k = "ite"
    /\ Len(Cut) < MaxStrLen
    /\ todo' = IteSuccessor(Cur).todo
    /\ str'  = IteSuccessor(Cur).str
    /\ visited' = Mark
    /\ UNCHANGED <<start, pc, outcome>>

(***************************************************************************)
(* A ground leaf: the first character from 'a' outside the exclusions is  *)
(* appended and the leaf pushed to be derived; the item is dropped when    *)
(* every character is excluded.                                            *)
(***************************************************************************)
Pick ==
    /\ Live /\ ~(Cur.deriv /\ Cur.e.k = "union")
    /\ Work.k \notin {"empty", "union", "ite"} /\ IsGround(Work)
    /\ Len(Cut) < MaxStrLen
    /\ LET ch == Scan(Cur.ex, StartChar, FALSE)
       IN  IF ch = -1 THEN todo' = Rest /\ str' = Cut
           ELSE todo' = Rest \o <<Item(Work, Cur.len + 1, <<>>, TRUE)>>
                /\ str' = Append(Cut, ch)
    /\ visited' = Mark
    /\ UNCHANGED <<start, pc, outcome>>

\* The stack is empty: the search returns false.
Exhausted ==
    /\ pc = "loop" /\ todo = <<>>
    /\ Return("false")
    /\ UNCHANGED <<start, todo, str, visited>>

Next == Skip \/ Accept \/ SplitUnion \/ BranchUnion \/ BranchIte \/ Pick \/ Exhausted

Spec == Init /\ [][Next]_vars /\ WF_vars(Next)

-----------------------------------------------------------------------------
(***************************************************************************)
(* Properties.                                                             *)
(***************************************************************************)

\* Words over the alphabet up to a length.
Words(n) == UNION {[1..k -> Chars] : k \in 0..n}

(* When some_string_in_re returns true, the string it built is a word of  *)
(* the alphabet in the language of r: each character chosen for a        *)
(* derivative ite or a ground leaf leads, through the then-branches and    *)
(* exclusions, to a nullable derivative of exactly that string.            *)
SampleSound ==
    pc = "done" /\ outcome = "true" =>
        /\ \A i \in 1..Len(str) : str[i] \in Chars
        /\ Matches(start, str)

(* When some_string_in_re returns false, r has no word up to MaxStrLen:    *)
(* the visited marks, the pruned ites and the character loop's exclusions *)
(* and wrap-around never drop the only branch that leads to a word.        *)
SampleComplete ==
    pc = "done" /\ outcome = "false" => \A w \in Words(MaxStrLen) : ~Matches(start, w)

(* The derivative mk_derivative(r) of the regex searched is right at every *)
(* character: a word ch . w is in r exactly when w is in the branch of     *)
(* the derivative that ch selects.                                         *)
DerivSound ==
    LET d == MkDerivative(start)
    IN  \A ch \in Chars : LET e == Eval(d, ch) IN
            \A w \in Words(2) : Matches(start, <<ch>> \o w) <=> Matches(e, w)

(* some_string_in_re returns: the visited marks stop a derivative cycle,   *)
(* every ite pushes at most two items and the character loop ends, so the  *)
(* search ends within MaxStrLen characters.                                *)
SearchTerminates == <>(pc = "done")
=============================================================================
