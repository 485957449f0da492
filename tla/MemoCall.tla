------------------------------ MODULE MemoCall ------------------------------
(***************************************************************************)
(* What a memoising function of seq_rewriter (is_nullable,                 *)
(* mk_antimirov_deriv, mk_der_op, mk_der_compl) promises its callers,      *)
(* without the cache: a call on a term t may make nested calls on the      *)
(* sub-terms Deps[t] it still needs, and whenever it returns, it returns   *)
(* F[t], the result of the uncached computation.  A call may return before *)
(* it has made all its nested calls: that is what a cache hit looks like   *)
(* from outside.  Terms are values here, not nodes at addresses.           *)
(***************************************************************************)
EXTENDS Naturals, Sequences

CONSTANTS Terms, F, Deps, MaxCalls

\* An activation: its argument, the sub-terms it has still to compute and
\* the results of its nested calls.
AFrame == [arg : Terms, todo : SUBSET Terms, held : SUBSET Terms]

VARIABLES
    astack,  \* the active calls, innermost last
    acalls   \* top-level calls made so far

avars == <<astack, acalls>>

ATop == astack[Len(astack)]
ACallOf(t) == [arg |-> t, todo |-> Deps[t], held |-> {}]

AInit == astack = <<>> /\ acalls = 0

\* The client calls the function on a term.
ACall ==
    /\ astack = <<>>
    /\ acalls < MaxCalls
    /\ \E t \in Terms : astack' = <<ACallOf(t)>>
    /\ acalls' = acalls + 1

\* The computation calls the function on one of the sub-terms it needs.
ASubCall ==
    /\ astack # <<>>
    /\ \E d \in ATop.todo :
          astack' = Append([i \in 1..Len(astack) |->
                               IF i = Len(astack)
                               THEN [arg  |-> ATop.arg, todo |-> ATop.todo \ {d},
                                     held |-> ATop.held]
                               ELSE astack[i]],
                           ACallOf(d))
    /\ UNCHANGED acalls

\* The innermost call returns F of its argument to its caller, if any.
AReturn ==
    /\ astack # <<>>
    /\ astack' = IF Len(astack) = 1 THEN <<>>
                 ELSE [s \in 1..Len(astack) - 1 |->
                          IF s = Len(astack) - 1
                          THEN [arg  |-> astack[s].arg, todo |-> astack[s].todo,
                                held |-> astack[s].held \cup {F[ATop.arg]}]
                          ELSE astack[s]]
    /\ UNCHANGED acalls

ANext == ACall \/ ASubCall \/ AReturn

ASpec == AInit /\ [][ANext]_avars

-----------------------------------------------------------------------------
(***************************************************************************)
(* Every result a call holds is F of one of the sub-terms its computation  *)
(* depends on: a nested call returns to the call that made it, never to    *)
(* another one, and returns F of the sub-term it was made on.              *)
(***************************************************************************)
AHeldOK ==
    \A i \in 1..Len(astack) : \A v \in astack[i].held :
        \E d \in Deps[astack[i].arg] : v = F[d]

\* The inductive invariant behind AHeldOK: the work list of a call is part
\* of its dependencies, and each call is on a dependency of its caller.
AInv ==
    /\ astack \in Seq(AFrame)
    /\ \A i \in 1..Len(astack) : astack[i].todo \subseteq Deps[astack[i].arg]
    /\ \A i \in 1..Len(astack) - 1 : astack[i + 1].arg \in Deps[astack[i].arg]
    /\ AHeldOK
=============================================================================
