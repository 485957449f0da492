--------------------------- MODULE MemoCallProofs ---------------------------
(***************************************************************************)
(* Proofs about the uncached memoising function MemoCall: AInv is an       *)
(* inductive invariant of ASpec, so every result a call holds is F of one  *)
(* of its dependencies (AHeldOK).  The only facts used about the constants *)
(* are the types of F and Deps.                                            *)
(***************************************************************************)
EXTENDS MemoCall, TLAPS

\* The types of the function being memoised and of its dependencies.
AConstOK == F \in [Terms -> Terms] /\ Deps \in [Terms -> SUBSET Terms]

\* What appending an element does to a sequence.
LEMMA AppendFacts ==
    ASSUME NEW S, NEW s \in Seq(S), NEW x \in S
    PROVE  /\ Append(s, x) \in Seq(S)
           /\ Len(Append(s, x)) = Len(s) + 1
           /\ \A i \in 1..Len(s) : Append(s, x)[i] = s[i]
           /\ Append(s, x)[Len(s) + 1] = x
OBVIOUS

\* A function on 1..n is a sequence of length n.
LEMMA FunIsSeq ==
    ASSUME NEW S, NEW m \in Nat, NEW f \in [1..m -> S]
    PROVE  f \in Seq(S) /\ Len(f) = m
OBVIOUS

\* A fresh call on a term is a frame.
LEMMA ACallOfFrame ==
    ASSUME AConstOK, NEW t \in Terms
    PROVE  ACallOf(t) \in AFrame
BY DEF AConstOK, ACallOf, AFrame

LEMMA AInitInv == AInit => AInv
BY DEF AInit, AInv, AHeldOK

\* A top-level call starts a stack of one frame.
LEMMA ACallInv ==
    ASSUME AConstOK, AInv, ACall
    PROVE  AInv'
<1>1. PICK t \in Terms : astack' = <<ACallOf(t)>>
    BY DEF ACall
<1>2. ACallOf(t) \in AFrame
    BY ACallOfFrame
<1>3. astack' \in Seq(AFrame) /\ Len(astack') = 1 /\ astack'[1] = ACallOf(t)
    BY <1>1, <1>2
<1> QED
    BY <1>3 DEF AInv, AHeldOK, ACallOf

\* A nested call on a sub-term d still to compute.
LEMMA ASubCallInv ==
    ASSUME AConstOK, AInv, ASubCall
    PROVE  AInv'
<1> DEFINE n == Len(astack)
<1>1. astack \in Seq(AFrame) /\ astack # <<>>
    BY DEF AInv, ASubCall
<1>2. n \in Nat /\ n >= 1 /\ ATop = astack[n] /\ ATop \in AFrame
    BY <1>1 DEF ATop
<1>3. PICK d \in ATop.todo :
        astack' = Append([i \in 1..n |->
                             IF i = n
                             THEN [arg  |-> ATop.arg, todo |-> ATop.todo \ {d},
                                   held |-> ATop.held]
                             ELSE astack[i]],
                         ACallOf(d))
    BY DEF ASubCall
<1> DEFINE mid == [i \in 1..n |->
                     IF i = n
                     THEN [arg  |-> ATop.arg, todo |-> ATop.todo \ {d},
                           held |-> ATop.held]
                     ELSE astack[i]]
<1>4. d \in Deps[ATop.arg] /\ d \in Terms
    <2>1. ATop.todo \subseteq Deps[ATop.arg]
        BY <1>2 DEF AInv
    <2>2. Deps[ATop.arg] \subseteq Terms
        BY <1>2 DEF AConstOK, AFrame
    <2> QED
        BY <2>1, <2>2
<1>5. mid \in Seq(AFrame) /\ Len(mid) = n
    <2>1. [arg  |-> ATop.arg, todo |-> ATop.todo \ {d}, held |-> ATop.held] \in AFrame
        BY <1>2 DEF AFrame
    <2>2. \A i \in 1..n : mid[i] \in AFrame
        BY <1>1, <1>2, <2>1
    <2>3. mid \in [1..n -> AFrame]
        BY <2>2
    <2> HIDE DEF mid
    <2> QED
        BY <1>2, <2>3, FunIsSeq
<1>6. /\ astack' \in Seq(AFrame)
      /\ Len(astack') = n + 1
      /\ \A i \in 1..n : astack'[i] = mid[i]
      /\ astack'[n + 1] = ACallOf(d)
    <2>1. ACallOf(d) \in AFrame
        BY <1>4, ACallOfFrame
    <2>2. astack' = Append(mid, ACallOf(d))
        BY <1>3
    <2> HIDE DEF mid
    <2> QED
        BY <1>5, <2>1, <2>2, AppendFacts
<1>7. \A i \in 1..n : astack'[i].arg = astack[i].arg /\ astack'[i].held = astack[i].held
                      /\ astack'[i].todo \subseteq astack[i].todo
    BY <1>2, <1>6
<1>8. \A i \in 1..Len(astack') : astack'[i].todo \subseteq Deps[astack'[i].arg]
    <2> SUFFICES ASSUME NEW i \in 1..n + 1
                 PROVE  astack'[i].todo \subseteq Deps[astack'[i].arg]
        BY <1>6
    <2>1. CASE i = n + 1
        BY <2>1, <1>6 DEF ACallOf
    <2>2. CASE i \in 1..n
        BY <2>2, <1>7 DEF AInv
    <2> QED
        BY <2>1, <2>2, <1>2
<1>9. \A i \in 1..Len(astack') - 1 : astack'[i + 1].arg \in Deps[astack'[i].arg]
    <2> SUFFICES ASSUME NEW i \in 1..n
                 PROVE  astack'[i + 1].arg \in Deps[astack'[i].arg]
        BY <1>2, <1>6
    <2>1. CASE i = n
        BY <2>1, <1>2, <1>4, <1>6, <1>7 DEF ACallOf
    <2>2. CASE i \in 1..n - 1
        BY <2>2, <1>7 DEF AInv
    <2> QED
        BY <2>1, <2>2, <1>2
<1>10. AHeldOK'
    <2> SUFFICES ASSUME NEW i \in 1..n + 1, NEW v \in astack'[i].held
                 PROVE  \E e \in Deps[astack'[i].arg] : v = F[e]
        BY <1>6 DEF AHeldOK
    <2>1. CASE i = n + 1
        BY <2>1, <1>6 DEF ACallOf
    <2>2. CASE i \in 1..n
        BY <2>2, <1>7 DEF AInv, AHeldOK
    <2> QED
        BY <2>1, <2>2, <1>2
<1> QED
    BY <1>6, <1>8, <1>9, <1>10 DEF AInv

\* The innermost call returns F of its argument to its caller.
LEMMA AReturnInv ==
    ASSUME AConstOK, AInv, AReturn
    PROVE  AInv'
<1> DEFINE n == Len(astack)
<1>1. astack \in Seq(AFrame) /\ astack # <<>>
    BY DEF AInv, AReturn
<1>2. n \in Nat /\ n >= 1 /\ ATop = astack[n] /\ ATop \in AFrame
    BY <1>1 DEF ATop
<1>3. CASE n = 1
    <2>1. astack' = <<>>
        BY <1>3 DEF AReturn
    <2> QED
        BY <2>1 DEF AInv, AHeldOK
<1>4. CASE n # 1
    <2>1. n > 1
        <3>1. \A k \in Nat : k >= 1 /\ k # 1 => k > 1
            OBVIOUS
        <3> QED
            BY <1>2, <1>4, <3>1
    <2> DEFINE res == F[ATop.arg]
    <2>2. astack' = [s \in 1..n - 1 |->
                        IF s = n - 1
                        THEN [arg  |-> astack[s].arg, todo |-> astack[s].todo,
                              held |-> astack[s].held \cup {res}]
                        ELSE astack[s]]
        BY <2>1 DEF AReturn
    <2>3. ATop.arg \in Deps[astack[n - 1].arg] /\ res \in Terms
        <3>1. n - 1 \in 1..n - 1 /\ (n - 1) + 1 = n
            BY <2>1
        <3>2. ATop.arg \in Deps[astack[n - 1].arg]
            BY <1>2, <3>1 DEF AInv
        <3> QED
            BY <1>2, <3>2 DEF AConstOK, AFrame
    <2>4. /\ Len(astack') = n - 1
          /\ \A i \in 1..n - 1 : astack'[i].arg = astack[i].arg
                                 /\ astack'[i].todo = astack[i].todo
          /\ \A i \in 1..n - 2 : astack'[i].held = astack[i].held
          /\ astack'[n - 1].held = astack[n - 1].held \cup {res}
        BY <1>1, <2>1, <2>2
    <2>5. astack' \in Seq(AFrame)
        <3>1. \A i \in 1..n - 1 : astack'[i] \in AFrame
            <4> SUFFICES ASSUME NEW i \in 1..n - 1 PROVE astack'[i] \in AFrame
                OBVIOUS
            <4>1. astack[i] \in AFrame
                BY <1>1, <1>2
            <4>2. CASE i = n - 1
                <5>1. astack'[i] = [arg  |-> astack[i].arg, todo |-> astack[i].todo,
                                    held |-> astack[i].held \cup {res}]
                    BY <2>2, <4>2
                <5> QED
                    BY <5>1, <4>1, <2>3 DEF AFrame
            <4>3. CASE i # n - 1
                BY <2>2, <4>1, <4>3
            <4> QED
                BY <4>2, <4>3
        <3> QED
            BY <2>1, <2>2, <3>1
    <2>6. \A i \in 1..Len(astack') : astack'[i].todo \subseteq Deps[astack'[i].arg]
        BY <2>4 DEF AInv
    <2>7. \A i \in 1..Len(astack') - 1 : astack'[i + 1].arg \in Deps[astack'[i].arg]
        BY <2>4 DEF AInv
    <2>8. AHeldOK'
        <3> SUFFICES ASSUME NEW i \in 1..n - 1, NEW v \in astack'[i].held
                     PROVE  \E e \in Deps[astack'[i].arg] : v = F[e]
            BY <2>4 DEF AHeldOK
        <3>1. CASE v = res /\ i = n - 1
            BY <3>1, <2>3, <2>4
        <3>2. CASE ~(v = res /\ i = n - 1)
            <4>1. v \in astack[i].held
                BY <3>2, <2>4
            <4> QED
                BY <4>1, <2>4 DEF AInv, AHeldOK
        <3> QED
            BY <3>1, <3>2
    <2> QED
        BY <2>5, <2>6, <2>7, <2>8 DEF AInv
<1> QED
    BY <1>3, <1>4

LEMMA AStutterInv == AInv /\ UNCHANGED avars => AInv'
BY DEF AInv, AHeldOK, avars

(***************************************************************************)
(* For every set of terms, F and dependency graph: in every state of the  *)
(* uncached function, each result a call holds is F of one of the          *)
(* sub-terms its computation depends on.                                   *)
(***************************************************************************)
THEOREM AInvInvariant ==
    ASSUME AConstOK
    PROVE  ASpec => []AInv
<1>1. AInit => AInv
    BY AInitInv
<1>2. AInv /\ [ANext]_avars => AInv'
    BY ACallInv, ASubCallInv, AReturnInv, AStutterInv DEF ANext
<1> QED
    BY <1>1, <1>2, PTL DEF ASpec

\* AHeldOK holds in every state of the uncached function.
THEOREM AHeldOKThm ==
    ASSUME AConstOK
    PROVE  ASpec => []AHeldOK
<1>1. AInv => AHeldOK
    BY DEF AInv
<1> QED
    BY <1>1, AInvInvariant, PTL
=============================================================================
