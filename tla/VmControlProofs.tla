-------------------------- MODULE VmControlProofs --------------------------
(***************************************************************************)
(* Proofs about VmControl, for any programs and roots. They hold of a      *)
(* program whose code is Structured: for every instruction, the loops and  *)
(* tries that the text puts around the places it leads to are what the     *)
(* instruction says. Then the blocks of the thread, which only execution   *)
(* makes, are those of the text, through calls, jumps, returns and errors. *)
(***************************************************************************)
EXTENDS VmControl, SequenceTheorems, WellFoundedInduction, TLAPS

-----------------------------------------------------------------------------
(* Induction.                                                              *)

(* A set of numbers with 0 and the successors of its elements has them     *)
(* all.                                                                    *)
Less == {p \in Nat \X Nat : p[1] < p[2]}
LEMMA Induction ==
  ASSUME NEW S, 0 \in S, \A n \in Nat : n \in S => n + 1 \in S
  PROVE  Nat \subseteq S
<1>1. IsWellFoundedOn(OpToRel(<, Nat), Nat)
  BY NatLessThanWellFounded
<1>2. OpToRel(<, Nat) = Less
  BY DEF OpToRel, Less
<1>3. IsWellFoundedOn(Less, Nat)
  BY <1>1, <1>2
<1> SUFFICES ASSUME Nat \ S # {} PROVE FALSE
  OBVIOUS
<1>4. PICK x \in Nat \ S : \A y \in Nat \ S : << y, x >> \notin Less
  BY <1>3, WFMin
<1>5. x # 0
  OBVIOUS
<1>6. x - 1 \in Nat /\ << x - 1, x >> \in Less
  BY <1>5 DEF Less
<1>7. x - 1 \in S
  BY <1>4, <1>6
<1> QED BY <1>6, <1>7

LEMMA Small == \A n \in Nat : (n + 1 = 1 => n = 0) /\ (n + 1 = 2 => n = 1)
OBVIOUS

(* A set of positions has a last one.                                      *)
LEMMA Largest ==
  ASSUME NEW n \in Nat, NEW S \in SUBSET (1 .. n), S # {}
  PROVE  \E x \in S : \A y \in S : y <= x
<1> DEFINE T == {m \in Nat : \A R \in SUBSET (1 .. m) :
                   R # {} => \E x \in R : \A y \in R : y <= x}
<1>1. 0 \in T
  <2>1. \A R \in SUBSET (1 .. 0) : R = {}
    OBVIOUS
  <2> QED BY <2>1
<1>2. ASSUME NEW m \in Nat, m \in T
      PROVE  m + 1 \in T
  <2> SUFFICES ASSUME NEW R \in SUBSET (1 .. m + 1), R # {}
               PROVE  \E x \in R : \A y \in R : y <= x
    OBVIOUS
  <2>1. CASE m + 1 \in R
    BY <2>1
  <2>2. CASE m + 1 \notin R
    <3>1. R \in SUBSET (1 .. m)
      BY <2>2
    <3> QED BY <1>2, <3>1
  <2> QED BY <2>1, <2>2
<1> HIDE DEF T
<1>3. n \in T
  BY <1>1, <1>2, Induction
<1> QED BY <1>3 DEF T

-----------------------------------------------------------------------------
(* Blocks.                                                                 *)

(* The function that t_back repeated defines exists, so it has its         *)
(* defining equation.                                                      *)
LEMMA UnwoundSteps ==
  ASSUME NEW s, NEW n \in Nat
  PROVE  \E back : /\ back = [i \in 0 .. n |-> IF i = 0 THEN s ELSE TBack(back[i - 1])]
                   /\ Unwound(s, n) = back[n]
<1> DEFINE Eqn(m, f) == f = [i \in 0 .. m |-> IF i = 0 THEN s ELSE TBack(f[i - 1])]
           T == {m \in Nat : \E f : Eqn(m, f)}
<1>1. 0 \in T
  <2>1. Eqn(0, [i \in 0 .. 0 |-> s])
    OBVIOUS
  <2> QED BY <2>1
<1>2. ASSUME NEW m \in Nat, m \in T
      PROVE  m + 1 \in T
  <2>1. PICK f : Eqn(m, f)
    BY <1>2
  <2> DEFINE g == [i \in 0 .. m + 1 |-> IF i = 0 THEN s ELSE TBack(f[i - 1])]
  <2>2. \A i \in 0 .. m : g[i] = f[i]
    BY <2>1
  <2>3. \A i \in 0 .. m + 1 : i # 0 => i - 1 \in 0 .. m
    OBVIOUS
  <2>4. g = [i \in 0 .. m + 1 |-> IF i = 0 THEN s ELSE TBack(g[i - 1])]
    BY <2>2, <2>3
  <2> HIDE DEF g
  <2>5. Eqn(m + 1, g)
    BY <2>4
  <2> QED BY <2>5
<1>3. n \in T
  <2> HIDE DEF T
  <2> QED BY <1>1, <1>2, Induction
<1>4. Eqn(n, CHOOSE f : Eqn(n, f))
  BY <1>3
<1>5. Unwound(s, n) = (CHOOSE f : Eqn(n, f))[n]
  BY DEF Unwound
<1> QED BY <1>4, <1>5

(* The tokens of instructions, what a block may be named for, and threads. *)
Toks == UNION {{p.code[i].tok : i \in DOMAIN p.code} : p \in Programs}
Names == Toks \cup Roots \cup {"base"} \cup UNION {DOMAIN p.entry : p \in Programs}
BlockSet == [ip : Nat, tok : Names, iter : BOOLEAN, goto : Nat, err : BOOLEAN, size : Nat]
States == [block : BlockSet, saved : Seq(BlockSet), stack : Seq(Toks)]

(* The blocks are the saved ones and the current one.                      *)
LEMMA BlocksType ==
  ASSUME NEW s \in States
  PROVE  /\ s.block \in BlockSet /\ s.saved \in Seq(BlockSet) /\ s.stack \in Seq(Toks)
         /\ Len(s.saved) \in Nat /\ Len(s.stack) \in Nat
         /\ Blocks(s) \in Seq(BlockSet) /\ Len(Blocks(s)) = Len(s.saved) + 1
         /\ DOMAIN Blocks(s) = 1 .. Len(s.saved) + 1
         /\ Blocks(s)[Len(s.saved) + 1] = s.block
         /\ \A i \in 1 .. Len(s.saved) : Blocks(s)[i] = s.saved[i]
<1>1. s.block \in BlockSet /\ s.saved \in Seq(BlockSet) /\ s.stack \in Seq(Toks)
  BY DEF States
<1>2. Len(s.saved) \in Nat /\ Len(s.stack) \in Nat
  BY <1>1
<1>3. /\ Blocks(s) \in Seq(BlockSet) /\ Len(Blocks(s)) = Len(s.saved) + 1
      /\ Blocks(s)[Len(s.saved) + 1] = s.block
      /\ \A i \in 1 .. Len(s.saved) : Blocks(s)[i] = s.saved[i]
  BY <1>1, AppendProperties DEF Blocks
<1> QED BY <1>1, <1>2, <1>3

(* The last element, and those before it.                                  *)
LEMMA LastBlock ==
  ASSUME NEW bs \in Seq(BlockSet), bs # << >>
  PROVE  /\ Len(bs) \in Nat \ {0} /\ Last(bs) = bs[Len(bs)] /\ Last(bs) \in BlockSet
         /\ Front(bs) \in Seq(BlockSet) /\ Len(Front(bs)) = Len(bs) - 1
         /\ \A i \in 1 .. Len(bs) - 1 : Front(bs)[i] = bs[i]
<1> DEFINE n == Len(bs)
<1>1. n \in Nat \ {0} /\ DOMAIN bs = 1 .. n
  BY EmptySeq
<1>2. Last(bs) = bs[n] /\ Last(bs) \in BlockSet
  BY <1>1 DEF Last
<1>3. Front(bs) = SubSeq(bs, 1, n - 1)
  BY DEF Front
<1> HIDE DEF n
<1>4. n - 1 \in Nat /\ \A i \in 1 .. n - 1 : bs[i] \in BlockSet
  BY <1>1
<1>5. /\ Front(bs) \in Seq(BlockSet) /\ Len(Front(bs)) = n - 1
      /\ \A i \in 1 .. n - 1 : Front(bs)[i] = bs[i]
  BY <1>3, <1>4, SubSeqProperties
<1> QED BY <1>1, <1>2, <1>5 DEF n

(* t_back takes the current block away and operands with it.               *)
LEMMA TBackBlocks ==
  ASSUME NEW s \in States, s.saved # << >>
  PROVE  /\ TBack(s) \in States /\ TBack(s).saved = Front(s.saved)
         /\ TBack(s).block = Last(s.saved)
<1> DEFINE excess == Len(s.stack) - Last(s.saved).size
           popped == IF excess > 0 THEN (excess + 1) \div 2 ELSE 0
           low == SubSeq(s.stack, 1, Len(s.stack) - popped)
<1>1. /\ Len(s.stack) \in Nat /\ s.stack \in Seq(Toks)
      /\ Last(s.saved) \in BlockSet /\ Front(s.saved) \in Seq(BlockSet)
  BY BlocksType, LastBlock
<1>2. Last(s.saved).size \in Nat
  BY <1>1 DEF BlockSet
<1>3. popped \in 0 .. Len(s.stack)
  BY <1>1, <1>2
<1> HIDE DEF popped
<1>4. low \in Seq(Toks)
  BY <1>1, <1>3
<1>5. TBack(s) = [s EXCEPT !.block = Last(s.saved), !.saved = Front(s.saved), !.stack = low]
  BY DEF TBack, low, popped, excess
<1> HIDE DEF low
<1> QED BY <1>1, <1>4, <1>5 DEF States

(* t_back repeated leaves the lower blocks as they are.                    *)
LEMMA UnwoundBlocks ==
  ASSUME NEW s \in States, NEW n \in 0 .. Len(s.saved)
  PROVE  /\ Unwound(s, n) \in States
         /\ Len(Unwound(s, n).saved) = Len(s.saved) - n
         /\ \A i \in 1 .. Len(s.saved) - n : Unwound(s, n).saved[i] = s.saved[i]
         /\ Unwound(s, n).block = Blocks(s)[Len(s.saved) + 1 - n]
<1> DEFINE m == Len(s.saved)
           Good(r, k) ==
             /\ r \in States /\ Len(r.saved) = m - k
             /\ \A i \in 1 .. m - k : r.saved[i] = s.saved[i]
             /\ r.block = Blocks(s)[m + 1 - k]
<1>1. m \in Nat /\ n \in Nat /\ n <= m
  BY BlocksType
<1>2. PICK back : /\ back = [i \in 0 .. n |-> IF i = 0 THEN s ELSE TBack(back[i - 1])]
                  /\ Unwound(s, n) = back[n]
  BY <1>1, UnwoundSteps
<1> DEFINE T == {k \in Nat : k <= n => Good(back[k], k)}
<1>3. 0 \in T
  <2>1. back[0] = s
    BY <1>1, <1>2
  <2>2. Blocks(s)[m + 1] = s.block
    BY BlocksType
  <2>3. Good(s, 0)
    BY <1>1, <2>2
  <2> HIDE DEF Good
  <2> QED BY <2>1, <2>3
<1>4. ASSUME NEW k \in Nat, k \in T
      PROVE  k + 1 \in T
  <2> HIDE DEF Good
  <2> SUFFICES ASSUME k + 1 <= n PROVE Good(back[k + 1], k + 1)
    OBVIOUS
  <2> USE DEF Good
  <2> DEFINE r == back[k]
  <2>1. Good(r, k) /\ back[k + 1] = TBack(r)
    <3>1. k <= n /\ k + 1 \in 0 .. n /\ k + 1 # 0 /\ (k + 1) - 1 = k
      BY <1>1
    <3>2. back[k + 1] = TBack(back[(k + 1) - 1])
      BY <1>2, <3>1
    <3> QED BY <1>4, <3>1, <3>2
  <2>2. /\ r \in States /\ r.saved \in Seq(BlockSet) /\ Len(r.saved) = m - k
        /\ \A i \in 1 .. m - k : r.saved[i] = s.saved[i]
    BY <2>1, BlocksType
  <2> HIDE DEF r, m, T
  <2>3. m - k \in Nat \ {0} /\ m - (k + 1) = (m - k) - 1 /\ m + 1 - (k + 1) = m - k
    BY <1>1
  <2>4. r.saved # << >>
    BY <2>2, <2>3
  <2>5. /\ TBack(r) \in States /\ TBack(r).saved = Front(r.saved)
        /\ TBack(r).block = Last(r.saved)
    BY <2>2, <2>4, TBackBlocks
  <2>6. /\ Last(r.saved) = r.saved[m - k] /\ Len(Front(r.saved)) = (m - k) - 1
        /\ \A i \in 1 .. (m - k) - 1 : Front(r.saved)[i] = r.saved[i]
    BY <2>2, <2>4, LastBlock
  <2>7. r.saved[m - k] = Blocks(s)[m - k]
    <3>1. m - k \in 1 .. m - k /\ m - k \in 1 .. m
      BY <1>1, <2>3
    <3>2. Blocks(s)[m - k] = s.saved[m - k]
      BY <3>1, BlocksType DEF m
    <3> QED BY <2>2, <3>1, <3>2
  <2>8. \A i \in 1 .. (m - k) - 1 : Front(r.saved)[i] = s.saved[i]
    <3>1. \A i \in 1 .. (m - k) - 1 : i \in 1 .. m - k
      BY <2>3
    <3> QED BY <2>2, <2>6, <3>1
  <2> QED BY <2>1, <2>3, <2>5, <2>6, <2>7, <2>8
<1>5. n \in T
  <2> HIDE DEF T
  <2> QED BY <1>1, <1>3, <1>4, Induction
<1>6. Good(Unwound(s, n), n)
  <2> HIDE DEF Good
  <2> QED BY <1>1, <1>2, <1>5
<1> QED BY <1>6

-----------------------------------------------------------------------------
(* What a block is where it is among the others. In code that is           *)
(* Structured, the scopes of the place where a block is are those of the   *)
(* block below and its own; the first block of a call is in none.          *)

First(code, b) == ~b.iter /\ b.goto = 0 /\ Scopes(code, b.ip) = << >>

Within(code, below, b, inForce) == Append(Scopes(code, below.ip), Scope(b.tok, inForce))
Inside(code, below, b) ==
  /\ b.iter /\ ~below.err
  /\ Scopes(code, b.ip) = Within(code, below, b, b.goto # 0)
  /\ b.goto # 0 => /\ b.goto \in DOMAIN code
                   /\ Scopes(code, b.goto) = Within(code, below, b, TRUE)
                   /\ Scopes(code, b.goto + 1) = Within(code, below, b, TRUE)

Above(code, below, b) ==
  \/ Inside(code, below, b)
  \/ First(code, b) /\ Scopes(code, below.ip + 1) = Scopes(code, below.ip)

Local(code, bs) ==
  /\ First(code, bs[1]) /\ ~bs[1].err
  /\ \A i \in 1 .. Len(bs) - 1 : Above(code, bs[i], bs[i + 1])
  /\ Len(bs) > 1 => ~bs[2].iter

(* The top block, or an upper part of the blocks, may be exchanged.        *)
LEMMA NewTop ==
  ASSUME NEW code, NEW bs \in Seq(BlockSet), NEW cs \in Seq(BlockSet),
         Local(code, bs), Len(cs) \in 1 .. Len(bs),
         \A i \in 1 .. Len(cs) - 1 : cs[i] = bs[i],
         Len(cs) = 1 => First(code, cs[1]) /\ ~cs[1].err,
         Len(cs) > 1 => Above(code, cs[Len(cs) - 1], cs[Len(cs)]),
         Len(cs) = 2 => ~cs[2].iter
  PROVE  Local(code, cs)
<1> DEFINE n == Len(cs)
           m == Len(bs)
<1>1. n \in Nat /\ m \in Nat /\ n \in 1 .. m
  OBVIOUS
<1>2. First(code, cs[1]) /\ ~cs[1].err
  <2>1. CASE n = 1
    BY <2>1
  <2>2. CASE n > 1
    <3>1. cs[1] = bs[1]
      BY <1>1, <2>2
    <3> QED BY <3>1 DEF Local
  <2>3. n = 1 \/ n > 1
    <3> HIDE DEF n, m
    <3> QED BY <1>1
  <2> QED BY <2>1, <2>2, <2>3
<1>3. ASSUME NEW i \in 1 .. n - 1
      PROVE  Above(code, cs[i], cs[i + 1])
  <2>1. CASE i = n - 1
    <3>1. n > 1 /\ i + 1 = n
      BY <1>1, <1>3, <2>1
    <3> QED BY <2>1, <3>1
  <2>2. CASE i # n - 1
    <3>1. i \in 1 .. m - 1 /\ i \in 1 .. n - 1 /\ i + 1 \in 1 .. n - 1
      BY <1>1, <1>3, <2>2
    <3>2. cs[i] = bs[i] /\ cs[i + 1] = bs[i + 1]
      BY <3>1
    <3>3. Above(code, bs[i], bs[i + 1])
      BY <3>1 DEF Local
    <3> QED BY <3>2, <3>3
  <2> QED BY <2>1, <2>2
<1>4. n > 1 => ~cs[2].iter
  <2>1. CASE n > 2
    <3>1. 2 \in 1 .. n - 1 /\ m > 1
      BY <1>1, <2>1
    <3>2. cs[2] = bs[2] /\ ~bs[2].iter
      BY <3>1 DEF Local
    <3> QED BY <3>2
  <2>2. CASE n = 2
    BY <2>2
  <2>3. n > 1 => n = 2 \/ n > 2
    <3> HIDE DEF n, m
    <3> QED BY <1>1
  <2> QED BY <2>1, <2>2, <2>3
<1> QED BY <1>2, <1>3, <1>4 DEF Local

(* A block may be put on top.                                              *)
LEMMA OneMore ==
  ASSUME NEW code, NEW bs \in Seq(BlockSet), bs # << >>, NEW b \in BlockSet,
         Local(code, bs), Above(code, bs[Len(bs)], b), Len(bs) = 1 => ~b.iter
  PROVE  Local(code, Append(bs, b))
<1> DEFINE n == Len(bs)
           cs == Append(bs, b)
<1>1. n \in Nat \ {0}
  BY EmptySeq
<1>2. Len(cs) = n + 1 /\ cs[n + 1] = b /\ \A i \in 1 .. n : cs[i] = bs[i]
  BY AppendProperties
<1> HIDE DEF n, cs
<1>3. First(code, cs[1]) /\ ~cs[1].err
  <2>1. cs[1] = bs[1]
    BY <1>1, <1>2
  <2> QED BY <2>1 DEF Local
<1>4. ASSUME NEW i \in 1 .. n
      PROVE  Above(code, cs[i], cs[i + 1])
  <2>1. CASE i = n
    <3>1. cs[i] = bs[Len(bs)] /\ cs[i + 1] = b
      BY <1>1, <1>2, <2>1 DEF n
    <3> QED BY <3>1
  <2>2. CASE i # n
    <3>1. i \in 1 .. n - 1 /\ i + 1 \in 1 .. n
      BY <1>1, <2>2
    <3>2. Above(code, bs[i], bs[i + 1])
      BY <3>1 DEF Local, n
    <3> QED BY <1>2, <3>1, <3>2
  <2> QED BY <2>1, <2>2
<1>5. ~cs[2].iter
  <2>1. CASE n = 1
    BY <1>2, <2>1 DEF n
  <2>2. CASE n > 1
    <3>1. cs[2] = bs[2] /\ ~bs[2].iter
      BY <1>1, <1>2, <2>2 DEF Local, n
    <3> QED BY <3>1
  <2> QED BY <1>1, <2>1, <2>2
<1>6. Len(cs) - 1 = n
  BY <1>1, <1>2
<1>7. Local(code, cs)
  BY <1>3, <1>4, <1>5, <1>6 DEF Local
<1> QED BY <1>7 DEF cs

(* The scopes of the places of the blocks are sequences, one longer for    *)
(* every block inside another.                                             *)
ScopeSet == [tok : Names, inForce : BOOLEAN]
LEMMA ScopesType ==
  ASSUME NEW code, NEW bs \in Seq(BlockSet), Local(code, bs), NEW k \in 1 .. Len(bs)
  PROVE  Scopes(code, bs[k].ip) \in Seq(ScopeSet)
<1> DEFINE T == {i \in Nat : i + 1 \in 1 .. Len(bs) => Scopes(code, bs[i + 1].ip) \in Seq(ScopeSet)}
<1>1. 0 \in T
  <2>1. Scopes(code, bs[1].ip) = << >>
    BY DEF Local, First
  <2>2. << >> \in Seq(ScopeSet)
    BY EmptySeq
  <2>3. 0 + 1 = 1 /\ 0 \in Nat
    OBVIOUS
  <2> QED BY <2>1, <2>2, <2>3
<1>2. ASSUME NEW i \in Nat, i \in T
      PROVE  i + 1 \in T
  <2> SUFFICES ASSUME i + 2 \in 1 .. Len(bs)
               PROVE  Scopes(code, bs[i + 2].ip) \in Seq(ScopeSet)
    BY (i + 1) + 1 = i + 2
  <2>1. i + 1 \in 1 .. Len(bs) - 1 /\ i + 1 \in 1 .. Len(bs) /\ (i + 1) + 1 = i + 2
    OBVIOUS
  <2>2. Scopes(code, bs[i + 1].ip) \in Seq(ScopeSet)
    BY <1>2, <2>1
  <2>3. Above(code, bs[i + 1], bs[i + 2])
    BY <2>1 DEF Local
  <2>4. CASE Inside(code, bs[i + 1], bs[i + 2])
    <3>1. bs[i + 2] \in BlockSet
      BY ElementOfSeq
    <3>2. Scope(bs[i + 2].tok, bs[i + 2].goto # 0) \in ScopeSet
      BY <3>1 DEF Scope, ScopeSet, BlockSet
    <3>3. Scopes(code, bs[i + 2].ip)
            = Append(Scopes(code, bs[i + 1].ip), Scope(bs[i + 2].tok, bs[i + 2].goto # 0))
      BY <2>4 DEF Inside, Within
    <3> QED BY <2>2, <3>2, <3>3, AppendProperties
  <2>5. CASE First(code, bs[i + 2])
    <3>1. Scopes(code, bs[i + 2].ip) = << >>
      BY <2>5 DEF First
    <3> QED BY <3>1, EmptySeq
  <2> QED BY <2>3, <2>4, <2>5 DEF Above
<1>3. k - 1 \in T
  <2>1. k - 1 \in Nat
    OBVIOUS
  <2> HIDE DEF T
  <2> QED BY <1>1, <1>2, <2>1, Induction
<1> QED BY <1>3

-----------------------------------------------------------------------------
(* The same of a thread.                                                   *)

Ok(code, s) == s \in States /\ Local(code, Blocks(s))

(* What Local says of the current block.                                   *)
LEMMA TopIsLocal ==
  ASSUME NEW code, NEW s, Ok(code, s)
  PROVE  /\ s.saved = << >> => First(code, s.block) /\ ~s.block.err
         /\ s.saved # << >> => /\ Len(s.saved) \in 1 .. Len(s.saved)
                               /\ Above(code, s.saved[Len(s.saved)], s.block)
         /\ Len(s.saved) = 1 => ~s.block.iter
<1> DEFINE n == Len(s.saved)
           bs == Blocks(s)
<1>1. /\ s \in States /\ n \in Nat /\ s.saved \in Seq(BlockSet)
      /\ Len(bs) = n + 1 /\ bs[n + 1] = s.block
      /\ \A i \in 1 .. n : bs[i] = s.saved[i]
  BY BlocksType DEF Ok
<1>2. s.saved # << >> => n # 0
  BY <1>1, EmptySeq
<1>3. s.saved = << >> => n = 0
  BY EmptySeq
<1> HIDE DEF n, bs
<1>4. Local(code, bs)
  BY DEF Ok, bs
<1>5. s.saved = << >> => First(code, s.block) /\ ~s.block.err
  <2> SUFFICES ASSUME s.saved = << >> PROVE First(code, s.block) /\ ~s.block.err
    OBVIOUS
  <2>1. bs[1] = s.block
    BY <1>1, <1>3
  <2> QED BY <1>4, <2>1 DEF Local
<1>6. s.saved # << >> => n \in 1 .. n /\ Above(code, s.saved[n], s.block)
  <2> SUFFICES ASSUME s.saved # << >> PROVE n \in 1 .. n /\ Above(code, s.saved[n], s.block)
    OBVIOUS
  <2>1. n \in 1 .. n /\ n \in 1 .. Len(bs) - 1
    BY <1>1, <1>2
  <2>2. Above(code, bs[n], bs[n + 1])
    BY <1>4, <2>1 DEF Local
  <2> QED BY <1>1, <2>1, <2>2
<1>7. n = 1 => ~s.block.iter
  <2> SUFFICES ASSUME n = 1 PROVE ~s.block.iter
    OBVIOUS
  <2>1. bs[2] = s.block /\ Len(bs) > 1
    BY <1>1
  <2> QED BY <1>4, <2>1 DEF Local
<1> QED BY <1>5, <1>6, <1>7 DEF n

(* A thread with an upper part of the blocks exchanged.                    *)
LEMMA NewBlock ==
  ASSUME NEW code, NEW s, Ok(code, s), NEW r \in States,
         Len(r.saved) <= Len(s.saved),
         \A i \in 1 .. Len(r.saved) : r.saved[i] = s.saved[i],
         Len(r.saved) = 0 => First(code, r.block) /\ ~r.block.err,
         Len(r.saved) > 0 => Above(code, r.saved[Len(r.saved)], r.block),
         Len(r.saved) = 1 => ~r.block.iter
  PROVE  Ok(code, r)
<1> DEFINE bs == Blocks(s)
           cs == Blocks(r)
           n  == Len(r.saved)
           m  == Len(s.saved)
<1>1. /\ m \in Nat /\ Len(bs) = m + 1 /\ bs \in Seq(BlockSet)
      /\ \A i \in 1 .. m : bs[i] = s.saved[i]
  BY BlocksType DEF Ok
<1>2. /\ n \in Nat /\ Len(cs) = n + 1 /\ cs \in Seq(BlockSet) /\ cs[n + 1] = r.block
      /\ \A i \in 1 .. n : cs[i] = r.saved[i]
  BY BlocksType
<1>3. n <= m /\ \A i \in 1 .. n : r.saved[i] = s.saved[i]
  OBVIOUS
<1>4. /\ n = 0 => First(code, r.block) /\ ~r.block.err
      /\ n > 0 => Above(code, r.saved[n], r.block)
      /\ n = 1 => ~r.block.iter
  OBVIOUS
<1>5. Local(code, bs)
  BY DEF Ok
<1> HIDE DEF bs, cs, n, m
<1>6. Len(cs) \in 1 .. Len(bs) /\ Len(cs) - 1 = n
  BY <1>1, <1>2, <1>3
<1>7. \A i \in 1 .. Len(cs) - 1 : cs[i] = bs[i]
  <2> SUFFICES ASSUME NEW i \in 1 .. n PROVE cs[i] = bs[i]
    BY <1>6
  <2>1. i \in 1 .. m
    BY <1>1, <1>2, <1>3
  <2> QED BY <1>1, <1>2, <1>3, <2>1
<1>8. Len(cs) = 1 => First(code, cs[1]) /\ ~cs[1].err
  <2> SUFFICES ASSUME Len(cs) = 1 PROVE First(code, cs[1]) /\ ~cs[1].err
    OBVIOUS
  <2>0. Len(cs) = n + 1 /\ n \in Nat
    BY <1>2
  <2>1. n = 0
    BY <2>0, Small
  <2>2. cs[1] = r.block
    BY <1>2, <2>1
  <2> QED BY <1>4, <2>1, <2>2
<1>9. Len(cs) > 1 => Above(code, cs[Len(cs) - 1], cs[Len(cs)])
  <2>1. Len(cs) > 1 => n > 0 /\ n \in 1 .. n /\ cs[Len(cs)] = r.block
    BY <1>2
  <2>2. Len(cs) > 1 => cs[Len(cs) - 1] = r.saved[n]
    BY <1>2, <1>6, <2>1
  <2> QED BY <1>4, <2>1, <2>2
<1>10. Len(cs) = 2 => ~cs[2].iter
  <2> SUFFICES ASSUME Len(cs) = 2 PROVE ~cs[2].iter
    OBVIOUS
  <2>0. Len(cs) = n + 1 /\ n \in Nat
    BY <1>2
  <2>1. n = 1
    BY <2>0, Small
  <2>2. cs[2] = r.block
    BY <1>2, <2>1
  <2> QED BY <1>4, <2>1, <2>2
<1>11. Local(code, cs)
  BY <1>1, <1>2, <1>5, <1>6, <1>7, <1>8, <1>9, <1>10, NewTop
<1> QED BY <1>11 DEF Ok, cs

(* Blocks at which the same can be said.                                   *)
Same(code, b, c) ==
  /\ b.iter = c.iter /\ b.tok = c.tok /\ b.goto = c.goto
  /\ Scopes(code, b.ip) = Scopes(code, c.ip)
LEMMA SameAbove ==
  ASSUME NEW code, NEW a, NEW b, NEW c, Above(code, a, b), Same(code, b, c)
  PROVE  Above(code, a, c)
<1>1. CASE Inside(code, a, b)
  <2>1. Inside(code, a, c)
    BY <1>1 DEF Inside, Within, Same
  <2> QED BY <2>1 DEF Above
<1>2. CASE First(code, b) /\ Scopes(code, a.ip + 1) = Scopes(code, a.ip)
  <2>1. First(code, c)
    BY <1>2 DEF First, Same
  <2> QED BY <1>2, <2>1 DEF Above
<1> QED BY <1>1, <1>2 DEF Above

LEMMA SameTop ==
  ASSUME NEW code, NEW s, Ok(code, s), NEW r \in States, r.saved = s.saved,
         Same(code, s.block, r.block), s.saved = << >> => ~r.block.err
  PROVE  Ok(code, r)
<1>1. s \in States /\ s.saved \in Seq(BlockSet) /\ Len(s.saved) \in Nat
  BY BlocksType DEF Ok
<1>2. Len(s.saved) = 0 => s.saved = << >>
  BY <1>1, EmptySeq
<1>3. Len(s.saved) > 0 => s.saved # << >>
  BY EmptySeq
<1>4. Len(r.saved) = 0 => First(code, r.block) /\ ~r.block.err
  BY <1>2, TopIsLocal DEF First, Same
<1>5. Len(r.saved) > 0 => Above(code, r.saved[Len(r.saved)], r.block)
  BY <1>3, TopIsLocal, SameAbove
<1>6. Len(r.saved) = 1 => ~r.block.iter
  BY TopIsLocal DEF Same
<1>7. Len(r.saved) <= Len(s.saved)
  BY <1>1
<1> QED BY <1>4, <1>5, <1>6, <1>7, NewBlock

(* A block on top of the current one.                                      *)
LEMMA OnTop ==
  ASSUME NEW code, NEW s, Ok(code, s), NEW r \in States,
         r.saved = Append(s.saved, s.block), Above(code, s.block, r.block),
         s.saved = << >> => ~r.block.iter
  PROVE  Ok(code, r)
<1> DEFINE bs == Blocks(s)
<1>1. /\ s.saved \in Seq(BlockSet) /\ Len(s.saved) \in Nat
      /\ bs \in Seq(BlockSet) /\ Len(bs) = Len(s.saved) + 1 /\ bs[Len(bs)] = s.block
  BY BlocksType DEF Ok
<1>2. r.block \in BlockSet
  BY DEF States
<1>3. Blocks(r) = Append(bs, r.block)
  BY DEF Blocks
<1>4. Local(code, bs)
  BY DEF Ok
<1> HIDE DEF bs
<1>5. bs # << >>
  BY <1>1, EmptySeq
<1>6. Len(bs) = 1 => ~r.block.iter
  <2> SUFFICES ASSUME Len(bs) = 1 PROVE ~r.block.iter
    OBVIOUS
  <2> DEFINE m == Len(s.saved)
             n == Len(bs)
  <2>0. n = 1 /\ n = m + 1 /\ m \in Nat
    BY <1>1
  <2> HIDE DEF m, n
  <2>1. m = 0
    BY <2>0
  <2>2. s.saved = << >>
    BY <1>1, <2>1, EmptySeq DEF m
  <2> QED BY <2>2
<1>7. Local(code, Append(bs, r.block))
  BY <1>1, <1>2, <1>4, <1>5, <1>6, OneMore
<1> QED BY <1>3, <1>7 DEF Ok

(* t_back repeated.                                                        *)
LEMMA BackIsLocal ==
  ASSUME NEW code, NEW s, Ok(code, s), NEW n \in 0 .. Len(s.saved)
  PROVE  Ok(code, Unwound(s, n))
<1> DEFINE r == Unwound(s, n)
           m == Len(s.saved)
           bs == Blocks(s)
<1>1. /\ r \in States /\ Len(r.saved) = m - n
      /\ \A i \in 1 .. m - n : r.saved[i] = s.saved[i]
      /\ r.block = bs[m + 1 - n]
  BY UnwoundBlocks DEF Ok
<1>2. /\ m \in Nat /\ Len(bs) = m + 1 /\ \A i \in 1 .. m : bs[i] = s.saved[i]
  BY BlocksType DEF Ok
<1>3. Local(code, bs)
  BY DEF Ok
<1>4. n \in Nat /\ n <= m
  BY <1>2
<1> HIDE DEF r, m, bs
<1> DEFINE k == m - n
<1>5. k \in Nat /\ k <= m /\ r.block = bs[k + 1] /\ Len(r.saved) = k
  <2>1. m + 1 - n = k + 1
    BY <1>2, <1>4
  <2> QED BY <1>1, <1>2, <1>4, <2>1
<1>6. \A i \in 1 .. k : r.saved[i] = s.saved[i]
  BY <1>1
<1> HIDE DEF k
<1>7. k = 0 => First(code, r.block) /\ ~r.block.err
  <2>1. k = 0 => r.block = bs[1]
    BY <1>5
  <2> QED BY <1>3, <2>1 DEF Local
<1>8. k > 0 => Above(code, r.saved[k], r.block)
  <2> SUFFICES ASSUME k > 0 PROVE Above(code, r.saved[k], r.block)
    OBVIOUS
  <2>1. k \in 1 .. k /\ k \in 1 .. m /\ k \in 1 .. Len(bs) - 1
    BY <1>2, <1>5
  <2>2. r.saved[k] = bs[k]
    BY <1>2, <1>6, <2>1
  <2>3. Above(code, bs[k], bs[k + 1])
    BY <1>3, <2>1 DEF Local
  <2> QED BY <1>5, <2>2, <2>3
<1>9. k = 1 => ~r.block.iter
  <2>1. k = 1 => r.block = bs[2] /\ Len(bs) > 1
    BY <1>2, <1>5
  <2> QED BY <1>3, <2>1 DEF Local
<1>10. Ok(code, r)
  <2>1. Len(r.saved) <= Len(s.saved)
    BY <1>5 DEF m
  <2>2. \A i \in 1 .. Len(r.saved) : r.saved[i] = s.saved[i]
    BY <1>5, <1>6
  <2>3. Len(r.saved) = 0 => First(code, r.block) /\ ~r.block.err
    BY <1>5, <1>7
  <2>4. Len(r.saved) > 0 => Above(code, r.saved[Len(r.saved)], r.block)
    BY <1>5, <1>8
  <2>5. Len(r.saved) = 1 => ~r.block.iter
    BY <1>5, <1>9
  <2> QED BY <1>1, <2>1, <2>2, <2>3, <2>4, <2>5, NewBlock
<1> QED BY <1>10 DEF r

-----------------------------------------------------------------------------
(* The steps a thread is made of.                                          *)

LEMMA ShiftIs ==
  ASSUME NEW s \in States, NEW n \in Int, s.block.ip + n \in Nat
  PROVE  /\ Shift(s, n) \in States /\ Shift(s, n).saved = s.saved
         /\ Shift(s, n).block = [s.block EXCEPT !.ip = s.block.ip + n]
<1>1. s.block \in BlockSet
  BY DEF States
<1>2. [s.block EXCEPT !.ip = s.block.ip + n] \in BlockSet
  BY <1>1 DEF BlockSet
<1>3. Shift(s, n) = [s EXCEPT !.block = [s.block EXCEPT !.ip = s.block.ip + n]]
  BY DEF Shift, States
<1> QED BY <1>2, <1>3 DEF States

LEMMA ShiftIsLocal ==
  ASSUME NEW code, NEW s, Ok(code, s), NEW n \in Int, s.block.ip + n \in Nat,
         Scopes(code, s.block.ip + n) = Scopes(code, s.block.ip)
  PROVE  Ok(code, Shift(s, n))
<1> DEFINE r == Shift(s, n)
<1>1. s \in States /\ s.block \in BlockSet
  BY DEF Ok, States
<1>2. /\ r \in States /\ r.saved = s.saved
      /\ r.block = [s.block EXCEPT !.ip = s.block.ip + n]
  BY <1>1, ShiftIs
<1> HIDE DEF r
<1>3. /\ r.block.iter = s.block.iter /\ r.block.tok = s.block.tok
      /\ r.block.goto = s.block.goto /\ r.block.err = s.block.err
      /\ r.block.ip = s.block.ip + n
  BY <1>1, <1>2 DEF BlockSet
<1>4. Same(code, s.block, r.block)
  BY <1>3 DEF Same
<1>5. s.saved = << >> => ~r.block.err
  BY <1>3, TopIsLocal
<1>6. Ok(code, r)
  BY <1>2, <1>4, <1>5, SameTop
<1> QED BY <1>6 DEF r

(* What the step of an instruction does last, when there is no error.      *)
LEMMA FinishIsLocal ==
  ASSUME NEW code, NEW s, Ok(code, s), ~s.block.err,
         Scopes(code, s.block.ip + 1) = Scopes(code, s.block.ip)
  PROVE  Ok(code, Finish(s)) /\ ~Finish(s).block.err /\ Finish(s).saved = s.saved
<1>1. s \in States /\ s.block \in BlockSet
  BY DEF Ok, States
<1>2. s.block.ip + 1 \in Nat
  BY <1>1 DEF BlockSet
<1>3. Finish(s) = Shift(s, 1)
  BY DEF Finish
<1>4. Ok(code, Shift(s, 1))
  BY <1>2, ShiftIsLocal
<1>5. Shift(s, 1).saved = s.saved /\ Shift(s, 1).block.err = s.block.err
  <2>1. /\ Shift(s, 1).saved = s.saved
        /\ Shift(s, 1).block = [s.block EXCEPT !.ip = s.block.ip + 1]
    BY <1>1, <1>2, ShiftIs
  <2> QED BY <1>1, <2>1 DEF BlockSet
<1> QED BY <1>3, <1>4, <1>5

LEMMA BlockType ==
  ASSUME NEW ip \in Nat, NEW tok \in Names, NEW iter \in BOOLEAN
  PROVE  Block(ip, tok, iter) \in BlockSet
BY DEF Block, BlockSet

(* The block that a new one is put on.                                     *)
Lower(s) == [s.block EXCEPT !.size = Len(s.stack)]
LEMMA LowerIs ==
  ASSUME NEW s \in States
  PROVE  /\ Lower(s) \in BlockSet /\ Lower(s).ip = s.block.ip /\ Lower(s).err = s.block.err
         /\ \A code : Same(code, s.block, Lower(s))
<1>1. s.block \in BlockSet /\ Len(s.stack) \in Nat
  BY BlocksType
<1> QED BY <1>1 DEF Lower, BlockSet, Same

LEMMA NewBlockIs ==
  ASSUME NEW s \in States, NEW tok \in Names, NEW iter \in BOOLEAN
  PROVE  /\ TNewBlock(s, tok, iter) \in States
         /\ TNewBlock(s, tok, iter).saved = Append(s.saved, Lower(s))
         /\ TNewBlock(s, tok, iter).block = Block(s.block.ip, tok, iter)
<1>1. s.saved \in Seq(BlockSet) /\ s.block \in BlockSet
  BY DEF States
<1>2. Append(s.saved, Lower(s)) \in Seq(BlockSet)
  BY <1>1, LowerIs, AppendProperties
<1>3. s.block.ip \in Nat
  BY <1>1 DEF BlockSet
<1>4. Block(s.block.ip, tok, iter) \in BlockSet
  BY <1>3, BlockType
<1>5. TNewBlock(s, tok, iter)
        = [s EXCEPT !.saved = Append(s.saved, Lower(s)),
                    !.block = Block(s.block.ip, tok, iter)]
  BY DEF TNewBlock, Lower
<1> QED BY <1>2, <1>4, <1>5 DEF States

(* A block put on the current one, whatever instruction it begins at.      *)
LEMMA NewBlockIsLocal ==
  ASSUME NEW code, NEW s, Ok(code, s), NEW r \in States,
         r.saved = Append(s.saved, Lower(s)), Above(code, Lower(s), r.block),
         s.saved = << >> => ~r.block.iter
  PROVE  Ok(code, r)
<1> DEFINE q == [s EXCEPT !.block = Lower(s)]
<1>1. s \in States
  BY DEF Ok
<1>2. /\ Lower(s) \in BlockSet /\ Lower(s).err = s.block.err /\ Same(code, s.block, Lower(s))
  BY <1>1, LowerIs
<1>3. q \in States /\ q.saved = s.saved /\ q.block = Lower(s)
  BY <1>1, <1>2 DEF States
<1> HIDE DEF q
<1>4. s.saved = << >> => ~q.block.err
  BY <1>2, <1>3, TopIsLocal
<1>5. Ok(code, q)
  BY <1>2, <1>3, <1>4, SameTop
<1> QED BY <1>3, <1>5, OnTop

(* A call, after the shift that ends the step.                             *)
Code == prog.code
Fine == prog \in Programs /\ Structured(prog)

LEMMA EntryFacts ==
  ASSUME Fine, NEW f \in DOMAIN prog.entry
  PROVE  /\ f \in Names /\ prog.entry[f] \in Nat \ {0}
         /\ Scopes(Code, prog.entry[f]) = << >>
<1>1. f \in Names
  BY DEF Fine, Names
<1>2. prog.entry[f] \in Nat \ {0}
  BY VmControlAssumption DEF Fine, WellFormed
<1>3. Scopes(Code, prog.entry[f]) = << >>
  BY DEF Fine, Structured, Code
<1> QED BY <1>1, <1>2, <1>3

LEMMA TwoFunctions ==
  ASSUME Fine
  PROVE  /\ "Error" \in DOMAIN prog.entry /\ "raise_error" \in DOMAIN prog.entry
         /\ Scopes(Code, prog.entry["raise_error"] + 1) = << >>
         /\ Scopes(Code, 0) = << >> /\ Scopes(Code, 1) = << >>
<1>1. "Error" \in DOMAIN prog.entry /\ "raise_error" \in DOMAIN prog.entry
  BY VmControlAssumption DEF Fine, WellFormed
<1>2. /\ Scopes(Code, prog.entry["raise_error"] + 1) = << >>
      /\ Scopes(Code, 0) = << >> /\ Scopes(Code, 1) = << >>
  BY DEF Fine, Structured, Code
<1> QED BY <1>1, <1>2

LEMMA CallIsLocal ==
  ASSUME Fine, NEW s, Ok(Code, s), NEW f \in DOMAIN prog.entry,
         Scopes(Code, s.block.ip + 1) = Scopes(Code, s.block.ip)
  PROVE  /\ Ok(Code, Shift(CallFn(s, f), 1)) /\ ~Shift(CallFn(s, f), 1).block.err
         /\ Shift(CallFn(s, f), 1).saved # << >>
         /\ Shift(CallFn(s, f), 1).block.tok = f
         /\ Shift(CallFn(s, f), 1).block.ip = prog.entry[f]
         /\ ~CallFn(s, f).block.err
<1> DEFINE c == TNewBlock(s, f, FALSE)
           q == CallFn(s, f)
           r == Shift(q, 1)
           e == prog.entry[f]
<1>1. s \in States /\ f \in Names /\ e \in Nat \ {0}
  BY EntryFacts DEF Ok
<1>2. /\ c \in States /\ c.saved = Append(s.saved, Lower(s))
      /\ c.block = Block(s.block.ip, f, FALSE)
  BY <1>1, NewBlockIs
<1>3. c.block \in BlockSet /\ s.block \in BlockSet /\ s.saved \in Seq(BlockSet)
  BY <1>1, <1>2 DEF States
<1>4. q = [c EXCEPT !.block = [c.block EXCEPT !.ip = e - 1]]
  BY <1>2 DEF CallFn, States
<1>5. e - 1 \in Nat /\ e \in Nat /\ 1 \in Int
  BY <1>1
<1> HIDE DEF c, q, e, r
<1>6. /\ q \in States /\ q.saved = c.saved
      /\ q.block = [c.block EXCEPT !.ip = e - 1]
  BY <1>2, <1>3, <1>4, <1>5 DEF States, BlockSet
<1>7. q.block.ip = e - 1
  BY <1>3, <1>6 DEF BlockSet
<1>8. /\ r \in States /\ r.saved = q.saved
      /\ r.block = [q.block EXCEPT !.ip = e]
  <2>1. q.block.ip + 1 = e /\ q.block.ip + 1 \in Nat
    BY <1>1, <1>5, <1>7
  <2>2. /\ Shift(q, 1) \in States /\ Shift(q, 1).saved = q.saved
        /\ Shift(q, 1).block = [q.block EXCEPT !.ip = q.block.ip + 1]
    BY <1>5, <1>6, <2>1, ShiftIs
  <2> QED BY <2>1, <2>2 DEF r
<1>9. /\ r.block.ip = e /\ r.block.tok = f /\ r.block.iter = FALSE
      /\ r.block.goto = 0 /\ r.block.err = FALSE
  BY <1>2, <1>6, <1>8 DEF Block
<1>10. First(Code, r.block)
  BY <1>9, EntryFacts DEF First, e
<1>11. Above(Code, Lower(s), r.block)
  <2>1. Lower(s).ip = s.block.ip
    BY <1>1, LowerIs
  <2> QED BY <1>10, <2>1 DEF Above
<1>12. r.saved = Append(s.saved, Lower(s))
  BY <1>2, <1>6, <1>8
<1>13. Ok(Code, r)
  BY <1>8, <1>9, <1>11, <1>12, NewBlockIsLocal
<1>14. r.saved # << >>
  <2>1. Lower(s) \in BlockSet
    BY <1>1, LowerIs
  <2> QED BY <1>3, <1>12, <2>1, AppendProperties
<1>15. r = Shift(CallFn(s, f), 1)
  BY DEF r, q
<1>16. ~CallFn(s, f).block.err
  BY <1>2, <1>6 DEF Block, q
<1> QED BY <1>9, <1>13, <1>14, <1>15, <1>16 DEF e

(* What a step must leave: a current block without an error, above others. *)
After(r) == Ok(Code, r) /\ ~r.block.err /\ r.saved # << >>

(* An error is marked in the block that failed.                            *)
Failed(s) == [s EXCEPT !.block.err = TRUE]
LEMMA FailedIsLocal ==
  ASSUME NEW s, Ok(Code, s), s.saved # << >>
  PROVE  /\ Ok(Code, Failed(s)) /\ Failed(s).saved = s.saved
         /\ Failed(s).block = [s.block EXCEPT !.err = TRUE]
         /\ Failed(s).block.ip = s.block.ip
<1> DEFINE r == Failed(s)
<1>1. s \in States /\ s.block \in BlockSet
  BY DEF Ok, States
<1>2. r = [s EXCEPT !.block = [s.block EXCEPT !.err = TRUE]]
  BY <1>1 DEF Failed, States
<1> HIDE DEF r
<1>3. [s.block EXCEPT !.err = TRUE] \in BlockSet
  BY <1>1 DEF BlockSet
<1>4. r \in States /\ r.saved = s.saved /\ r.block = [s.block EXCEPT !.err = TRUE]
  BY <1>1, <1>2, <1>3 DEF States
<1>5. r.block.ip = s.block.ip /\ Same(Code, s.block, r.block)
  BY <1>1, <1>4 DEF BlockSet, Same
<1>6. Ok(Code, r)
  BY <1>4, <1>5, SameTop
<1> QED BY <1>4, <1>5, <1>6 DEF r

LEMMA ThrowIsLocal ==
  ASSUME Fine, NEW s, Ok(Code, s), s.saved # << >>,
         Scopes(Code, s.block.ip + 1) = Scopes(Code, s.block.ip)
  PROVE  After(Finish(ThrowError(s)))
<1> DEFINE q == Failed(s)
<1>1. Ok(Code, q) /\ q.block.ip = s.block.ip
  BY FailedIsLocal
<1>2. "Error" \in DOMAIN prog.entry
  BY TwoFunctions
<1>3. ThrowError(s) = CallFn(q, "Error")
  BY DEF ThrowError, Failed
<1> HIDE DEF q
<1>4. /\ Ok(Code, Shift(CallFn(q, "Error"), 1))
      /\ ~Shift(CallFn(q, "Error"), 1).block.err
      /\ Shift(CallFn(q, "Error"), 1).saved # << >>
      /\ ~CallFn(q, "Error").block.err
  BY <1>1, <1>2, CallIsLocal
<1>5. Finish(ThrowError(s)) = Shift(CallFn(q, "Error"), 1)
  BY <1>3, <1>4 DEF Finish
<1> QED BY <1>4, <1>5 DEF After

(* The block where an error is caught.                                     *)
LEMMA CatcherIs ==
  ASSUME NEW s \in States
  PROVE  /\ Max(Handlers(s) \cup {1}) \in Handlers(s) \cup {1}
         /\ Max(Handlers(s) \cup {1}) \in 1 .. Len(s.saved) + 1
         /\ \A j \in Handlers(s) : j <= Max(Handlers(s) \cup {1})
<1> DEFINE S == Handlers(s) \cup {1}
           n == Len(s.saved) + 1
<1>1. n \in Nat /\ 1 \in 1 .. n /\ DOMAIN Blocks(s) = 1 .. n
  BY BlocksType
<1>2. S \in SUBSET (1 .. n) /\ S # {}
  BY <1>1 DEF Handlers
<1>3. \A j \in Handlers(s) : j \in S
  OBVIOUS
<1> HIDE DEF S, n
<1>4. PICK x \in S : \A y \in S : y <= x
  BY <1>1, <1>2, Largest
<1>5. \A x1 \in S, y \in S : x1 >= y <=> y <= x1
  BY <1>2
<1>6. Max(S) \in S /\ \A y \in S : Max(S) >= y
  BY <1>4, <1>5 DEF Max
<1>7. \A j \in Handlers(s) : j <= Max(S)
  BY <1>3, <1>5, <1>6
<1> QED BY <1>2, <1>6, <1>7 DEF S, n

LEMMA CatchIsLocal ==
  ASSUME Fine, NEW s, Ok(Code, s), s.saved # << >>
  PROVE  /\ After(CatchError(s))
         /\ Scopes(Code, CatchError(s).block.ip + 1) = Scopes(Code, CatchError(s).block.ip)
         /\ Handlers(s) = {} => CatchError(s).block.tok = "raise_error"
         /\ Handlers(s) # {} => /\ Len(CatchError(s).saved) + 1 \in Handlers(s)
                                /\ \A j \in Handlers(s) : j <= Len(CatchError(s).saved) + 1
                                /\ CatchError(s).block.iter
                                /\ CatchError(s).block.goto # 0
<1> DEFINE m == Len(s.saved)
           i == Max(Handlers(s) \cup {1})
           u == Unwound(s, m + 1 - i)
           bs == Blocks(s)
           r == CatchError(s)
<1>1. /\ s \in States /\ m \in Nat /\ DOMAIN bs = 1 .. m + 1 /\ m # 0
      /\ s.saved \in Seq(BlockSet)
  BY BlocksType, EmptySeq DEF Ok
<1>2. /\ i \in Handlers(s) \cup {1} /\ i \in 1 .. m + 1
      /\ \A j \in Handlers(s) : j <= i
  BY <1>1, CatcherIs
<1>3. /\ r = IF u.block.goto = 0 THEN Shift(CallFn(u, "raise_error"), 1)
             ELSE [u EXCEPT !.block.ip = u.block.goto, !.block.err = FALSE]
  BY DEF CatchError, CatchErrorIn
<1> HIDE DEF i, u, m, bs, r
<1>4. m + 1 - i \in 0 .. m /\ m - (m + 1 - i) = i - 1 /\ m + 1 - (m + 1 - i) = i
  BY <1>1, <1>2
<1>5. Ok(Code, u)
  BY <1>4, BackIsLocal DEF u, m
<1>6. u \in States /\ Len(u.saved) = i - 1 /\ u.block = bs[i]
  BY <1>1, <1>4, UnwoundBlocks DEF u, m, bs
<1>7. u.block \in BlockSet /\ u.saved \in Seq(BlockSet)
  BY <1>6 DEF States
<1>8. CASE u.block.goto = 0
  <2>1. i \notin Handlers(s)
    BY <1>6, <1>8 DEF Handlers, bs
  <2>2. i = 1
    BY <1>2, <2>1
  <2>3. Handlers(s) = {}
    <3> SUFFICES ASSUME NEW j \in Handlers(s) PROVE FALSE
      OBVIOUS
    <3>1. j <= 1 /\ j \in 1 .. m + 1
      BY <1>1, <1>2, <2>2 DEF Handlers, bs
    <3>2. j = 1
      BY <1>1, <3>1
    <3> QED BY <2>1, <2>2, <3>2
  <2>4. Scopes(Code, u.block.ip + 1) = Scopes(Code, u.block.ip)
    <3>1. Local(Code, bs) /\ Len(bs) = m + 1
      BY BlocksType DEF Ok, bs, m
    <3>2. 1 \in 1 .. Len(bs) - 1 /\ Len(bs) > 1
      BY <1>1, <3>1
    <3>3. Above(Code, bs[1], bs[2]) /\ ~bs[2].iter
      BY <3>1, <3>2 DEF Local
    <3>4. Scopes(Code, bs[1].ip + 1) = Scopes(Code, bs[1].ip)
      BY <3>3 DEF Above, Inside
    <3> QED BY <1>6, <2>2, <3>4
  <2>5. "raise_error" \in DOMAIN prog.entry
    BY TwoFunctions
  <2>6. r = Shift(CallFn(u, "raise_error"), 1)
    BY <1>3, <1>8
  <2>7. /\ Ok(Code, r) /\ ~r.block.err /\ r.saved # << >>
        /\ r.block.tok = "raise_error" /\ r.block.ip = prog.entry["raise_error"]
    BY <1>5, <2>4, <2>5, <2>6, CallIsLocal
  <2>8. Scopes(Code, r.block.ip + 1) = Scopes(Code, r.block.ip)
    BY <2>5, <2>7, TwoFunctions, EntryFacts
  <2> QED BY <2>3, <2>7, <2>8 DEF After, r
<1>9. CASE u.block.goto # 0
  <2>1. i \in Handlers(s)
    BY <1>1, <1>2, <1>6, <1>9 DEF Handlers, bs
  <2>2. r = [u EXCEPT !.block = [u.block EXCEPT !.ip = u.block.goto, !.err = FALSE]]
    BY <1>3, <1>6, <1>9 DEF States
  <2>3. [u.block EXCEPT !.ip = u.block.goto, !.err = FALSE] \in BlockSet
    BY <1>7 DEF BlockSet
  <2>4. /\ r \in States /\ r.saved = u.saved
        /\ r.block = [u.block EXCEPT !.ip = u.block.goto, !.err = FALSE]
    BY <1>6, <2>2, <2>3 DEF States
  <2>5. /\ r.block.ip = u.block.goto /\ r.block.err = FALSE /\ r.block.tok = u.block.tok
        /\ r.block.iter = u.block.iter /\ r.block.goto = u.block.goto
    BY <1>7, <2>4 DEF BlockSet
  <2>6. u.saved # << >>
    BY <1>5, <1>9, TopIsLocal DEF First
  <2>7. Len(u.saved) \in 1 .. Len(u.saved) /\ Inside(Code, u.saved[Len(u.saved)], u.block)
    BY <1>5, <1>9, <2>6, TopIsLocal DEF Above, First
  <2>8. /\ Scopes(Code, u.block.ip) = Scopes(Code, u.block.goto)
        /\ Scopes(Code, u.block.goto + 1) = Scopes(Code, u.block.goto)
        /\ u.block.iter
    BY <1>9, <2>7 DEF Inside
  <2>9. Same(Code, u.block, r.block)
    BY <2>5, <2>8 DEF Same
  <2>10. Ok(Code, r)
    BY <1>5, <2>4, <2>5, <2>9, SameTop
  <2>11. Len(r.saved) + 1 = i
    BY <1>1, <1>2, <1>6, <2>4
  <2> QED BY <1>2, <1>9, <2>1, <2>4, <2>5, <2>6, <2>8, <2>10, <2>11 DEF After, r
<1> QED BY <1>8, <1>9

(* The end of a step in which an error is caught, or caught before it.     *)
LEMMA CatchThenFinish ==
  ASSUME Fine, NEW s, Ok(Code, s), s.saved # << >>
  PROVE  /\ After(Finish(CatchError(s)))
         /\ Handlers(s) = {} => Finish(CatchError(s)).block.tok = "raise_error"
         /\ Handlers(s) # {} =>
              /\ Len(Finish(CatchError(s)).saved) + 1 \in Handlers(s)
              /\ \A j \in Handlers(s) : j <= Len(Finish(CatchError(s)).saved) + 1
              /\ Finish(CatchError(s)).block.iter
              /\ Finish(CatchError(s)).block.goto # 0
<1> DEFINE q == CatchError(s)
           r == Finish(q)
<1>1. /\ Ok(Code, q) /\ ~q.block.err /\ q.saved # << >>
      /\ Scopes(Code, q.block.ip + 1) = Scopes(Code, q.block.ip)
      /\ Handlers(s) = {} => q.block.tok = "raise_error"
      /\ Handlers(s) # {} => /\ Len(q.saved) + 1 \in Handlers(s)
                             /\ \A j \in Handlers(s) : j <= Len(q.saved) + 1
                             /\ q.block.iter /\ q.block.goto # 0
  BY CatchIsLocal DEF After
<1>2. r = Shift(q, 1)
  BY <1>1 DEF Finish
<1> HIDE DEF q
<1>3. Ok(Code, r) /\ ~r.block.err /\ r.saved = q.saved
  BY <1>1, FinishIsLocal
<1>4. q \in States /\ q.block \in BlockSet /\ q.block.ip + 1 \in Nat
  <2>1. q \in States
    BY <1>1 DEF Ok
  <2>2. q.block \in BlockSet
    BY <2>1 DEF States
  <2> QED BY <2>1, <2>2 DEF BlockSet
<1> HIDE DEF r
<1>5. r.block = [q.block EXCEPT !.ip = q.block.ip + 1]
  <2>1. 1 \in Int
    OBVIOUS
  <2>2. Shift(q, 1).block = [q.block EXCEPT !.ip = q.block.ip + 1]
    BY <1>4, <2>1, ShiftIs
  <2> QED BY <1>2, <2>2
<1>6. r.block.tok = q.block.tok /\ r.block.iter = q.block.iter /\ r.block.goto = q.block.goto
  BY <1>4, <1>5 DEF BlockSet
<1> QED BY <1>1, <1>3, <1>6 DEF After, q, r

(* RET closes blocks up to the innermost that a call opened.               *)
LEMMA RetCloses ==
  ASSUME NEW s, Ok(Code, s), s.saved # << >>
  PROVE  /\ LoopBlocks(s) + 1 \in 1 .. Len(s.saved)
         /\ ~Blocks(s)[Len(s.saved) + 2 - (LoopBlocks(s) + 1)].iter
<1> DEFINE bs == Blocks(s)
           m == Len(s.saved)
           S == {j \in 1 .. m + 1 : ~bs[j].iter}
           Opened(j) == j \in DOMAIN bs /\ ~bs[j].iter /\ \A k \in j + 1 .. Len(bs) : bs[k].iter
           i == CHOOSE j \in DOMAIN bs : /\ ~bs[j].iter
                                         /\ \A k \in j + 1 .. Len(bs) : bs[k].iter
           n == LoopBlocks(s) + 1
<1>1. /\ s \in States /\ m \in Nat /\ m # 0 /\ Len(bs) = m + 1 /\ DOMAIN bs = 1 .. m + 1
      /\ Local(Code, bs)
  BY BlocksType, EmptySeq DEF Ok
<1>2. LoopBlocks(s) = Len(bs) - i
  BY DEF LoopBlocks
<1> HIDE DEF m, bs
<1>3. ~bs[2].iter /\ 2 \in S
  BY <1>1 DEF Local
<1>4. \E j \in DOMAIN bs : Opened(j)
  <2>1. m + 1 \in Nat /\ S \in SUBSET (1 .. m + 1) /\ S # {}
    BY <1>1, <1>3
  <2> HIDE DEF S
  <2>2. PICK x \in S : \A y \in S : y <= x
    BY <2>1, Largest
  <2>3. x \in 1 .. m + 1 /\ ~bs[x].iter
    BY <2>2 DEF S
  <2>4. ASSUME NEW k \in x + 1 .. Len(bs)
        PROVE  bs[k].iter
    <3>1. k \in 1 .. m + 1 /\ ~(k <= x)
      BY <1>1, <2>3
    <3>2. k \notin S
      BY <2>2, <3>1
    <3> QED BY <3>1, <3>2 DEF S
  <2> QED BY <1>1, <2>3, <2>4
<1>5. Opened(i)
  BY <1>4
<1> HIDE DEF i
<1>6. i \in 2 .. m + 1
  <2>1. i \in 1 .. m + 1
    BY <1>1, <1>5
  <2>2. i # 1
    <3> SUFFICES ASSUME i = 1 PROVE FALSE
      OBVIOUS
    <3>1. 2 \in i + 1 .. Len(bs)
      BY <1>1
    <3> QED BY <1>3, <1>5, <3>1
  <2> QED BY <1>1, <2>1, <2>2
<1>7. n \in 1 .. m /\ m + 2 - n = i
  BY <1>1, <1>2, <1>6
<1>8. n \in 1 .. m /\ ~bs[m + 2 - n].iter
  BY <1>5, <1>7
<1> QED BY <1>8 DEF bs, m, n

(* Where it goes on.                                                       *)
LEMMA RetIsLocal ==
  ASSUME NEW s, Ok(Code, s), s.saved # << >>
  PROVE  /\ Ok(Code, Unwound(s, LoopBlocks(s) + 1))
         /\ Scopes(Code, Unwound(s, LoopBlocks(s) + 1).block.ip + 1)
              = Scopes(Code, Unwound(s, LoopBlocks(s) + 1).block.ip)
<1> DEFINE bs == Blocks(s)
           m == Len(s.saved)
           n == LoopBlocks(s) + 1
           i == m + 2 - n
           u == Unwound(s, n)
<1>1. /\ s \in States /\ m \in Nat /\ Len(bs) = m + 1 /\ Local(Code, bs)
  BY BlocksType DEF Ok
<1>2. n \in 1 .. m /\ ~bs[i].iter
  BY RetCloses
<1> HIDE DEF n, m, bs
<1>3. n \in 0 .. m /\ i \in 2 .. m + 1 /\ m + 1 - n = i - 1
  BY <1>1, <1>2
<1>4. Ok(Code, u)
  BY <1>3, BackIsLocal DEF m
<1>5. u.block = bs[m + 1 - n]
  BY <1>1, <1>3, UnwoundBlocks DEF m, bs
<1>6. Above(Code, bs[i - 1], bs[i])
  <2>1. i - 1 \in 1 .. Len(bs) - 1 /\ (i - 1) + 1 = i
    BY <1>1, <1>3
  <2>2. Above(Code, bs[i - 1], bs[(i - 1) + 1])
    BY <1>1, <2>1 DEF Local
  <2> QED BY <2>1, <2>2
<1>7. Scopes(Code, u.block.ip + 1) = Scopes(Code, u.block.ip)
  BY <1>2, <1>3, <1>5, <1>6 DEF Above, Inside
<1> QED BY <1>4, <1>7 DEF n

-----------------------------------------------------------------------------
(* The inductive invariant: the program is structured, and the blocks of   *)
(* the thread are where the code of the program puts them.                 *)

IInv ==
  /\ Fine
  /\ root \in Roots
  /\ running \in BOOLEAN
  /\ Ok(Code, t) /\ ~t.block.err
  /\ running => t.saved # << >>

LEMMA InitKeeps == Init /\ Structured(prog) => IInv
<1> SUFFICES ASSUME Init, Structured(prog) PROVE IInv
  OBVIOUS
<1> DEFINE base == [block |-> Block(0, "base", FALSE), saved |-> << >>, stack |-> << >>]
           entry == IF root = "main" THEN 1 ELSE prog.entry[root]
           q == TNewBlock(base, root, FALSE)
<1>1. /\ Fine /\ root \in Roots /\ running = TRUE
      /\ t = [q EXCEPT !.block.ip = entry]
      /\ root # "main" => root \in DOMAIN prog.entry
  BY DEF Init, Fine
<1>2. root \in Names /\ "base" \in Names
  BY <1>1 DEF Names
<1>3. entry \in Nat /\ Scopes(Code, entry) = << >>
  <2>1. CASE root = "main"
    BY <1>1, <2>1, TwoFunctions
  <2>2. CASE root # "main"
    BY <1>1, <2>2, EntryFacts
  <2> QED BY <2>1, <2>2
<1>4. base \in States /\ base.saved = << >> /\ base.block = Block(0, "base", FALSE)
  <2>1. Block(0, "base", FALSE) \in BlockSet
    BY <1>2, BlockType
  <2>2. << >> \in Seq(BlockSet) /\ << >> \in Seq(Toks)
    BY EmptySeq
  <2> QED BY <2>1, <2>2 DEF States
<1> HIDE DEF base, entry
<1>5. base.block.ip = 0 /\ ~base.block.err /\ First(Code, base.block)
  BY <1>1, <1>4, TwoFunctions DEF First, Block
<1>6. Ok(Code, base)
  <2>1. Len(base.saved) = 0 /\ Len(Blocks(base)) = 1 /\ Blocks(base)[1] = base.block
    <3>1. Len(base.saved) = 0
      BY <1>4, EmptySeq
    <3>2. /\ Len(Blocks(base)) = Len(base.saved) + 1
          /\ Blocks(base)[Len(base.saved) + 1] = base.block
      BY <1>4, BlocksType
    <3> QED BY <3>1, <3>2
  <2> DEFINE bs == Blocks(base)
  <2>2. Len(bs) = 1 /\ bs[1] = base.block
    BY <2>1
  <2> HIDE DEF bs
  <2>3. \A j \in 1 .. Len(bs) - 1 : Above(Code, bs[j], bs[j + 1])
    BY <2>2
  <2>4. ~(Len(bs) > 1)
    BY <2>2
  <2>5. Local(Code, bs)
    BY <1>5, <2>2, <2>3, <2>4 DEF Local
  <2> QED BY <1>4, <2>5 DEF Ok, bs
<1>7. /\ q \in States /\ q.saved = Append(base.saved, Lower(base))
      /\ q.block = Block(0, root, FALSE)
  BY <1>2, <1>4, <1>5, NewBlockIs
<1> HIDE DEF q
<1>8. t = [q EXCEPT !.block = [q.block EXCEPT !.ip = entry]]
  BY <1>1, <1>7 DEF States
<1>9. q.block \in BlockSet /\ [q.block EXCEPT !.ip = entry] \in BlockSet
  BY <1>3, <1>7 DEF States, BlockSet
<1>10. t \in States /\ t.saved = q.saved /\ t.block = [q.block EXCEPT !.ip = entry]
  BY <1>7, <1>8, <1>9 DEF States
<1>11. /\ t.block.ip = entry /\ t.block.iter = FALSE /\ t.block.goto = 0
       /\ t.block.err = FALSE
  BY <1>7, <1>10 DEF Block
<1>12. Above(Code, Lower(base), t.block)
  <2>1. First(Code, t.block)
    BY <1>3, <1>11 DEF First
  <2>2. Scopes(Code, Lower(base).ip + 1) = Scopes(Code, Lower(base).ip)
    <3>1. Lower(base).ip = base.block.ip
      BY <1>4, LowerIs
    <3>2. Lower(base).ip = 0 /\ Lower(base).ip + 1 = 1
      BY <1>5, <3>1
    <3> QED BY <1>1, <3>2, TwoFunctions
  <2> QED BY <2>1, <2>2 DEF Above
<1>13. Ok(Code, t)
  BY <1>6, <1>7, <1>10, <1>11, <1>12, NewBlockIsLocal
<1>14. t.saved # << >>
  BY <1>4, <1>7, <1>10, LowerIs, AppendProperties
<1> QED BY <1>1, <1>11, <1>13, <1>14 DEF IInv

(* A step that leaves such a thread keeps the invariant.                   *)
LEMMA BecomeKeeps ==
  ASSUME IInv, running, NEW r, After(r), Become(r)
  PROVE  IInv'
<1>1. t' = r /\ prog' = prog /\ root' = root /\ running' = running
  BY DEF Become
<1>2. Fine' /\ Code' = Code
  BY <1>1 DEF IInv, Fine, Code
<1>3. Ok(Code, r)
  BY DEF After
<1>4. Ok(Code', t')
  BY <1>1, <1>2, <1>3
<1>5. ~t'.block.err /\ t'.saved # << >>
  BY <1>1 DEF After
<1>6. (Ok(Code, t))'
  BY <1>4
<1>7. root' \in Roots /\ running' \in BOOLEAN
  BY <1>1 DEF IInv
<1> QED BY <1>2, <1>5, <1>6, <1>7 DEF IInv

LEMMA StraightOn ==
  ASSUME Fine, NEW i \in DOMAIN Code, Code[i].op \in Straight
  PROVE  Scopes(Code, i + 1) = Scopes(Code, i)
BY DEF Fine, Structured, Code

(* The thread at an instruction.                                           *)
LEMMA Here ==
  ASSUME IInv, NEW op, At(op)
  PROVE  /\ Fine /\ running /\ After(t) /\ t \in States
         /\ t.block.ip \in DOMAIN Code /\ t.block.ip \in Nat
         /\ Code[t.block.ip].op = op /\ Ins = Code[t.block.ip]
         /\ Ins.tok \in Toks /\ Ins.tok \in Names
<1>1. /\ Fine /\ running /\ After(t) /\ t \in States
  BY DEF IInv, At, After, Ok
<1>2. /\ t.block.ip \in DOMAIN Code
      /\ Code[t.block.ip].op = op /\ Ins = Code[t.block.ip]
  BY DEF At, Ins, Code
<1>3. t.block.ip \in Nat
  BY <1>1 DEF States, BlockSet
<1>4. prog \in Programs /\ Ins.tok \in {prog.code[i].tok : i \in DOMAIN prog.code}
  BY <1>1, <1>2 DEF Fine, Code, Ins
<1>5. Ins.tok \in Toks
  BY <1>4 DEF Toks
<1> QED BY <1>1, <1>2, <1>3, <1>5 DEF Names

LEMMA GoesOn ==
  ASSUME NEW s, After(s), Scopes(Code, s.block.ip + 1) = Scopes(Code, s.block.ip)
  PROVE  After(Finish(s))
BY FinishIsLocal DEF After

(* Another operand stack.                                                  *)
OnStack(s, stack) == [s EXCEPT !.stack = stack]
LEMMA OtherStack ==
  ASSUME NEW s, After(s), NEW stack \in Seq(Toks)
  PROVE  /\ After(OnStack(s, stack))
         /\ OnStack(s, stack).block = s.block /\ OnStack(s, stack).saved = s.saved
<1> DEFINE r == OnStack(s, stack)
<1>1. s \in States /\ Ok(Code, s) /\ ~s.block.err /\ s.saved # << >>
  BY DEF After, Ok
<1>2. r \in States /\ r.block = s.block /\ r.saved = s.saved
  BY <1>1 DEF OnStack, States
<1> HIDE DEF r
<1>3. Same(Code, s.block, r.block)
  BY <1>2 DEF Same
<1>4. Ok(Code, r)
  BY <1>1, <1>2, <1>3, SameTop
<1>5. After(r) /\ r.block = s.block /\ r.saved = s.saved
  BY <1>1, <1>2, <1>4 DEF After
<1> QED BY <1>5 DEF r

(* The operand stack, one operand less or one more.                        *)
LEMMA StackType ==
  ASSUME NEW s, After(s)
  PROVE  /\ s.stack \in Seq(Toks) /\ Len(s.stack) \in Nat
         /\ s.stack # << >> => Last(s.stack) \in Toks /\ Front(s.stack) \in Seq(Toks)
<1>1. s.stack \in Seq(Toks)
  BY DEF After, Ok, States
<1>2. Len(s.stack) \in Nat
  BY <1>1
<1>3. s.stack # << >> => Last(s.stack) \in Toks /\ Front(s.stack) \in Seq(Toks)
  <2> SUFFICES ASSUME s.stack # << >>
               PROVE  Last(s.stack) \in Toks /\ Front(s.stack) \in Seq(Toks)
    OBVIOUS
  <2>1. Len(s.stack) \in Nat \ {0}
    BY <1>1, EmptySeq
  <2>2. Last(s.stack) \in Toks
    BY <1>1, <2>1 DEF Last
  <2>3. \A i \in 1 .. Len(s.stack) - 1 : s.stack[i] \in Toks
    BY <1>1
  <2>4. Front(s.stack) \in Seq(Toks)
    BY <2>1, <2>3, SubSeqProperties DEF Front
  <2> QED BY <2>2, <2>4
<1> QED BY <1>1, <1>2, <1>3

-----------------------------------------------------------------------------
(* The instructions, one by one.                                           *)

LEMMA PlainKeeps == IInv /\ Plain => IInv'
<1> SUFFICES ASSUME IInv, Plain PROVE IInv'
  OBVIOUS
<1>1. PICK op \in {"OP", "RNIL"} : At(op)
  BY DEF Plain
<1>2. /\ Fine /\ running /\ After(t) /\ t.block.ip \in DOMAIN Code
      /\ Code[t.block.ip].op = op
  BY <1>1, Here
<1>3. Scopes(Code, t.block.ip + 1) = Scopes(Code, t.block.ip)
  BY <1>2, StraightOn DEF Straight
<1>4. After(Finish(t)) /\ Become(Finish(t))
  BY <1>2, <1>3, GoesOn DEF Plain
<1> QED BY <1>2, <1>4, BecomeKeeps

LEMMA GetKeeps == IInv /\ Get => IInv'
<1> SUFFICES ASSUME IInv, Get PROVE IInv'
  OBVIOUS
<1>1. At("GET")
  BY DEF Get
<1>2. /\ Fine /\ running /\ After(t) /\ t.block.ip \in DOMAIN Code
      /\ Code[t.block.ip].op = "GET"
  BY <1>1, Here
<1>3. Scopes(Code, t.block.ip + 1) = Scopes(Code, t.block.ip)
  BY <1>2, StraightOn DEF Straight
<1>4. After(Finish(t)) /\ After(Finish(ThrowError(t)))
  BY <1>2, <1>3, GoesOn, ThrowIsLocal DEF After
<1>5. Become(Finish(t)) \/ Become(Finish(ThrowError(t)))
  BY DEF Get
<1> QED BY <1>2, <1>4, <1>5, BecomeKeeps

(* An instruction that only changes the operands.                          *)
LEMMA StackKeeps ==
  ASSUME IInv, NEW op \in Straight, At(op), NEW stack \in Seq(Toks),
         Become(Finish(OnStack(t, stack)))
  PROVE  IInv'
<1>1. /\ Fine /\ running /\ After(t) /\ t.block.ip \in DOMAIN Code
      /\ Code[t.block.ip].op = op
  BY Here
<1>2. Scopes(Code, t.block.ip + 1) = Scopes(Code, t.block.ip)
  BY <1>1, StraightOn
<1>3. After(OnStack(t, stack)) /\ OnStack(t, stack).block = t.block
  BY <1>1, OtherStack
<1>4. After(Finish(OnStack(t, stack)))
  BY <1>2, <1>3, GoesOn
<1> QED BY <1>1, <1>4, BecomeKeeps

(* The same that fails.                                                    *)
LEMMA FailKeeps ==
  ASSUME IInv, NEW op \in Straight, At(op), NEW stack \in Seq(Toks),
         Become(Finish(ThrowError(OnStack(t, stack))))
  PROVE  IInv'
<1>1. /\ Fine /\ running /\ After(t) /\ t.block.ip \in DOMAIN Code
      /\ Code[t.block.ip].op = op
  BY Here
<1>2. Scopes(Code, t.block.ip + 1) = Scopes(Code, t.block.ip)
  BY <1>1, StraightOn
<1>3. After(OnStack(t, stack)) /\ OnStack(t, stack).block = t.block
  BY <1>1, OtherStack
<1>4. After(Finish(ThrowError(OnStack(t, stack))))
  BY <1>1, <1>2, <1>3, ThrowIsLocal DEF After
<1> QED BY <1>1, <1>4, BecomeKeeps

LEMMA PushKeeps == IInv /\ Push => IInv'
<1> SUFFICES ASSUME IInv, Push PROVE IInv'
  OBVIOUS
<1>1. At("PUSH") /\ "PUSH" \in Straight
  BY DEF Push, Straight
<1>2. After(t) /\ Ins.tok \in Toks
  BY <1>1, Here
<1>3. Append(t.stack, Ins.tok) \in Seq(Toks)
  BY <1>2, StackType, AppendProperties
<1>4. Become(Finish(OnStack(t, Append(t.stack, Ins.tok))))
  BY DEF Push, OnStack
<1> QED BY <1>1, <1>3, <1>4, StackKeeps

LEMMA DupKeeps == IInv /\ Dup => IInv'
<1> SUFFICES ASSUME IInv, Dup PROVE IInv'
  OBVIOUS
<1>1. At("DUP") /\ "DUP" \in Straight /\ t.stack # << >>
  BY DEF Dup, Straight
<1>2. After(t)
  BY <1>1, Here
<1>3. Append(t.stack, Last(t.stack)) \in Seq(Toks)
  BY <1>1, <1>2, StackType, AppendProperties
<1>4. Become(Finish(OnStack(t, Append(t.stack, Last(t.stack)))))
  BY DEF Dup, OnStack
<1> QED BY <1>1, <1>3, <1>4, StackKeeps

(* No change is a change to the same.                                      *)
LEMMA SameStack ==
  ASSUME NEW s, After(s)
  PROVE  OnStack(s, s.stack) = s
BY DEF After, Ok, States, OnStack

LEMMA ResKeeps == IInv /\ Res => IInv'
<1> SUFFICES ASSUME IInv, Res PROVE IInv'
  OBVIOUS
<1>1. At("RES") /\ "RES" \in Straight
  BY DEF Res, Straight
<1>2. After(t) /\ t.stack \in Seq(Toks)
  BY <1>1, Here, StackType
<1>3. CASE t.stack = << >>
  <2>1. Become(Finish(OnStack(t, t.stack)))
    BY <1>2, <1>3, SameStack DEF Res
  <2> QED BY <1>1, <1>2, <2>1, StackKeeps
<1>4. CASE t.stack # << >>
  <2>1. Front(t.stack) \in Seq(Toks)
    BY <1>2, <1>4, StackType
  <2>2. Become(Finish(OnStack(t, Front(t.stack))))
    BY <1>4 DEF Res, Popped, OnStack
  <2> QED BY <1>1, <2>1, <2>2, StackKeeps
<1> QED BY <1>3, <1>4

LEMMA TuplKeeps == IInv /\ Tupl => IInv'
<1> SUFFICES ASSUME IInv, Tupl PROVE IInv'
  OBVIOUS
<1> DEFINE left == Len(t.stack) - Ins.val
           low == SubSeq(t.stack, 1, left)
<1>1. At("TUPL") /\ "TUPL" \in Straight
  BY DEF Tupl, Straight
<1>2. /\ Fine /\ After(t) /\ t.block.ip \in DOMAIN Code
      /\ Code[t.block.ip].op = "TUPL" /\ Ins = Code[t.block.ip]
  BY <1>1, Here
<1>3. t.stack \in Seq(Toks) /\ Len(t.stack) \in Nat
  BY <1>2, StackType
<1>4. Ins.val \in Nat
  BY <1>2, VmControlAssumption DEF Fine, WellFormed, Code
<1>5. CASE left >= 0
  <2>1. left \in 0 .. Len(t.stack)
    BY <1>3, <1>4, <1>5
  <2> HIDE DEF left
  <2>2. low \in Seq(Toks)
    <3>1. \A i \in 1 .. left : t.stack[i] \in Toks
      BY <1>3, <2>1
    <3> QED BY <2>1, <3>1, SubSeqProperties
  <2>3. Become(Finish(OnStack(t, low)))
    BY <1>5 DEF Tupl, OnStack, left
  <2> QED BY <1>1, <2>2, <2>3, StackKeeps
<1>6. CASE ~(left >= 0)
  <2>1. << >> \in Seq(Toks)
    BY EmptySeq
  <2>2. Become(Finish(ThrowError(OnStack(t, << >>))))
    BY <1>6 DEF Tupl, OnStack
  <2> QED BY <1>1, <2>1, <2>2, FailKeeps
<1> QED BY <1>5, <1>6

LEMMA CallKeeps == IInv /\ Call_ => IInv'
<1> SUFFICES ASSUME IInv, Call_ PROVE IInv'
  OBVIOUS
<1> DEFINE f == Ins.val
<1>1. At("CALL") /\ "CALL" \in Straight
  BY DEF Call_, Straight
<1>2. /\ Fine /\ running /\ After(t) /\ t.block.ip \in DOMAIN Code
      /\ Code[t.block.ip].op = "CALL" /\ Ins = Code[t.block.ip]
  BY <1>1, Here
<1>3. f \in {External, Nil} \cup DOMAIN prog.entry
  BY <1>2, VmControlAssumption DEF Fine, WellFormed, Code
<1>4. Become(Finish(Called(t, f))) /\ t.stack \in Seq(Toks)
  BY <1>2, StackType DEF Call_
<1>5. CASE t.stack = << >>
  <2>1. Become(Finish(OnStack(t, t.stack)))
    BY <1>2, <1>4, <1>5, SameStack DEF Called
  <2> QED BY <1>1, <1>4, <2>1, StackKeeps
<1>6. CASE t.stack # << >>
  <2> DEFINE low == Front(t.stack)
             s == OnStack(t, low)
  <2>1. low \in Seq(Toks) /\ Popped(t) = s
    BY <1>2, <1>6, StackType DEF Popped, OnStack
  <2> HIDE DEF low
  <2>2. CASE Last(t.stack) # Ins.tok \/ f = Nil
    <3>1. CASE Last(t.stack) # Ins.tok
      <4>1. Called(t, f) = ThrowError(Popped(t))
        BY <1>6, <3>1 DEF Called
      <4>2. Become(Finish(ThrowError(s)))
        BY <1>4, <2>1, <4>1
      <4> QED BY <1>1, <2>1, <4>2, FailKeeps
    <3>2. CASE Last(t.stack) = Ins.tok /\ f = Nil
      <4>1. Called(t, f) = ThrowError(Popped(t))
        BY <1>6, <3>2, VmControlAssumption DEF Called
      <4>2. Become(Finish(ThrowError(s)))
        BY <1>4, <2>1, <4>1
      <4> QED BY <1>1, <2>1, <4>2, FailKeeps
    <3> QED BY <2>2, <3>1, <3>2
  <2>3. CASE Last(t.stack) = Ins.tok /\ f # Nil /\ f = External
    <3>1. Called(t, f) = Popped(t)
      BY <1>6, <2>3 DEF Called
    <3>2. Become(Finish(s))
      BY <1>4, <2>1, <3>1
    <3> QED BY <1>1, <2>1, <3>2, StackKeeps
  <2>4. CASE Last(t.stack) = Ins.tok /\ f # Nil /\ f # External
    <3>1. Called(t, f) = CallFn(Popped(t), f)
      BY <1>6, <2>4 DEF Called
    <3>2. Become(Finish(CallFn(s, f)))
      BY <1>4, <2>1, <3>1
    <3>3. f \in DOMAIN prog.entry
      BY <1>3, <2>4
    <3>4. After(s) /\ s.block = t.block
      BY <1>2, <2>1, OtherStack
    <3>5. Scopes(Code, s.block.ip + 1) = Scopes(Code, s.block.ip)
      BY <1>1, <1>2, <3>4, StraightOn
    <3> HIDE DEF s, f
    <3>6. After(Shift(CallFn(s, f), 1)) /\ ~CallFn(s, f).block.err
      <4>1. Ok(Code, s)
        BY <3>4 DEF After
      <4>2. /\ Ok(Code, Shift(CallFn(s, f), 1)) /\ ~Shift(CallFn(s, f), 1).block.err
            /\ Shift(CallFn(s, f), 1).saved # << >> /\ ~CallFn(s, f).block.err
        BY <1>2, <3>3, <3>5, <4>1, CallIsLocal
      <4> QED BY <4>2 DEF After
    <3>7. Finish(CallFn(s, f)) = Shift(CallFn(s, f), 1)
      BY <3>6 DEF Finish
    <3> QED BY <1>2, <3>2, <3>6, <3>7, BecomeKeeps
  <2> QED BY <2>2, <2>3, <2>4
<1> QED BY <1>5, <1>6

(* A jump and the shift that ends its step.                                *)
LEMMA JumpLands ==
  ASSUME IInv, NEW op \in Jumping, At(op)
  PROVE  After(Finish(Shift(t, Ins.val)))
<1> DEFINE v == Ins.val
           r == Finish(Shift(t, v))
           ip == t.block.ip
<1>1. /\ Fine /\ After(t) /\ t \in States /\ ip \in DOMAIN Code /\ ip \in Nat
      /\ Code[ip].op = op /\ Ins = Code[ip]
  BY Here
<1>2. v \in Int
  BY <1>1, VmControlAssumption DEF Fine, WellFormed, Code, Jumping
<1>3. ip + 1 + v \in Nat /\ Scopes(Code, ip + 1 + v) = Scopes(Code, ip)
  BY <1>1 DEF Fine, Structured, Code
<1>4. t.block \in BlockSet
  BY <1>1 DEF States
<1>5. Shift(t, v) = [t EXCEPT !.block = [t.block EXCEPT !.ip = ip + v]] /\ ~t.block.err
  BY <1>1 DEF Shift, States, After
<1> HIDE DEF v
<1>6. /\ Shift(t, v).block = [t.block EXCEPT !.ip = ip + v]
      /\ ~Shift(t, v).block.err
  BY <1>1, <1>4, <1>5 DEF States, BlockSet
<1>7. r = [Shift(t, v) EXCEPT !.block.ip = Shift(t, v).block.ip + 1]
  BY <1>6 DEF Finish, Shift
<1>8. r = [t EXCEPT !.block = [t.block EXCEPT !.ip = ip + v + 1]]
  BY <1>1, <1>4, <1>5, <1>6, <1>7 DEF States, BlockSet
<1>9. ip + (1 + v) = ip + v + 1 /\ ip + (1 + v) = ip + 1 + v /\ 1 + v \in Int
  BY <1>1, <1>2
<1>10. Shift(t, 1 + v) = [t EXCEPT !.block = [t.block EXCEPT !.ip = ip + (1 + v)]]
  BY <1>1 DEF Shift, States
<1>11. r = Shift(t, 1 + v)
  BY <1>8, <1>9, <1>10
<1> HIDE DEF r
<1>12. Ok(Code, Shift(t, 1 + v))
  BY <1>1, <1>3, <1>9, ShiftIsLocal DEF After
<1>13. /\ Shift(t, 1 + v).saved = t.saved
       /\ Shift(t, 1 + v).block = [t.block EXCEPT !.ip = ip + (1 + v)]
  BY <1>1, <1>3, <1>9, ShiftIs
<1>14. ~Shift(t, 1 + v).block.err
  BY <1>4, <1>5, <1>13 DEF BlockSet
<1>15. After(r)
  BY <1>1, <1>11, <1>12, <1>13, <1>14 DEF After
<1> QED BY <1>15 DEF r, v

LEMMA JmpKeeps == IInv /\ Jmp => IInv'
<1> SUFFICES ASSUME IInv, Jmp PROVE IInv'
  OBVIOUS
<1>1. At("JMP") /\ "JMP" \in Jumping /\ Become(Finish(Shift(t, Ins.val)))
  BY DEF Jmp, Jumping
<1>2. running
  BY <1>1 DEF At
<1> QED BY <1>1, <1>2, JumpLands, BecomeKeeps

LEMMA BranchKeeps == IInv /\ Branch => IInv'
<1> SUFFICES ASSUME IInv, Branch PROVE IInv'
  OBVIOUS
<1>1. PICK op \in {"IF", "IFN"} : At(op)
  BY DEF Branch
<1>2. op \in Jumping /\ op \in Straight
  BY DEF Jumping, Straight
<1>3. /\ Fine /\ running /\ After(t) /\ t.block.ip \in DOMAIN Code
      /\ Code[t.block.ip].op = op
  BY <1>1, Here
<1>4. Scopes(Code, t.block.ip + 1) = Scopes(Code, t.block.ip)
  BY <1>2, <1>3, StraightOn
<1>5. After(Finish(t)) /\ After(Finish(Shift(t, Ins.val)))
  BY <1>1, <1>2, <1>3, <1>4, GoesOn, JumpLands
<1>6. Become(Finish(Shift(t, Ins.val))) \/ Become(Finish(t))
  BY DEF Branch
<1> QED BY <1>3, <1>5, <1>6, BecomeKeeps

LEMMA NBlkKeeps == IInv /\ NBlk => IInv'
<1> SUFFICES ASSUME IInv, NBlk PROVE IInv'
  OBVIOUS
<1> DEFINE q == TNewBlock(t, Ins.tok, TRUE)
           r == Shift(q, 1)
           ip == t.block.ip
<1>1. At("NBLK")
  BY DEF NBlk
<1>2. /\ Fine /\ running /\ After(t) /\ t \in States /\ ip \in DOMAIN Code /\ ip \in Nat
      /\ Code[ip].op = "NBLK" /\ Ins = Code[ip] /\ Ins.tok \in Names
  BY <1>1, Here
<1>3. Scopes(Code, ip + 1) = Append(Scopes(Code, ip), Scope(Ins.tok, FALSE))
  BY <1>2 DEF Fine, Structured, Code
<1>4. /\ q \in States /\ q.saved = Append(t.saved, Lower(t))
      /\ q.block = Block(ip, Ins.tok, TRUE)
  BY <1>2, NewBlockIs
<1> HIDE DEF q
<1>5. q.block.ip = ip /\ ~q.block.err /\ ip + 1 \in Nat
  BY <1>2, <1>4 DEF Block
<1>6. r \in States /\ r.saved = q.saved /\ r.block = [q.block EXCEPT !.ip = ip + 1]
  <2>1. 1 \in Int /\ q.block.ip + 1 = ip + 1 /\ q.block.ip + 1 \in Nat
    BY <1>5
  <2>2. /\ Shift(q, 1) \in States /\ Shift(q, 1).saved = q.saved
        /\ Shift(q, 1).block = [q.block EXCEPT !.ip = q.block.ip + 1]
    BY <1>4, <2>1, ShiftIs
  <2> QED BY <2>1, <2>2
<1>7. Finish(q) = r
  BY <1>5 DEF Finish
<1> HIDE DEF r
<1>8. /\ r.block.ip = ip + 1 /\ r.block.tok = Ins.tok /\ r.block.iter = TRUE
      /\ r.block.goto = 0 /\ r.block.err = FALSE
  BY <1>4, <1>6 DEF Block
<1>9. /\ Lower(t).ip = ip /\ Lower(t).err = t.block.err /\ Lower(t) \in BlockSet
  BY <1>2, LowerIs
<1>10. Inside(Code, Lower(t), r.block)
  BY <1>2, <1>3, <1>8, <1>9 DEF Inside, Within, After
<1>11. Ok(Code, r)
  BY <1>2, <1>4, <1>6, <1>10, NewBlockIsLocal DEF Above, After
<1>12. r.saved # << >>
  <2>1. t.saved \in Seq(BlockSet)
    BY <1>2 DEF States
  <2> QED BY <1>4, <1>6, <1>9, <2>1, AppendProperties
<1>13. After(r)
  BY <1>8, <1>11, <1>12 DEF After
<1>14. Become(r)
  BY <1>7 DEF NBlk, q
<1> QED BY <1>2, <1>13, <1>14, BecomeKeeps

(* What an appended element leaves at the end.                             *)
LEMMA FrontOfAppend ==
  ASSUME NEW S, NEW seq \in Seq(S), NEW e \in S
  PROVE  Front(Append(seq, e)) = seq /\ Last(Append(seq, e)) = e
<1> DEFINE n == Len(seq)
           a == Append(seq, e)
<1>1. /\ a \in Seq(S) /\ Len(a) = n + 1 /\ n \in Nat /\ a[n + 1] = e
      /\ \A i \in 1 .. n : a[i] = seq[i]
  BY AppendProperties
<1> HIDE DEF a
<1>2. Last(a) = e
  BY <1>1 DEF Last
<1>3. Front(a) = SubSeq(a, 1, n)
  <2>1. Len(a) - 1 = n
    BY <1>1
  <2> QED BY <2>1 DEF Front
<1>4. \A i \in 1 .. n : a[i] \in S
  BY <1>1
<1>5. /\ Front(a) \in Seq(S) /\ Len(Front(a)) = n
      /\ \A i \in 1 .. n : Front(a)[i] = a[i]
  <2>1. /\ SubSeq(a, 1, n) \in Seq(S)
        /\ Len(SubSeq(a, 1, n)) = IF 1 <= n THEN n - 1 + 1 ELSE 0
        /\ \A i \in 1 .. n - 1 + 1 : SubSeq(a, 1, n)[i] = a[1 + i - 1]
    BY <1>1, <1>4, SubSeqProperties
  <2> HIDE DEF n
  <2>2. n - 1 + 1 = n /\ \A i \in 1 .. n : 1 + i - 1 = i
    BY <1>1
  <2>3. (IF 1 <= n THEN n - 1 + 1 ELSE 0) = n
    BY <1>1
  <2> QED BY <1>3, <2>1, <2>2, <2>3
<1>6. Front(a) = seq
  BY <1>1, <1>5, SeqEqual
<1> QED BY <1>2, <1>6 DEF a

(* The scopes of the current block and of the one below.                   *)
LEMMA TopScopes ==
  ASSUME NEW s, Ok(Code, s), s.saved # << >>, Scopes(Code, s.block.ip) # << >>
  PROVE  /\ Inside(Code, Last(s.saved), s.block)
         /\ Last(s.saved) \in BlockSet
         /\ Len(s.saved) # 1
         /\ Scopes(Code, Last(s.saved).ip) \in Seq(ScopeSet)
         /\ Front(Scopes(Code, s.block.ip)) = Scopes(Code, Last(s.saved).ip)
         /\ Last(Scopes(Code, s.block.ip)) = Scope(s.block.tok, s.block.goto # 0)
<1> DEFINE m == Len(s.saved)
           below == Last(s.saved)
           bs == Blocks(s)
<1>1. /\ s \in States /\ s.block \in BlockSet /\ s.saved \in Seq(BlockSet)
      /\ bs \in Seq(BlockSet) /\ Len(bs) = m + 1 /\ \A i \in 1 .. m : bs[i] = s.saved[i]
      /\ Local(Code, bs)
  BY BlocksType DEF Ok
<1>2. m \in Nat \ {0} /\ below = s.saved[m] /\ below \in BlockSet
  BY <1>1, LastBlock
<1> HIDE DEF m, below, bs
<1>3. Inside(Code, below, s.block)
  BY <1>2, TopIsLocal DEF Above, First, m
<1>4. m # 1
  BY <1>3, TopIsLocal DEF Inside, m
<1>5. Scopes(Code, below.ip) \in Seq(ScopeSet)
  <2>1. m \in 1 .. Len(bs) /\ m \in 1 .. m
    BY <1>1, <1>2
  <2>2. bs[m] = below
    BY <1>1, <1>2, <2>1
  <2>3. Scopes(Code, bs[m].ip) \in Seq(ScopeSet)
    BY <1>1, <2>1, ScopesType
  <2> QED BY <2>2, <2>3
<1>6. Scope(s.block.tok, s.block.goto # 0) \in ScopeSet
  BY <1>1 DEF Scope, ScopeSet, BlockSet
<1>7. Scopes(Code, s.block.ip)
        = Append(Scopes(Code, below.ip), Scope(s.block.tok, s.block.goto # 0))
  BY <1>3 DEF Inside, Within
<1>8. /\ Front(Scopes(Code, s.block.ip)) = Scopes(Code, below.ip)
      /\ Last(Scopes(Code, s.block.ip)) = Scope(s.block.tok, s.block.goto # 0)
  BY <1>5, <1>6, <1>7, FrontOfAppend
<1> QED BY <1>2, <1>3, <1>4, <1>5, <1>8 DEF below, m

LEMMA BBlkKeeps == IInv /\ BBlk => IInv'
<1> SUFFICES ASSUME IInv, BBlk PROVE IInv'
  OBVIOUS
<1> DEFINE ip == t.block.ip
           below == Last(t.saved)
           u == TBack(t)
           q == [u EXCEPT !.block.ip = ip]
           r == Shift(q, 1)
<1>1. At("BBLK")
  BY DEF BBlk
<1>2. /\ Fine /\ running /\ After(t) /\ t \in States /\ ip \in DOMAIN Code /\ ip \in Nat
      /\ Code[ip].op = "BBLK"
  BY <1>1, Here
<1>3. Ok(Code, t) /\ t.saved # << >>
  BY <1>2 DEF After
<1>4. Scopes(Code, ip) # << >> /\ Scopes(Code, ip + 1) = Front(Scopes(Code, ip))
  BY <1>2 DEF Fine, Structured, Code
<1>5. /\ Inside(Code, below, t.block) /\ below \in BlockSet /\ Len(t.saved) # 1
      /\ Front(Scopes(Code, ip)) = Scopes(Code, below.ip)
  BY <1>3, <1>4, TopScopes
<1>6. u \in States /\ u.saved = Front(t.saved) /\ u.block = below
  BY <1>2, <1>3, TBackBlocks
<1> HIDE DEF u, below
<1>7. Ok(Code, u) /\ u.saved # << >>
  <2>1. /\ t.saved \in Seq(BlockSet) /\ Len(t.saved) \in Nat \ {0}
        /\ below = t.saved[Len(t.saved)]
        /\ Front(t.saved) \in Seq(BlockSet) /\ Len(Front(t.saved)) = Len(t.saved) - 1
        /\ \A i \in 1 .. Len(t.saved) - 1 : Front(t.saved)[i] = t.saved[i]
    BY <1>2, <1>3, LastBlock DEF States, below
  <2> DEFINE m == Len(t.saved)
             bs == Blocks(t)
  <2>2. /\ Len(bs) = m + 1 /\ \A i \in 1 .. m : bs[i] = t.saved[i]
        /\ Local(Code, bs)
    BY <1>2, <1>3, BlocksType DEF Ok
  <2>3. m \in Nat \ {0} /\ m # 1 /\ below = t.saved[m] /\ Len(u.saved) = m - 1
        /\ \A i \in 1 .. m - 1 : u.saved[i] = t.saved[i]
    BY <1>5, <1>6, <2>1
  <2> HIDE DEF m, bs
  <2>4. m - 1 \in 1 .. m /\ m - 1 \in 1 .. m - 1 /\ m - 1 \in 1 .. Len(bs) - 1
        /\ (m - 1) + 1 = m /\ m \in 1 .. m
    BY <2>2, <2>3
  <2>5. Above(Code, bs[m - 1], bs[(m - 1) + 1])
    BY <2>2, <2>4 DEF Local
  <2>6. bs[m - 1] = u.saved[m - 1] /\ bs[(m - 1) + 1] = u.block
    BY <1>6, <2>2, <2>3, <2>4
  <2>7. Len(u.saved) > 0 => Above(Code, u.saved[Len(u.saved)], u.block)
    BY <2>3, <2>5, <2>6
  <2>8. Len(u.saved) = 1 => ~u.block.iter
    <3>1. Len(u.saved) = 1 => bs[2] = u.block /\ Len(bs) > 1
      BY <2>2, <2>3, <2>4, <2>6
    <3> QED BY <2>2, <3>1 DEF Local
  <2>9. /\ Len(u.saved) # 0 /\ Len(u.saved) <= Len(t.saved)
        /\ \A i \in 1 .. Len(u.saved) : u.saved[i] = t.saved[i]
    BY <2>3, <2>4 DEF m
  <2>10. Ok(Code, u)
    BY <1>3, <1>6, <2>7, <2>8, <2>9, NewBlock
  <2> QED BY <2>9, <2>10, EmptySeq
<1>8. u.block \in BlockSet /\ ~u.block.err
  BY <1>5, <1>6 DEF Inside
<1>9. q = [u EXCEPT !.block = [u.block EXCEPT !.ip = ip]]
  BY <1>6 DEF States
<1> HIDE DEF q
<1>10. /\ q \in States /\ q.saved = u.saved /\ q.block = [u.block EXCEPT !.ip = ip]
  BY <1>2, <1>6, <1>8, <1>9 DEF States, BlockSet
<1>11. q.block.ip = ip /\ ~q.block.err /\ ip + 1 \in Nat
  BY <1>2, <1>8, <1>10 DEF BlockSet
<1>12. r \in States /\ r.saved = q.saved /\ r.block = [q.block EXCEPT !.ip = ip + 1]
  <2>1. 1 \in Int /\ q.block.ip + 1 = ip + 1 /\ q.block.ip + 1 \in Nat
    BY <1>10, <1>11
  <2>2. /\ Shift(q, 1) \in States /\ Shift(q, 1).saved = q.saved
        /\ Shift(q, 1).block = [q.block EXCEPT !.ip = q.block.ip + 1]
    BY <1>10, <1>11, <2>1, ShiftIs
  <2> QED BY <2>1, <2>2
<1>13. Finish(q) = r
  BY <1>11 DEF Finish
<1> HIDE DEF r
<1>14. /\ r.block.ip = ip + 1 /\ r.block.tok = u.block.tok /\ r.block.iter = u.block.iter
       /\ r.block.goto = u.block.goto /\ r.block.err = u.block.err
  BY <1>8, <1>10, <1>12 DEF BlockSet
<1>15. Same(Code, u.block, r.block)
  BY <1>4, <1>5, <1>6, <1>14 DEF Same
<1>16. Ok(Code, r)
  BY <1>7, <1>8, <1>10, <1>12, <1>14, <1>15, SameTop
<1>17. After(r)
  BY <1>7, <1>8, <1>10, <1>12, <1>14, <1>16 DEF After
<1>18. Become(r)
  BY <1>13 DEF BBlk, q, u
<1> QED BY <1>2, <1>17, <1>18, BecomeKeeps

LEMMA RetKeeps == IInv /\ Ret => IInv'
<1> SUFFICES ASSUME IInv, Ret PROVE IInv'
  OBVIOUS
<1> DEFINE u == Unwound(t, LoopBlocks(t) + 1)
           r == Finish(u)
<1>1. /\ At("RET") /\ t' = r /\ running' = (t'.saved # << >>)
      /\ prog' = prog /\ root' = root
  BY DEF Ret
<1>2. Fine /\ After(t) /\ root \in Roots
  BY <1>1, Here DEF IInv
<1>3. Ok(Code, u) /\ Scopes(Code, u.block.ip + 1) = Scopes(Code, u.block.ip)
  BY <1>2, RetIsLocal DEF After
<1> HIDE DEF u
<1>4. Ok(Code, r) /\ ~r.block.err
  <2>1. CASE u.block.err
    <3>1. u.saved # << >>
      BY <1>3, <2>1, TopIsLocal
    <3>2. r = CatchError(u)
      BY <2>1 DEF Finish
    <3> QED BY <1>2, <1>3, <3>1, <3>2, CatchIsLocal DEF After
  <2>2. CASE ~u.block.err
    BY <1>3, <2>2, FinishIsLocal
  <2> QED BY <2>1, <2>2
<1> HIDE DEF r
<1>5. Fine' /\ Code' = Code
  BY <1>1, <1>2 DEF Fine, Code
<1>6. (Ok(Code, t))' /\ ~t'.block.err
  BY <1>1, <1>4, <1>5
<1>7. running' \in BOOLEAN /\ (running' => t'.saved # << >>)
  BY <1>1
<1>8. root' \in Roots
  BY <1>1, <1>2
<1> QED BY <1>5, <1>6, <1>7, <1>8 DEF IInv

(* Another handler in the current block, and the shift.                    *)
LEMMA HandlerKeeps ==
  ASSUME IInv, running, t.block.ip + 1 \in Nat, NEW goto \in Nat,
         Scopes(Code, t.block.ip) # << >>,
         Scopes(Code, t.block.ip + 1)
           = Append(Front(Scopes(Code, t.block.ip)), Scope(t.block.tok, goto # 0)),
         goto # 0 => /\ goto \in DOMAIN Code
                     /\ \A j \in {goto, goto + 1} :
                          Scopes(Code, j) = Append(Front(Scopes(Code, t.block.ip)),
                                                   Scope(t.block.tok, TRUE)),
         Become(Finish([t EXCEPT !.block.goto = goto]))
  PROVE  IInv'
<1> DEFINE ip == t.block.ip
           below == Last(t.saved)
           q == [t EXCEPT !.block.goto = goto]
           r == Shift(q, 1)
           F == Front(Scopes(Code, ip))
<1>1. Ok(Code, t) /\ t.saved # << >> /\ ~t.block.err /\ t \in States /\ t.block \in BlockSet
  BY DEF IInv, Ok, States
<1>2. /\ Inside(Code, below, t.block) /\ below \in BlockSet /\ Len(t.saved) # 1
      /\ F = Scopes(Code, below.ip)
  BY <1>1, TopScopes
<1>3. Scopes(Code, ip + 1) = Append(F, Scope(t.block.tok, goto # 0))
  OBVIOUS
<1>4. goto # 0 => /\ goto \in DOMAIN Code
                  /\ Scopes(Code, goto) = Append(F, Scope(t.block.tok, TRUE))
                  /\ Scopes(Code, goto + 1) = Append(F, Scope(t.block.tok, TRUE))
  OBVIOUS
<1> HIDE DEF below, F
<1>5. q = [t EXCEPT !.block = [t.block EXCEPT !.goto = goto]]
  BY <1>1 DEF States
<1>6. [t.block EXCEPT !.goto = goto] \in BlockSet
  BY <1>1 DEF BlockSet
<1>7. Become(Finish(q))
  OBVIOUS
<1> HIDE DEF q
<1>8. /\ q \in States /\ q.saved = t.saved /\ q.block = [t.block EXCEPT !.goto = goto]
  BY <1>1, <1>5, <1>6 DEF States
<1>9. q.block.ip = ip /\ ~q.block.err
  BY <1>1, <1>8 DEF BlockSet
<1>10. r \in States /\ r.saved = q.saved /\ r.block = [q.block EXCEPT !.ip = ip + 1]
  <2>1. 1 \in Int /\ q.block.ip + 1 = ip + 1 /\ q.block.ip + 1 \in Nat
    BY <1>8, <1>9
  <2>2. /\ Shift(q, 1) \in States /\ Shift(q, 1).saved = q.saved
        /\ Shift(q, 1).block = [q.block EXCEPT !.ip = q.block.ip + 1]
    BY <1>8, <1>9, <2>1, ShiftIs
  <2> QED BY <2>1, <2>2
<1>11. Finish(q) = r
  BY <1>9 DEF Finish
<1> HIDE DEF r
<1>12. /\ r.block.ip = ip + 1 /\ r.block.tok = t.block.tok /\ r.block.iter = t.block.iter
       /\ r.block.goto = goto /\ r.block.err = t.block.err
  BY <1>1, <1>8, <1>10 DEF BlockSet
<1>13. Inside(Code, below, r.block)
  BY <1>2, <1>3, <1>4, <1>12 DEF Inside, Within
<1>14. Ok(Code, r)
  <2>1. /\ Len(t.saved) \in Nat \ {0} /\ below = t.saved[Len(t.saved)] /\ r.saved = t.saved
    BY <1>1, <1>8, <1>10, LastBlock DEF States, below
  <2>2. Len(r.saved) # 0 /\ Len(r.saved) # 1 /\ Len(r.saved) <= Len(t.saved)
    BY <1>2, <2>1
  <2>3. Above(Code, r.saved[Len(r.saved)], r.block)
    BY <1>13, <2>1 DEF Above
  <2> QED BY <1>1, <1>10, <2>1, <2>2, <2>3, NewBlock
<1>15. After(r)
  BY <1>1, <1>8, <1>10, <1>12, <1>14 DEF After
<1>16. Become(r)
  BY <1>7, <1>11
<1> QED BY <1>15, <1>16, BecomeKeeps

LEMMA CtchKeeps == IInv /\ Ctch => IInv'
<1> SUFFICES ASSUME IInv, Ctch PROVE IInv'
  OBVIOUS
<1> DEFINE ip == t.block.ip
           goto == ip + 1 + Ins.val
           In(j) == Scopes(Code, j)
<1>1. At("CTCH")
  BY DEF Ctch
<1>2. /\ Fine /\ running /\ After(t) /\ ip \in DOMAIN Code /\ ip \in Nat
      /\ Code[ip].op = "CTCH" /\ Ins = Code[ip]
  BY <1>1, Here
<1>3. /\ goto \in DOMAIN Code
      /\ In(ip) # << >> /\ Last(In(ip)) = Scope(Ins.tok, FALSE)
      /\ \A j \in {ip + 1, goto, goto + 1} : In(j) = Append(Front(In(ip)), Scope(Ins.tok, TRUE))
  BY <1>2 DEF Fine, Structured, Code
<1>4. Ins.val \in Int /\ DOMAIN Code = 1 .. Len(Code)
  BY <1>2, VmControlAssumption DEF Fine, WellFormed, Code
<1>5. ip + Ins.val + 1 = goto /\ goto \in Nat /\ goto # 0 /\ ip + 1 \in Nat
  <2>1. ip + Ins.val + 1 = goto /\ ip + 1 \in Nat
    BY <1>2, <1>4
  <2>2. goto \in 1 .. Len(Code)
    BY <1>3, <1>4
  <2> HIDE DEF goto
  <2>3. goto \in Nat /\ goto # 0
    BY <2>2
  <2> QED BY <2>1, <2>3
<1>6. Ins.tok = t.block.tok
  <2>1. Last(In(ip)) = Scope(t.block.tok, t.block.goto # 0)
    BY <1>2, <1>3, TopScopes DEF After
  <2> QED BY <1>3, <2>1 DEF Scope
<1>7. Become(Finish([t EXCEPT !.block.goto = goto]))
  BY <1>5 DEF Ctch
<1> HIDE DEF goto
<1>8. In(ip + 1) = Append(Front(In(ip)), Scope(t.block.tok, goto # 0))
  <2>1. (goto # 0) = TRUE
    BY <1>5
  <2> QED BY <1>3, <1>6, <2>1
<1>9. \A j \in {goto, goto + 1} : In(j) = Append(Front(In(ip)), Scope(t.block.tok, TRUE))
  BY <1>3, <1>6
<1> QED BY <1>2, <1>3, <1>5, <1>7, <1>8, <1>9, HandlerKeeps

(* The innermost handler of the call is that of the current block.         *)
LEMMA ClearGotoIs ==
  ASSUME IInv, ClearGoto
  PROVE  Become(Finish([t EXCEPT !.block.goto = 0]))
<1> DEFINE ip == t.block.ip
           bs == Blocks(t)
           m == Len(t.saved)
           own == {i \in DOMAIN bs : bs[i].goto # 0 /\ \A j \in i + 1 .. Len(bs) : bs[j].iter}
           clear(i, b) == IF i \in own /\ \A j \in own : i >= j THEN [b EXCEPT !.goto = 0] ELSE b
           In(j) == Scopes(Code, j)
<1>1. At("SETGOTO")
  BY DEF ClearGoto
<1>2. /\ Fine /\ running /\ After(t) /\ t \in States /\ ip \in DOMAIN Code /\ ip \in Nat
      /\ Code[ip].op = "SETGOTO" /\ Ins = Code[ip]
  BY <1>1, Here
<1>3. /\ In(ip) # << >> /\ Last(In(ip)) = Scope(Ins.tok, TRUE)
      /\ In(ip + 1) = Append(Front(In(ip)), Scope(Ins.tok, FALSE))
  BY <1>2 DEF Fine, Structured, Code
<1>4. Last(In(ip)) = Scope(t.block.tok, t.block.goto # 0)
  BY <1>2, <1>3, TopScopes DEF After
<1>5. Ins.tok = t.block.tok /\ t.block.goto # 0
  <2>1. Scope(Ins.tok, TRUE) = Scope(t.block.tok, t.block.goto # 0)
    BY <1>3, <1>4
  <2>2. TRUE = (t.block.goto # 0)
    BY <2>1 DEF Scope
  <2> QED BY <2>1, <2>2 DEF Scope
<1>6. /\ m \in Nat /\ Len(bs) = m + 1 /\ DOMAIN bs = 1 .. m + 1 /\ bs[m + 1] = t.block
      /\ t.saved \in Seq(BlockSet) /\ DOMAIN t.saved = 1 .. m
  BY <1>2, BlocksType
<1>7. Become(Finish([t EXCEPT !.saved = [i \in DOMAIN t.saved |-> clear(i, t.saved[i])],
                              !.block = clear(Len(bs), t.block)]))
  BY DEF ClearGoto
<1> HIDE DEF bs, m
<1>8. m + 1 \in own /\ \A j \in own : m + 1 >= j
  BY <1>5, <1>6
<1>9. \A i \in 1 .. m : ~(i >= m + 1)
  BY <1>6
<1> HIDE DEF own
<1>10. \A i \in 1 .. m : clear(i, t.saved[i]) = t.saved[i]
  BY <1>8, <1>9
<1>11. clear(Len(bs), t.block) = [t.block EXCEPT !.goto = 0]
  BY <1>6, <1>8
<1>12. [i \in DOMAIN t.saved |-> clear(i, t.saved[i])] = t.saved
  <2> HIDE DEF clear
  <2> QED BY <1>6, <1>10
<1>13. Become(Finish([t EXCEPT !.block.goto = 0]))
  <2>1. [t EXCEPT !.saved = [i \in DOMAIN t.saved |-> clear(i, t.saved[i])],
                  !.block = clear(Len(bs), t.block)]
          = [t EXCEPT !.saved = t.saved, !.block = [t.block EXCEPT !.goto = 0]]
    BY <1>11, <1>12
  <2>2. [t EXCEPT !.saved = t.saved, !.block = [t.block EXCEPT !.goto = 0]]
          = [t EXCEPT !.block.goto = 0]
    BY <1>2 DEF States
  <2> HIDE DEF clear
  <2> QED BY <1>7, <2>1, <2>2
<1> QED BY <1>13

LEMMA ClearGotoKeeps == IInv /\ ClearGoto => IInv'
<1> SUFFICES ASSUME IInv, ClearGoto PROVE IInv'
  OBVIOUS
<1> DEFINE ip == t.block.ip
           In(j) == Scopes(Code, j)
<1>1. At("SETGOTO")
  BY DEF ClearGoto
<1>2. /\ Fine /\ running /\ After(t) /\ t \in States /\ ip \in DOMAIN Code /\ ip \in Nat
      /\ Code[ip].op = "SETGOTO" /\ Ins = Code[ip]
  BY <1>1, Here
<1>3. /\ In(ip) # << >> /\ Last(In(ip)) = Scope(Ins.tok, TRUE)
      /\ In(ip + 1) = Append(Front(In(ip)), Scope(Ins.tok, FALSE))
  BY <1>2 DEF Fine, Structured, Code
<1>4. Last(In(ip)) = Scope(t.block.tok, t.block.goto # 0)
  BY <1>2, <1>3, TopScopes DEF After
<1>5. Ins.tok = t.block.tok
  BY <1>3, <1>4 DEF Scope
<1>6. Become(Finish([t EXCEPT !.block.goto = 0]))
  BY ClearGotoIs
<1>7. ip + 1 \in Nat /\ 0 \in Nat
  BY <1>2
<1>8. In(ip + 1) = Append(Front(In(ip)), Scope(t.block.tok, 0 # 0))
  <2>1. (0 # 0) = FALSE
    OBVIOUS
  <2> QED BY <1>3, <1>5, <2>1
<1> QED BY <1>2, <1>3, <1>6, <1>7, <1>8, HandlerKeeps

LEMMA RaisKeeps == IInv /\ Rais => IInv'
<1> SUFFICES ASSUME IInv, Rais PROVE IInv'
  OBVIOUS
<1>1. At("RAIS") /\ Become(Finish(CatchError(Failed(t))))
  BY DEF Rais, Failed
<1>2. Fine /\ running /\ After(t)
  BY <1>1, Here
<1>3. Ok(Code, Failed(t)) /\ Failed(t).saved # << >>
  BY <1>2, FailedIsLocal DEF After
<1>4. After(Finish(CatchError(Failed(t))))
  BY <1>2, <1>3, CatchThenFinish
<1> QED BY <1>1, <1>2, <1>4, BecomeKeeps

LEMMA ExitKeeps == IInv /\ Exit_ => IInv'
<1> SUFFICES ASSUME IInv, Exit_ PROVE IInv'
  OBVIOUS
<1>1. /\ At("EXIT") /\ t' = Finish(t) /\ running' = FALSE
      /\ prog' = prog /\ root' = root
  BY DEF Exit_
<1>2. /\ Fine /\ After(t) /\ root \in Roots /\ t.block.ip \in DOMAIN Code
      /\ Code[t.block.ip].op = "EXIT"
  BY <1>1, Here DEF IInv
<1>3. Scopes(Code, t.block.ip + 1) = Scopes(Code, t.block.ip)
  BY <1>2, StraightOn DEF Straight
<1>4. Ok(Code, Finish(t)) /\ ~Finish(t).block.err
  BY <1>2, <1>3, GoesOn DEF After
<1>5. Fine' /\ Code' = Code
  BY <1>1, <1>2 DEF Fine, Code
<1>6. (Ok(Code, t))' /\ ~t'.block.err
  BY <1>1, <1>4, <1>5
<1>7. running' \in BOOLEAN /\ (running' => t'.saved # << >>) /\ root' \in Roots
  BY <1>1, <1>2
<1> QED BY <1>5, <1>6, <1>7 DEF IInv

LEMMA StepKeeps == IInv /\ [Next]_vars => IInv'
<1> SUFFICES ASSUME IInv, [Next]_vars PROVE IInv'
  OBVIOUS
<1>1. CASE UNCHANGED vars
  <2>1. t' = t /\ prog' = prog /\ root' = root /\ running' = running
    BY <1>1 DEF vars
  <2>2. Fine' /\ Code' = Code
    BY <2>1 DEF IInv, Fine, Code
  <2>3. (Ok(Code, t))'
    BY <2>1, <2>2 DEF IInv
  <2> QED BY <2>1, <2>2, <2>3 DEF IInv
<1>2. CASE Plain \/ Get \/ Push \/ Dup \/ Res \/ Tupl \/ Call_
  BY <1>2, PlainKeeps, GetKeeps, PushKeeps, DupKeeps, ResKeeps, TuplKeeps, CallKeeps
<1>3. CASE Jmp \/ Branch \/ NBlk \/ BBlk \/ Ret \/ Ctch \/ ClearGoto \/ Rais \/ Exit_
  BY <1>3, JmpKeeps, BranchKeeps, NBlkKeeps, BBlkKeeps, RetKeeps, CtchKeeps,
     ClearGotoKeeps, RaisKeeps, ExitKeeps
<1> QED BY <1>1, <1>2, <1>3 DEF Next

(* In code that is structured the blocks stay where the code puts them.    *)
THEOREM Invariance == Spec /\ Structured(prog) => []IInv
<1>1. Init /\ Structured(prog) => IInv
  BY InitKeeps
<1>2. IInv /\ [Next]_vars => IInv'
  BY StepKeeps
<1> QED BY <1>1, <1>2, PTL DEF Spec

-----------------------------------------------------------------------------
(* What the invariant says of the source text.                             *)

(* Every block is the first of a call, or inside the one below.            *)
LEMMA EachBlock ==
  ASSUME NEW s, Ok(Code, s), NEW i \in DOMAIN Blocks(s)
  PROVE  /\ Blocks(s)[i] \in BlockSet
         /\ ~Blocks(s)[i].iter => First(Code, Blocks(s)[i])
         /\ Blocks(s)[i].iter => /\ i - 1 \in DOMAIN Blocks(s) /\ i - 1 \in 1 .. Len(Blocks(s))
                                 /\ Inside(Code, Blocks(s)[i - 1], Blocks(s)[i])
<1> DEFINE bs == Blocks(s)
<1>1. bs \in Seq(BlockSet) /\ Len(bs) \in Nat /\ DOMAIN bs = 1 .. Len(bs) /\ Local(Code, bs)
  BY BlocksType DEF Ok
<1>2. i \in 1 .. Len(bs)
  BY <1>1
<1> HIDE DEF bs
<1>3. bs[i] \in BlockSet
  BY <1>1, <1>2
<1>4. CASE i = 1
  <2>1. First(Code, bs[i])
    BY <1>1, <1>4 DEF Local
  <2>2. ~bs[i].iter
    BY <2>1 DEF First
  <2> QED BY <1>3, <2>1, <2>2 DEF bs
<1>5. CASE i # 1
  <2>1. i - 1 \in 1 .. Len(bs) - 1 /\ i - 1 \in 1 .. Len(bs) /\ (i - 1) + 1 = i
    BY <1>1, <1>2, <1>5
  <2>2. Above(Code, bs[i - 1], bs[(i - 1) + 1])
    BY <1>1, <2>1 DEF Local
  <2>3. Above(Code, bs[i - 1], bs[i])
    BY <2>1, <2>2
  <2>4. ~bs[i].iter => First(Code, bs[i])
    BY <2>3 DEF Above, Inside
  <2>5. bs[i].iter => Inside(Code, bs[i - 1], bs[i])
    BY <2>3 DEF Above, First
  <2> QED BY <1>1, <1>3, <2>1, <2>4, <2>5 DEF bs
<1> QED BY <1>4, <1>5

(* Scopes are the enclosing statements with what InForce says of them.     *)
LEMMA ScopesAre ==
  ASSUME NEW code, NEW ip
  PROVE  /\ Enclosing(code, ip)
              = [k \in DOMAIN Scopes(code, ip) |-> Scopes(code, ip)[k].tok]
         /\ \A k \in DOMAIN Scopes(code, ip) :
              Scopes(code, ip)[k]
                = Scope(Scopes(code, ip)[k].tok, InForce(code, Scopes(code, ip)[k].tok, ip))
<1> DEFINE opens == SelectSeq(SubSeq(code, 1, ip - 1),
                              LAMBDA c : c.op = "NBLK" /\ Pos(code, "BBLK", c.tok) >= ip)
           E == Enclosing(code, ip)
           S == Scopes(code, ip)
<1>1. E = [k \in DOMAIN opens |-> opens[k].tok]
  BY DEF Enclosing
<1> HIDE DEF opens
<1>2. S = [k \in DOMAIN E |-> Scope(E[k], InForce(code, E[k], ip))]
  BY DEF Scopes
<1> HIDE DEF E, S
<1>3. DOMAIN E = DOMAIN opens /\ DOMAIN S = DOMAIN E
  BY <1>1, <1>2
<1>4. \A k \in DOMAIN S : S[k] = Scope(E[k], InForce(code, E[k], ip)) /\ S[k].tok = E[k]
  BY <1>2, <1>3 DEF Scope
<1>5. E = [k \in DOMAIN S |-> S[k].tok]
  BY <1>1, <1>3, <1>4
<1>6. \A k \in DOMAIN S : S[k] = Scope(S[k].tok, InForce(code, S[k].tok, ip))
  BY <1>4
<1> QED BY <1>5, <1>6 DEF E, S

(* A block has a handler exactly where its try is in force.                *)
LEMMA HandlersOf ==
  ASSUME NEW s, Ok(Code, s), NEW i \in DOMAIN Blocks(s)
  PROVE  /\ Blocks(s)[i].iter => (Blocks(s)[i].goto # 0
                                  <=> InForce(Code, Blocks(s)[i].tok, Blocks(s)[i].ip))
         /\ Blocks(s)[i].goto # 0 => Blocks(s)[i].iter
<1> DEFINE bs == Blocks(s)
           b == bs[i]
           below == bs[i - 1]
           S == Scopes(Code, b.ip)
           L == Scopes(Code, below.ip)
<1>1. /\ b \in BlockSet
      /\ ~b.iter => First(Code, b)
      /\ b.iter => i - 1 \in 1 .. Len(bs) /\ Inside(Code, below, b)
  BY EachBlock
<1>2. bs \in Seq(BlockSet) /\ Local(Code, bs)
  BY BlocksType DEF Ok
<1> HIDE DEF bs, b, below
<1>3. b.goto # 0 => b.iter
  BY <1>1 DEF First
<1>4. ASSUME b.iter
      PROVE  b.goto # 0 <=> InForce(Code, b.tok, b.ip)
  <2>1. L \in Seq(ScopeSet)
    BY <1>1, <1>2, <1>4, ScopesType DEF below
  <2>2. Scope(b.tok, b.goto # 0) \in ScopeSet
    BY <1>1 DEF Scope, ScopeSet, BlockSet
  <2>3. S = Append(L, Scope(b.tok, b.goto # 0))
    BY <1>1, <1>4 DEF Inside, Within
  <2> HIDE DEF S, L
  <2> DEFINE k == Len(L) + 1
  <2>4. k \in DOMAIN S /\ S[k] = Scope(b.tok, b.goto # 0)
    <3>1. Len(S) = k /\ S[k] = Scope(b.tok, b.goto # 0) /\ S \in Seq(ScopeSet) /\ Len(L) \in Nat
      BY <2>1, <2>2, <2>3, AppendProperties
    <3> QED BY <3>1
  <2> HIDE DEF k
  <2>5. S[k] = Scope(S[k].tok, InForce(Code, S[k].tok, b.ip))
    BY <2>4, ScopesAre DEF S
  <2>6. S[k].tok = b.tok
    BY <2>4 DEF Scope
  <2>7. Scope(b.tok, b.goto # 0) = Scope(b.tok, InForce(Code, b.tok, b.ip))
    BY <2>4, <2>5, <2>6
  <2>8. (b.goto # 0) = InForce(Code, b.tok, b.ip)
    BY <2>7 DEF Scope
  <2>9. InForce(Code, b.tok, b.ip) \in BOOLEAN
    BY DEF InForce
  <2> QED BY <2>8, <2>9
<1> QED BY <1>3, <1>4 DEF b, bs

(* No jump, return or error leaves the code: every ip stays a number and   *)
(* every handler an instruction of the program.                            *)
THEOREM TypeCorrect == Spec /\ Structured(prog) => []TypeOK
<1>1. IInv => TypeOK
  <2> SUFFICES ASSUME IInv PROVE TypeOK
    OBVIOUS
  <2>1. /\ prog \in Programs /\ root \in Roots /\ running \in BOOLEAN
        /\ Ok(Code, t) /\ t \in States
    BY DEF IInv, Fine, Ok
  <2>2. DOMAIN t = {"block", "saved", "stack"}
    BY <2>1 DEF States
  <2>3. ASSUME NEW i \in DOMAIN Blocks(t)
        PROVE  /\ Blocks(t)[i].ip \in Nat /\ Blocks(t)[i].err \in BOOLEAN
               /\ Blocks(t)[i].goto \in {0} \cup DOMAIN prog.code /\ Blocks(t)[i].size \in Nat
    <3>1. /\ Blocks(t)[i] \in BlockSet
          /\ ~Blocks(t)[i].iter => First(Code, Blocks(t)[i])
          /\ Blocks(t)[i].iter => Inside(Code, Blocks(t)[i - 1], Blocks(t)[i])
      BY <2>1, EachBlock
    <3>2. Blocks(t)[i].goto \in {0} \cup DOMAIN prog.code
      BY <3>1 DEF First, Inside, Code
    <3> QED BY <3>1, <3>2 DEF BlockSet
  <2> QED BY <2>1, <2>2, <2>3 DEF TypeOK
<1> QED BY <1>1, Invariance, PTL

(* A block has a handler exactly while control is in its try statement.    *)
THEOREM HandlersLexical == Spec /\ Structured(prog) => []HandlersAreLexical
<1>1. IInv => HandlersAreLexical
  BY HandlersOf DEF IInv, HandlersAreLexical, Code
<1> QED BY <1>1, Invariance, PTL

(* The open blocks of a call are what encloses the place of each.          *)
LEMMA Nested ==
  ASSUME NEW s, Ok(Code, s), NEW i \in DOMAIN Blocks(s), ~Blocks(s)[i].iter, NEW d \in Nat,
         i + d <= Len(Blocks(s)), \A k \in i + 1 .. i + d : Blocks(s)[k].iter
  PROVE  /\ DOMAIN Scopes(Code, Blocks(s)[i + d].ip) = 1 .. d
         /\ \A k \in 1 .. d : Scopes(Code, Blocks(s)[i + d].ip)[k].tok = Blocks(s)[i + k].tok
<1> DEFINE bs == Blocks(s)
           S(n) == Scopes(Code, bs[i + n].ip)
           Deep(n) == /\ S(n) \in Seq(ScopeSet) /\ Len(S(n)) = n
                      /\ \A k \in 1 .. n : S(n)[k].tok = bs[i + k].tok
           T == {n \in Nat : n <= d => Deep(n)}
<1>1. bs \in Seq(BlockSet) /\ Len(bs) \in Nat /\ DOMAIN bs = 1 .. Len(bs) /\ Local(Code, bs)
  BY BlocksType DEF Ok
<1>2. i \in 1 .. Len(bs) /\ i + d <= Len(bs) /\ \A k \in i + 1 .. i + d : bs[k].iter
  BY <1>1
<1>3. First(Code, bs[i])
  BY EachBlock
<1>4. \A j \in 1 .. Len(bs) : bs[j] \in BlockSet /\ (bs[j].iter => Inside(Code, bs[j - 1], bs[j]))
  BY <1>1, EachBlock
<1> HIDE DEF bs
<1>5. 0 \in T
  <2>1. i + 0 = i
    BY <1>2
  <2>2. S(0) = << >>
    BY <1>3, <2>1 DEF First
  <2>3. << >> \in Seq(ScopeSet) /\ Len(<< >>) = 0
    BY EmptySeq
  <2> HIDE DEF S
  <2>4. S(0) \in Seq(ScopeSet) /\ Len(S(0)) = 0
    BY <2>2, <2>3
  <2>5. \A k \in 1 .. 0 : S(0)[k].tok = bs[i + k].tok
    OBVIOUS
  <2>6. Deep(0)
    BY <2>4, <2>5
  <2> HIDE DEF Deep
  <2> QED BY <2>6
<1>6. ASSUME NEW n \in Nat, n \in T
      PROVE  n + 1 \in T
  <2> SUFFICES ASSUME n + 1 <= d PROVE Deep(n + 1)
    OBVIOUS
  <2>1. Deep(n)
    BY <1>6
  <2>2. /\ i + (n + 1) \in 1 .. Len(bs) /\ i + (n + 1) \in i + 1 .. i + d
        /\ (i + (n + 1)) - 1 = i + n
    BY <1>2
  <2>3. bs[i + (n + 1)] \in BlockSet /\ Inside(Code, bs[i + n], bs[i + (n + 1)])
    BY <1>2, <1>4, <2>2
  <2> DEFINE e == Scope(bs[i + (n + 1)].tok, bs[i + (n + 1)].goto # 0)
  <2>4. e \in ScopeSet /\ e.tok = bs[i + (n + 1)].tok
    BY <2>3 DEF Scope, ScopeSet, BlockSet
  <2>5. S(n + 1) = Append(S(n), e)
    BY <2>3 DEF Inside, Within
  <2> HIDE DEF S, e
  <2> DEFINE L == S(n)
             M == S(n + 1)
  <2>6. /\ S(n + 1) \in Seq(ScopeSet) /\ Len(S(n + 1)) = n + 1
        /\ \A k \in 1 .. n : S(n + 1)[k] = S(n)[k]
        /\ S(n + 1)[n + 1] = e
    <3>1. L \in Seq(ScopeSet) /\ Len(L) = n /\ M = Append(L, e)
      BY <2>1, <2>5
    <3> HIDE DEF L, M
    <3>2. /\ M \in Seq(ScopeSet) /\ Len(M) = n + 1
          /\ \A k \in 1 .. n : M[k] = L[k]
          /\ M[n + 1] = e
      BY <2>4, <3>1, AppendProperties
    <3> QED BY <3>2 DEF L, M
  <2>7. ASSUME NEW k \in 1 .. n + 1
        PROVE  S(n + 1)[k].tok = bs[i + k].tok
    <3>1. CASE k = n + 1
      BY <2>4, <2>6, <3>1
    <3>2. CASE k # n + 1
      <4>1. k \in 1 .. n
        BY <3>2
      <4> QED BY <2>1, <2>6, <4>1
    <3> QED BY <3>1, <3>2
  <2> QED BY <2>6, <2>7
<1>7. d \in T
  <2> HIDE DEF T
  <2> QED BY <1>5, <1>6, Induction
<1>8. Deep(d)
  BY <1>7
<1>9. DOMAIN S(d) = 1 .. d
  <2> HIDE DEF S
  <2> QED BY <1>8
<1> QED BY <1>8, <1>9 DEF bs

(* The open blocks of every call are the loops and tries that the source   *)
(* text puts around the place where the call is.                           *)
THEOREM BlocksLexical == Spec /\ Structured(prog) => []BlocksAreLexical
<1>1. IInv => BlocksAreLexical
  <2> SUFFICES ASSUME IInv PROVE BlocksAreLexical
    OBVIOUS
  <2> DEFINE bs == Blocks(t)
  <2>1. Ok(Code, t) /\ Len(bs) \in Nat /\ DOMAIN bs = 1 .. Len(bs)
    BY BlocksType DEF IInv, Ok
  <2>2. ASSUME NEW i \in DOMAIN bs, NEW j \in i .. Len(bs),
               ~bs[i].iter, \A k \in i + 1 .. j : bs[k].iter
        PROVE  [k \in 1 .. j - i |-> bs[i + k].tok] = Enclosing(Code, bs[j].ip)
    <3> DEFINE d == j - i
               S == Scopes(Code, bs[j].ip)
    <3>1. d \in Nat /\ i + d = j /\ i + d <= Len(bs)
      BY <2>1
    <3>2. \A k \in i + 1 .. i + d : bs[k].iter
      BY <2>2, <3>1
    <3> HIDE DEF d
    <3>3. /\ DOMAIN Scopes(Code, bs[i + d].ip) = 1 .. d
          /\ \A k \in 1 .. d : Scopes(Code, bs[i + d].ip)[k].tok = bs[i + k].tok
      <4>1. Ok(Code, t) /\ i \in DOMAIN Blocks(t) /\ ~Blocks(t)[i].iter /\ d \in Nat
        BY <2>1, <2>2, <3>1
      <4>2. i + d <= Len(Blocks(t)) /\ \A k \in i + 1 .. i + d : Blocks(t)[k].iter
        BY <3>1, <3>2
      <4> QED BY <4>1, <4>2, Nested
    <3>4. DOMAIN S = 1 .. d /\ \A k \in 1 .. d : S[k].tok = bs[i + k].tok
      BY <3>1, <3>3
    <3>5. Enclosing(Code, bs[j].ip) = [k \in DOMAIN S |-> S[k].tok]
      BY ScopesAre
    <3> HIDE DEF S
    <3>6. Enclosing(Code, bs[j].ip) = [k \in 1 .. d |-> bs[i + k].tok]
      BY <3>4, <3>5
    <3> QED BY <3>6 DEF d
  <2> QED BY <2>2 DEF BlocksAreLexical, Code
<1> QED BY <1>1, Invariance, PTL

(* The step that catches an error ends in the nearest handler.             *)
LEMMA CaughtNearest ==
  ASSUME IInv, Next, Catching
  PROVE  LET from    == IF At("RAIS") THEN t ELSE Unwound(t, LoopBlocks(t) + 1)
             bs      == Blocks(from)
             inForce == {i \in DOMAIN bs : bs[i].iter /\ InForce(prog.code, bs[i].tok, bs[i].ip)}
         IN IF inForce = {} THEN t'.block.tok = "raise_error"
            ELSE /\ \A i \in inForce : i <= Len(t'.saved) + 1
                 /\ Len(t'.saved) + 1 \in inForce
                 /\ InForce(prog.code, t'.block.tok, t'.block.ip)
<1> DEFINE from == IF At("RAIS") THEN t ELSE Unwound(t, LoopBlocks(t) + 1)
           bs == Blocks(from)
           inForce == {i \in DOMAIN bs : bs[i].iter /\ InForce(prog.code, bs[i].tok, bs[i].ip)}
           Caught == /\ Ok(Code, t')
                     /\ Handlers(from) = {} => t'.block.tok = "raise_error"
                     /\ Handlers(from) # {} => /\ Len(t'.saved) + 1 \in Handlers(from)
                                               /\ \A j \in Handlers(from) : j <= Len(t'.saved) + 1
                                               /\ t'.block.iter
                                               /\ t'.block.goto # 0
<1>1. Fine /\ Ok(Code, t) /\ t \in States
  BY DEF IInv, Ok
<1>2. Ok(Code, from) /\ Caught
  <2>1. CASE At("RAIS")
    <3>1. Rais
      BY <2>1 DEF Next, At, Plain, Get, Push, Dup, Res, Tupl, Call_, Jmp, Branch, NBlk, BBlk,
                  Ret, Ctch, ClearGoto, Exit_
    <3>2. t' = Finish(CatchError(Failed(t)))
      BY <3>1 DEF Rais, Become, Failed
    <3>3. After(t) /\ from = t
      BY <2>1, Here
    <3>4. /\ Ok(Code, Failed(t)) /\ Failed(t).saved = t.saved
          /\ Failed(t).block = [t.block EXCEPT !.err = TRUE] /\ t.saved # << >>
      BY <3>3, FailedIsLocal DEF After
    <3>5. Handlers(Failed(t)) = Handlers(t)
      <4>1. /\ DOMAIN Blocks(t) = 1 .. Len(t.saved) + 1
            /\ Blocks(t)[Len(t.saved) + 1] = t.block
            /\ \A i \in 1 .. Len(t.saved) : Blocks(t)[i] = t.saved[i]
            /\ Len(t.saved) \in Nat /\ t.block \in BlockSet
        BY <1>1, BlocksType
      <4>2. /\ DOMAIN Blocks(Failed(t)) = 1 .. Len(t.saved) + 1
            /\ Blocks(Failed(t))[Len(t.saved) + 1] = Failed(t).block
            /\ \A i \in 1 .. Len(t.saved) : Blocks(Failed(t))[i] = t.saved[i]
        BY <3>4, BlocksType DEF Ok
      <4>3. Failed(t).block.goto = t.block.goto
        BY <3>4, <4>1 DEF BlockSet
      <4>4. \A i \in 1 .. Len(t.saved) + 1 : i = Len(t.saved) + 1 \/ i \in 1 .. Len(t.saved)
        BY <4>1
      <4>5. \A i \in 1 .. Len(t.saved) + 1 : Blocks(Failed(t))[i].goto = Blocks(t)[i].goto
        BY <4>1, <4>2, <4>3, <4>4
      <4> QED BY <4>1, <4>2, <4>5 DEF Handlers
    <3>6. /\ After(Finish(CatchError(Failed(t))))
          /\ Handlers(Failed(t)) = {} => Finish(CatchError(Failed(t))).block.tok = "raise_error"
          /\ Handlers(Failed(t)) # {} =>
               /\ Len(Finish(CatchError(Failed(t))).saved) + 1 \in Handlers(Failed(t))
               /\ \A j \in Handlers(Failed(t)) :
                    j <= Len(Finish(CatchError(Failed(t))).saved) + 1
               /\ Finish(CatchError(Failed(t))).block.iter
               /\ Finish(CatchError(Failed(t))).block.goto # 0
      BY <1>1, <3>4, CatchThenFinish
    <3>7. Caught
      BY <3>2, <3>3, <3>5, <3>6 DEF After
    <3> QED BY <1>1, <3>3, <3>7
  <2>2. CASE ~At("RAIS")
    <3> DEFINE u == Unwound(t, LoopBlocks(t) + 1)
    <3>1. At("RET") /\ u.block.err /\ from = u
      BY <2>2 DEF Catching
    <3>2. Ret
      BY <3>1 DEF Next, At, Plain, Get, Push, Dup, Res, Tupl, Call_, Jmp, Branch, NBlk, BBlk,
                  Rais, Ctch, ClearGoto, Exit_
    <3>3. After(t)
      BY <3>1, Here
    <3>4. Ok(Code, u)
      BY <3>3, RetIsLocal DEF After
    <3>5. t' = Finish(u)
      BY <3>2 DEF Ret
    <3> HIDE DEF u
    <3>6. t' = CatchError(u)
      BY <3>1, <3>5 DEF Finish
    <3>7. u.saved # << >>
      BY <3>1, <3>4, TopIsLocal
    <3>8. /\ After(CatchError(u))
          /\ Handlers(u) = {} => CatchError(u).block.tok = "raise_error"
          /\ Handlers(u) # {} => /\ Len(CatchError(u).saved) + 1 \in Handlers(u)
                                 /\ \A j \in Handlers(u) : j <= Len(CatchError(u).saved) + 1
                                 /\ CatchError(u).block.iter /\ CatchError(u).block.goto # 0
      BY <1>1, <3>4, <3>7, CatchIsLocal
    <3>9. Caught
      BY <3>1, <3>6, <3>8 DEF After
    <3> QED BY <3>1, <3>4, <3>9
  <2> QED BY <2>1, <2>2
<1> HIDE DEF from
<1>3. inForce = Handlers(from)
  <2>1. \A i \in DOMAIN bs : (bs[i].iter /\ InForce(Code, bs[i].tok, bs[i].ip)) <=> bs[i].goto # 0
    BY <1>2, HandlersOf
  <2> QED BY <2>1 DEF Handlers, Code
<1>4. Handlers(from) # {} => InForce(prog.code, t'.block.tok, t'.block.ip)
  <2> SUFFICES ASSUME Handlers(from) # {} PROVE InForce(prog.code, t'.block.tok, t'.block.ip)
    OBVIOUS
  <2>1. Ok(Code, t') /\ t'.block.iter /\ t'.block.goto # 0
    BY <1>2
  <2>2. /\ Len(t'.saved) + 1 \in DOMAIN Blocks(t')
        /\ Blocks(t')[Len(t'.saved) + 1] = t'.block
    <3>1. t' \in States
      BY <2>1 DEF Ok
    <3>2. /\ Len(t'.saved) \in Nat /\ DOMAIN Blocks(t') = 1 .. Len(t'.saved) + 1
          /\ Blocks(t')[Len(t'.saved) + 1] = t'.block
      BY <3>1, BlocksType
    <3> QED BY <3>2
  <2>3. t'.block.goto # 0 <=> InForce(Code, t'.block.tok, t'.block.ip)
    BY <2>1, <2>2, HandlersOf
  <2> QED BY <2>1, <2>3 DEF Code
<1> HIDE DEF inForce
<1>5. IF inForce = {} THEN t'.block.tok = "raise_error"
      ELSE /\ \A i \in inForce : i <= Len(t'.saved) + 1
           /\ Len(t'.saved) + 1 \in inForce
           /\ InForce(prog.code, t'.block.tok, t'.block.ip)
  BY <1>2, <1>3, <1>4
<1> QED BY <1>5 DEF inForce, from

(* An error goes to the innermost try around the place that failed, and to *)
(* raise_error when there is none.                                         *)
THEOREM NearestCatches == Spec /\ Structured(prog) => NearestHandler
<1> DEFINE Nearest ==
             Catching =>
               LET from    == IF At("RAIS") THEN t ELSE Unwound(t, LoopBlocks(t) + 1)
                   bs      == Blocks(from)
                   inForce == {i \in DOMAIN bs : bs[i].iter /\ InForce(prog.code, bs[i].tok, bs[i].ip)}
               IN IF inForce = {} THEN t'.block.tok = "raise_error"
                  ELSE /\ \A i \in inForce : i <= Len(t'.saved) + 1
                       /\ Len(t'.saved) + 1 \in inForce
                       /\ InForce(prog.code, t'.block.tok, t'.block.ip)
<1>1. IInv /\ [Next]_vars => [Nearest]_vars
  BY CaughtNearest
<1>2. NearestHandler <=> [][Nearest]_vars
  BY DEF NearestHandler
<1> HIDE DEF Nearest
<1> QED BY <1>1, <1>2, Invariance, PTL DEF Spec
=============================================================================
