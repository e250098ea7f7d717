--------------------------- MODULE VmStackProofs ---------------------------
(***************************************************************************)
(* Proofs about the operand stack of VmControl, for any programs and roots *)
(* whose code is Structured and Balanced: every way to a place brings as   *)
(* many operands as it expects, and no more than one where a block may be  *)
(* closed. Then t_back, which removes half of what it finds too many, puts *)
(* the stack back to where the block below left it.                        *)
(***************************************************************************)
EXTENDS VmControlProofs

-----------------------------------------------------------------------------
(* The operands of each block: the saved ones hold at most one, and go on  *)
(* with as many as the place expects where they are resumed.               *)

(* The size of the stack below the operands of the block above block n,    *)
(* and the operands of the current block.                                  *)
Floor(s, n) == IF n = 0 THEN 0 ELSE s.saved[n].size
Own(s) == Len(s.stack) - Floor(s, Len(s.saved))

Expects(p, ip, n) ==
  ip \in Places(p.code) /\ Fewest(p.code)[ip] <= n /\ n <= Most(p.code)[ip]

Resumes(p, below, b, n) ==
  /\ n \in 0 .. 1
  /\ b.iter => /\ below.ip \in DOMAIN p.code /\ p.code[below.ip].op = "NBLK"
               /\ p.code[below.ip].tok = b.tok /\ Expects(p, below.ip, n)
  /\ ~b.iter /\ ~below.err => Expects(p, below.ip + 1, n)

Catches(p, b) ==
  b.goto # 0 => \A j \in {b.goto, b.goto + 1} : Expects(p, j, 0) /\ Expects(p, j, 1)

Piled(p, s) ==
  /\ \A i \in 1 .. Len(s.saved) :
       Resumes(p, s.saved[i], Blocks(s)[i + 1], s.saved[i].size - Floor(s, i - 1))
  /\ \A i \in 1 .. Len(s.saved) + 1 : Catches(p, Blocks(s)[i])

Fit(p, s) == Piled(p, s) /\ Expects(p, s.block.ip, Own(s))

(* Sizes are numbers.                                                      *)
LEMMA FloorType ==
  ASSUME NEW s \in States
  PROVE  /\ Len(s.saved) \in Nat /\ Len(s.stack) \in Nat /\ Own(s) \in Int
         /\ \A n \in 0 .. Len(s.saved) : Floor(s, n) \in Nat
         /\ \A n \in 1 .. Len(s.saved) : s.saved[n].size \in Nat /\ s.saved[n] \in BlockSet
<1>1. Len(s.saved) \in Nat /\ Len(s.stack) \in Nat /\ s.saved \in Seq(BlockSet)
  BY BlocksType
<1>2. \A n \in 1 .. Len(s.saved) : s.saved[n].size \in Nat /\ s.saved[n] \in BlockSet
  <2>1. \A n \in 1 .. Len(s.saved) : s.saved[n] \in BlockSet
    BY <1>1
  <2>2. \A b \in BlockSet : b.size \in Nat
    BY DEF BlockSet
  <2> QED BY <2>1, <2>2
<1>3. \A n \in 0 .. Len(s.saved) : Floor(s, n) \in Nat
  <2> SUFFICES ASSUME NEW n \in 0 .. Len(s.saved) PROVE Floor(s, n) \in Nat
    OBVIOUS
  <2>1. n # 0 => n \in 1 .. Len(s.saved)
    BY <1>1
  <2> QED BY <1>2, <2>1 DEF Floor
<1>4. Floor(s, Len(s.saved)) \in Nat
  BY <1>1, <1>3
<1>5. Own(s) \in Int
  BY <1>1, <1>4 DEF Own
<1> QED BY <1>1, <1>2, <1>3, <1>5

(* Another current block with the same name and kind, or other operands.   *)
LEMMA TopPiled ==
  ASSUME NEW p, NEW s \in States, NEW r \in States, Piled(p, s), r.saved = s.saved,
         r.block.iter = s.block.iter, r.block.tok = s.block.tok, Catches(p, r.block)
  PROVE  Piled(p, r) /\ Own(r) = Own(s) + Len(r.stack) - Len(s.stack)
<1> DEFINE m == Len(s.saved)
<1>1. /\ m \in Nat /\ Blocks(s)[m + 1] = s.block
      /\ \A i \in 1 .. m : Blocks(s)[i] = s.saved[i]
  BY BlocksType
<1>2. /\ Len(r.saved) = m /\ Blocks(r)[m + 1] = r.block
      /\ \A i \in 1 .. m : Blocks(r)[i] = s.saved[i]
  BY BlocksType
<1>3. \A n : Floor(r, n) = Floor(s, n)
  BY DEF Floor
<1>4. ASSUME NEW i \in 1 .. m
      PROVE  Resumes(p, r.saved[i], Blocks(r)[i + 1], r.saved[i].size - Floor(r, i - 1))
  <2> DEFINE n == s.saved[i].size - Floor(s, i - 1)
  <2>1. Resumes(p, s.saved[i], Blocks(s)[i + 1], n)
    BY DEF Piled
  <2>2. r.saved[i].size - Floor(r, i - 1) = n
    BY <1>3
  <2> HIDE DEF n, m
  <2>3. CASE i = m
    <3>1. Resumes(p, s.saved[i], s.block, n)
      BY <1>1, <2>1, <2>3
    <3>2. Resumes(p, s.saved[i], r.block, n)
      BY <3>1 DEF Resumes
    <3> QED BY <1>2, <2>2, <2>3, <3>2
  <2>4. CASE i # m
    <3>1. i + 1 \in 1 .. m
      BY <1>1, <2>4
    <3> QED BY <1>1, <1>2, <2>1, <2>2, <3>1
  <2> QED BY <2>3, <2>4
<1>5. ASSUME NEW i \in 1 .. m + 1
      PROVE  Catches(p, Blocks(r)[i])
  <2>1. CASE i = m + 1
    BY <1>2, <2>1
  <2>2. CASE i # m + 1
    <3>1. i \in 1 .. m
      BY <1>1, <2>2
    <3>2. Catches(p, Blocks(s)[i])
      BY DEF Piled
    <3> QED BY <1>1, <1>2, <3>1, <3>2
  <2> QED BY <2>1, <2>2
<1>6. Own(r) = Own(s) + Len(r.stack) - Len(s.stack)
  <2>1. Floor(s, m) \in Nat /\ Len(s.stack) \in Nat /\ Len(r.stack) \in Nat
    BY FloorType
  <2>2. Own(s) = Len(s.stack) - Floor(s, m) /\ Own(r) = Len(r.stack) - Floor(s, m)
    BY <1>2, <1>3 DEF Own
  <2> DEFINE a == Len(s.stack)
             b == Len(r.stack)
             f == Floor(s, m)
  <2>3. f \in Nat /\ a \in Nat /\ b \in Nat /\ Own(s) = a - f /\ Own(r) = b - f
    BY <2>1, <2>2
  <2> HIDE DEF a, b, f, m
  <2>4. Own(r) = Own(s) + b - a
    BY <2>3
  <2> QED BY <2>4 DEF a, b
<1>7. Piled(p, r)
  <2>1. Len(r.saved) = m
    BY <1>2
  <2> HIDE DEF m
  <2> QED BY <1>4, <1>5, <2>1 DEF Piled
<1> QED BY <1>6, <1>7

LEMMA SameOperands ==
  ASSUME NEW p, NEW s \in States, NEW r \in States, Piled(p, s), r.saved = s.saved,
         r.block.iter = s.block.iter, r.block.tok = s.block.tok,
         r.block.goto = s.block.goto, r.stack = s.stack
  PROVE  Piled(p, r) /\ Own(r) = Own(s)
<1>1. Len(s.saved) \in Nat /\ Blocks(s)[Len(s.saved) + 1] = s.block
  BY BlocksType
<1>2. Len(s.saved) + 1 \in 1 .. Len(s.saved) + 1
  BY <1>1
<1>3. Catches(p, s.block)
  BY <1>1, <1>2 DEF Piled
<1>4. Catches(p, r.block)
  BY <1>3 DEF Catches
<1>5. Piled(p, r)
  BY <1>4, TopPiled
<1> QED BY <1>5 DEF Own, Floor

(* A new block, that begins with no operands.                              *)
LEMMA PushPiled ==
  ASSUME NEW p, NEW s \in States, NEW r \in States, Piled(p, s),
         r.saved = Append(s.saved, Lower(s)), r.block.goto = 0,
         Resumes(p, Lower(s), r.block, Own(s)), Len(r.stack) = Len(s.stack)
  PROVE  Piled(p, r) /\ Own(r) = 0
<1> DEFINE m == Len(s.saved)
           low == Lower(s)
<1>1. /\ m \in Nat /\ Blocks(s)[m + 1] = s.block /\ s.saved \in Seq(BlockSet)
      /\ \A i \in 1 .. m : Blocks(s)[i] = s.saved[i]
  BY BlocksType
<1>2. low \in BlockSet /\ low.size = Len(s.stack) /\ low.goto = s.block.goto
      /\ low.iter = s.block.iter /\ low.tok = s.block.tok
  <2>1. s.block \in BlockSet /\ low \in BlockSet
    BY LowerIs DEF States
  <2> QED BY <2>1 DEF Lower, BlockSet
<1>3. /\ Len(r.saved) = m + 1 /\ r.saved[m + 1] = low
      /\ \A i \in 1 .. m : r.saved[i] = s.saved[i]
  BY <1>1, <1>2, AppendProperties
<1>4. /\ Blocks(r)[m + 2] = r.block /\ Blocks(r)[m + 1] = low
      /\ \A i \in 1 .. m : Blocks(r)[i] = s.saved[i]
  <2>1. /\ Blocks(r)[Len(r.saved) + 1] = r.block
        /\ \A i \in 1 .. Len(r.saved) : Blocks(r)[i] = r.saved[i]
    BY BlocksType
  <2> HIDE DEF m
  <2>2. m + 1 + 1 = m + 2 /\ m + 1 \in 1 .. m + 1 /\ \A i \in 1 .. m : i \in 1 .. m + 1
    BY <1>1
  <2> QED BY <1>3, <2>1, <2>2
<1> HIDE DEF low
<1>5. \A n \in 0 .. m : Floor(r, n) = Floor(s, n)
  <2> SUFFICES ASSUME NEW n \in 0 .. m PROVE Floor(r, n) = Floor(s, n)
    OBVIOUS
  <2>1. n # 0 => n \in 1 .. m
    BY <1>1
  <2> QED BY <1>3, <2>1 DEF Floor
<1>6. Floor(r, m + 1) = Len(s.stack)
  BY <1>1, <1>2, <1>3 DEF Floor
<1>7. ASSUME NEW i \in 1 .. m + 1
      PROVE  Resumes(p, r.saved[i], Blocks(r)[i + 1], r.saved[i].size - Floor(r, i - 1))
  <2>1. CASE i = m + 1
    <3>1. i - 1 = m /\ i + 1 = m + 2 /\ m \in 0 .. m
      BY <1>1, <2>1
    <3>2. r.saved[i].size - Floor(r, i - 1) = Own(s)
      BY <1>2, <1>3, <1>5, <2>1, <3>1 DEF Own
    <3> QED BY <1>3, <1>4, <2>1, <3>1, <3>2 DEF low
  <2>2. CASE i # m + 1
    <3>1. i \in 1 .. m /\ i - 1 \in 0 .. m
      BY <1>1, <2>2
    <3>2. Resumes(p, s.saved[i], Blocks(s)[i + 1], s.saved[i].size - Floor(s, i - 1))
      BY <3>1 DEF Piled
    <3>3. r.saved[i].size - Floor(r, i - 1) = s.saved[i].size - Floor(s, i - 1)
      BY <1>3, <1>5, <3>1
    <3>4. CASE i = m
      <4>1. Blocks(s)[i + 1] = s.block /\ Blocks(r)[i + 1] = low
        BY <1>1, <1>4, <3>4
      <4>2. r.saved[i] = s.saved[i]
        BY <1>3, <3>1
      <4> HIDE DEF m
      <4>3. Resumes(p, s.saved[i], low, s.saved[i].size - Floor(s, i - 1))
        BY <1>2, <3>2, <4>1 DEF Resumes
      <4> QED BY <3>3, <4>1, <4>2, <4>3
    <3>5. CASE i # m
      <4>1. i + 1 \in 1 .. m
        BY <1>1, <3>1, <3>5
      <4>2. Blocks(r)[i + 1] = Blocks(s)[i + 1] /\ r.saved[i] = s.saved[i]
        BY <1>1, <1>3, <1>4, <3>1, <4>1
      <4> QED BY <3>2, <3>3, <4>2
    <3> QED BY <3>4, <3>5
  <2> QED BY <2>1, <2>2
<1>8. ASSUME NEW i \in 1 .. m + 2
      PROVE  Catches(p, Blocks(r)[i])
  <2>1. CASE i = m + 2
    BY <1>4, <2>1 DEF Catches
  <2>2. CASE i = m + 1
    <3>1. Catches(p, s.block)
      <4>1. m + 1 \in 1 .. m + 1
        BY <1>1
      <4> QED BY <1>1, <4>1 DEF Piled
    <3> QED BY <1>2, <1>4, <2>2, <3>1 DEF Catches
  <2>3. CASE i \in 1 .. m
    <3>1. i \in 1 .. m + 1
      BY <1>1, <2>3
    <3>2. Catches(p, Blocks(s)[i])
      BY <3>1 DEF Piled
    <3> QED BY <1>1, <1>4, <2>3, <3>2
  <2> QED BY <1>1, <2>1, <2>2, <2>3
<1>9. Own(r) = 0
  <2>1. Len(s.stack) \in Nat
    BY FloorType
  <2>2. Own(r) = Len(s.stack) - Floor(r, m + 1)
    BY <1>3 DEF Own
  <2> QED BY <1>6, <2>1, <2>2
<1>10. /\ \A i \in 1 .. Len(r.saved) :
            Resumes(p, r.saved[i], Blocks(r)[i + 1], r.saved[i].size - Floor(r, i - 1))
       /\ \A i \in 1 .. Len(r.saved) + 1 : Catches(p, Blocks(r)[i])
  <2>1. Len(r.saved) = m + 1 /\ Len(r.saved) + 1 = m + 2
    BY <1>1, <1>3
  <2> QED BY <1>7, <1>8, <2>1
<1> QED BY <1>9, <1>10 DEF Piled

-----------------------------------------------------------------------------
(* t_back.                                                                 *)

LEMMA UnwoundNext ==
  ASSUME NEW s, NEW k \in Nat
  PROVE  Unwound(s, 0) = s /\ Unwound(s, k + 1) = TBack(Unwound(s, k))
<1>1. PICK f : /\ f = [i \in 0 .. k + 1 |-> IF i = 0 THEN s ELSE TBack(f[i - 1])]
               /\ Unwound(s, k + 1) = f[k + 1]
  <2>1. k + 1 \in Nat
    OBVIOUS
  <2> QED BY <2>1, UnwoundSteps
<1>2. PICK g : /\ g = [i \in 0 .. k |-> IF i = 0 THEN s ELSE TBack(g[i - 1])]
               /\ Unwound(s, k) = g[k]
  BY UnwoundSteps
<1>3. PICK h : /\ h = [i \in 0 .. 0 |-> IF i = 0 THEN s ELSE TBack(h[i - 1])]
               /\ Unwound(s, 0) = h[0]
  BY UnwoundSteps
<1> DEFINE T == {i \in Nat : i <= k => f[i] = g[i]}
<1>4. 0 \in T
  <2>1. f[0] = s /\ g[0] = s
    BY <1>1, <1>2
  <2> QED BY <2>1
<1>5. ASSUME NEW i \in Nat, i \in T
      PROVE  i + 1 \in T
  <2> SUFFICES ASSUME i + 1 <= k PROVE f[i + 1] = g[i + 1]
    OBVIOUS
  <2>1. i + 1 \in 0 .. k + 1 /\ i + 1 \in 0 .. k /\ i + 1 # 0 /\ (i + 1) - 1 = i /\ i <= k
    OBVIOUS
  <2>2. f[i + 1] = TBack(f[(i + 1) - 1])
    BY <1>1, <2>1
  <2>3. g[i + 1] = TBack(g[(i + 1) - 1])
    BY <1>2, <2>1
  <2> QED BY <1>5, <2>1, <2>2, <2>3
<1>6. k \in T
  <2> HIDE DEF T
  <2> QED BY <1>4, <1>5, Induction
<1>7. f[k + 1] = TBack(f[k])
  <2>1. k + 1 \in 0 .. k + 1 /\ k + 1 # 0 /\ (k + 1) - 1 = k
    OBVIOUS
  <2>2. f[k + 1] = TBack(f[(k + 1) - 1])
    BY <1>1, <2>1
  <2> QED BY <2>1, <2>2
<1> QED BY <1>1, <1>2, <1>3, <1>6, <1>7

(* One operand too many is removed.                                        *)
LEMMA TBackStack ==
  ASSUME NEW s \in States, s.saved # << >>, Len(s.stack) - Last(s.saved).size \in 0 .. 1
  PROVE  Len(TBack(s).stack) = Last(s.saved).size
<1> DEFINE n == Len(s.stack)
           z == Last(s.saved).size
           popped == IF n - z > 0 THEN ((n - z) + 1) \div 2 ELSE 0
<1>1. /\ n \in Nat /\ s.stack \in Seq(Toks) /\ Last(s.saved) \in BlockSet
  BY BlocksType, LastBlock
<1>2. z \in Nat /\ n - z \in 0 .. 1
  BY <1>1 DEF BlockSet
<1>3. TBack(s).stack = SubSeq(s.stack, 1, n - popped)
  BY DEF TBack, States
<1> HIDE DEF n, z
<1>4. n - popped = z
  <2>1. n - z = 0 \/ n - z = 1
    BY <1>1, <1>2
  <2>2. CASE n - z = 0
    BY <1>1, <1>2, <2>2
  <2>3. CASE n - z = 1
    <3>1. popped = 1
      <4>1. popped = 2 \div 2
        BY <2>3
      <4> QED BY <4>1
    <3> QED BY <1>1, <1>2, <2>3, <3>1
  <2> QED BY <2>1, <2>2, <2>3
<1>5. z \in 0 .. n
  BY <1>1, <1>2
<1>6. Len(SubSeq(s.stack, 1, z)) = z
  <2>1. \A i \in 1 .. z : s.stack[i] \in Toks
    BY <1>1, <1>5 DEF n
  <2>2. Len(SubSeq(s.stack, 1, z)) = IF 1 <= z THEN z - 1 + 1 ELSE 0
    BY <1>2, <2>1, SubSeqProperties
  <2> QED BY <1>2, <2>2
<1> QED BY <1>3, <1>4, <1>6 DEF z

(* Blocks with at most one operand each are closed exactly.                *)
LEMMA UnwoundPiled ==
  ASSUME NEW p, NEW s \in States, Piled(p, s), Own(s) \in 0 .. 1,
         NEW n \in 0 .. Len(s.saved)
  PROVE  /\ Piled(p, Unwound(s, n)) /\ Own(Unwound(s, n)) \in 0 .. 1
         /\ n # 0 => /\ Len(Unwound(s, n).stack) = Unwound(s, n).block.size
                     /\ Resumes(p, Unwound(s, n).block, Blocks(s)[Len(s.saved) + 2 - n],
                                Own(Unwound(s, n)))
<1> DEFINE m == Len(s.saved)
           Size(k) == IF k = 0 THEN Len(s.stack) ELSE s.saved[m + 1 - k].size
           T == {k \in Nat : k <= n => Len(Unwound(s, k).stack) = Size(k)}
<1>1. /\ m \in Nat /\ n \in Nat /\ n <= m
      /\ \A i \in 1 .. m : s.saved[i].size \in Nat
      /\ \A i \in 1 .. m : s.saved[i].size - Floor(s, i - 1) \in 0 .. 1
  <2>1. m \in Nat /\ \A i \in 1 .. m : s.saved[i].size \in Nat
    BY FloorType
  <2> QED BY <2>1 DEF Piled, Resumes
<1>2. 0 \in T
  <2>1. Unwound(s, 0) = s
    BY UnwoundNext
  <2> QED BY <2>1
<1>3. ASSUME NEW k \in Nat, k \in T
      PROVE  k + 1 \in T
  <2> DEFINE r == Unwound(s, k)
  <2> SUFFICES ASSUME k + 1 <= n PROVE Len(Unwound(s, k + 1).stack) = Size(k + 1)
    OBVIOUS
  <2>1. Unwound(s, k + 1) = TBack(r)
    BY UnwoundNext
  <2>2. Len(r.stack) = Size(k)
    BY <1>1, <1>3
  <2>3. k \in 0 .. m /\ m - k \in 1 .. m /\ m - k \in 1 .. m - k /\ k # m /\ m + 1 - (k + 1) = m - k
    <3> HIDE DEF m
    <3> QED BY <1>1
  <2>4. /\ r \in States /\ Len(r.saved) = m - k
        /\ \A i \in 1 .. m - k : r.saved[i] = s.saved[i]
    BY <2>3, UnwoundBlocks
  <2> HIDE DEF r, m, T
  <2>5. r.saved # << >> /\ Last(r.saved) = s.saved[m - k]
    <3>1. r.saved \in Seq(BlockSet) /\ Len(r.saved) # 0
      BY <2>3, <2>4 DEF States
    <3>2. r.saved # << >>
      BY <3>1, EmptySeq
    <3> QED BY <2>3, <2>4, <3>1, <3>2, LastBlock
  <2>6. Size(k) - s.saved[m - k].size \in 0 .. 1
    <3>1. CASE k = 0
      <4>1. m - k = m /\ m # 0
        BY <1>1, <2>3, <3>1
      <4>2. Floor(s, m) = s.saved[m].size
        BY <4>1 DEF Floor
      <4> QED BY <3>1, <4>1, <4>2 DEF Own, m
    <3>2. CASE k # 0
      <4>1. /\ m + 1 - k \in 1 .. m /\ (m + 1 - k) - 1 = m - k
        BY <1>1, <2>3, <3>2
      <4>2. Floor(s, m - k) = s.saved[m - k].size
        BY <2>3 DEF Floor
      <4> QED BY <1>1, <3>2, <4>1, <4>2
    <3> QED BY <3>1, <3>2
  <2>7. Len(TBack(r).stack) = s.saved[m - k].size
    BY <2>2, <2>4, <2>5, <2>6, TBackStack
  <2> QED BY <2>1, <2>3, <2>7
<1>4. Len(Unwound(s, n).stack) = Size(n)
  <2> HIDE DEF T
  <2>1. n \in T
    BY <1>1, <1>2, <1>3, Induction
  <2> QED BY <1>1, <2>1 DEF T
<1> DEFINE u == Unwound(s, n)
           k == m - n
<1>5. /\ u \in States /\ Len(u.saved) = k /\ k \in Nat /\ k <= m
      /\ \A i \in 1 .. k : u.saved[i] = s.saved[i]
      /\ u.block = Blocks(s)[k + 1]
      /\ \A i \in 1 .. k : Blocks(u)[i] = Blocks(s)[i]
      /\ Blocks(u)[k + 1] = u.block
  <2>1. /\ u \in States /\ Len(u.saved) = k
        /\ \A i \in 1 .. k : u.saved[i] = s.saved[i]
        /\ u.block = Blocks(s)[m + 1 - n]
    BY UnwoundBlocks
  <2>2. k \in Nat /\ k <= m /\ m + 1 - n = k + 1
    BY <1>1
  <2>3. /\ \A i \in 1 .. k : Blocks(u)[i] = u.saved[i]
        /\ Blocks(u)[k + 1] = u.block
    BY <2>1, BlocksType
  <2>4. \A i \in 1 .. m : Blocks(s)[i] = s.saved[i]
    BY BlocksType
  <2>5. \A i \in 1 .. k : i \in 1 .. m
    BY <1>1, <2>2
  <2> QED BY <2>1, <2>2, <2>3, <2>4, <2>5
<1> HIDE DEF u, k
<1>6. \A i \in 0 .. k : Floor(u, i) = Floor(s, i)
  <2> SUFFICES ASSUME NEW i \in 0 .. k PROVE Floor(u, i) = Floor(s, i)
    OBVIOUS
  <2>1. i # 0 => i \in 1 .. k
    BY <1>5
  <2> QED BY <1>5, <2>1 DEF Floor
<1>7. Piled(p, u)
  <2>1. ASSUME NEW i \in 1 .. k
        PROVE  Resumes(p, u.saved[i], Blocks(u)[i + 1], u.saved[i].size - Floor(u, i - 1))
    <3>1. i \in 1 .. m /\ i - 1 \in 0 .. k /\ (i + 1 \in 1 .. k \/ i + 1 = k + 1)
      BY <1>1, <1>5
    <3>2. Resumes(p, s.saved[i], Blocks(s)[i + 1], s.saved[i].size - Floor(s, i - 1))
      BY <3>1 DEF Piled
    <3>3. Blocks(u)[i + 1] = Blocks(s)[i + 1] /\ u.saved[i] = s.saved[i]
      BY <1>5, <3>1
    <3>4. Floor(u, i - 1) = Floor(s, i - 1)
      BY <1>6, <3>1
    <3> QED BY <3>2, <3>3, <3>4
  <2>2. ASSUME NEW i \in 1 .. k + 1
        PROVE  Catches(p, Blocks(u)[i])
    <3>1. i \in 1 .. m + 1 /\ (i \in 1 .. k \/ i = k + 1)
      BY <1>1, <1>5
    <3>2. Catches(p, Blocks(s)[i])
      BY <3>1 DEF Piled
    <3> QED BY <1>5, <3>1, <3>2
  <2> HIDE DEF m
  <2> QED BY <1>5, <2>1, <2>2 DEF Piled
<1>8. CASE n = 0
  <2>1. Unwound(s, n) = s
    BY <1>8, UnwoundNext
  <2> QED BY <1>8, <2>1
<1>9. CASE n # 0
  <2>1. k + 1 \in 1 .. m /\ m + 1 - n = k + 1 /\ m + 2 - n = (k + 1) + 1 /\ (k + 1) - 1 = k
        /\ k \in 0 .. k
    BY <1>1, <1>5, <1>9 DEF k
  <2>2. u.block = s.saved[k + 1]
    BY <1>5, <2>1, BlocksType
  <2>3. Len(u.stack) = u.block.size
    BY <1>4, <1>9, <2>1, <2>2 DEF u
  <2>4. Own(u) = s.saved[k + 1].size - Floor(s, k)
    BY <1>5, <1>6, <2>1, <2>2, <2>3 DEF Own
  <2>5. Resumes(p, s.saved[k + 1], Blocks(s)[(k + 1) + 1], s.saved[k + 1].size - Floor(s, (k + 1) - 1))
    BY <2>1 DEF Piled
  <2>6. Resumes(p, u.block, Blocks(s)[m + 2 - n], Own(u))
    BY <2>1, <2>2, <2>4, <2>5
  <2>7. Own(u) \in 0 .. 1
    BY <2>6 DEF Resumes
  <2> QED BY <1>7, <2>3, <2>6, <2>7 DEF u
<1> QED BY <1>8, <1>9

-----------------------------------------------------------------------------
(* The steps a thread is made of.                                          *)

LEMMA FinishIs ==
  ASSUME NEW s \in States, ~s.block.err
  PROVE  /\ Finish(s) \in States /\ Finish(s).saved = s.saved /\ Finish(s).stack = s.stack
         /\ Finish(s).block = [s.block EXCEPT !.ip = s.block.ip + 1]
         /\ Finish(s).block.ip = s.block.ip + 1 /\ Finish(s).block.tok = s.block.tok
         /\ Finish(s).block.iter = s.block.iter /\ Finish(s).block.goto = s.block.goto
         /\ Finish(s).block.size = s.block.size
<1>1. s.block \in BlockSet
  BY DEF States
<1>2. [s.block EXCEPT !.ip = s.block.ip + 1] \in BlockSet
  BY <1>1 DEF BlockSet
<1>3. Finish(s) = [s EXCEPT !.block = [s.block EXCEPT !.ip = s.block.ip + 1]]
  BY DEF Finish, Shift, States
<1>4. /\ Finish(s) \in States /\ Finish(s).saved = s.saved /\ Finish(s).stack = s.stack
      /\ Finish(s).block = [s.block EXCEPT !.ip = s.block.ip + 1]
  BY <1>2, <1>3 DEF States
<1> QED BY <1>1, <1>4 DEF BlockSet

LEMMA CallIs ==
  ASSUME Fine, NEW s \in States, NEW f \in DOMAIN prog.entry
  PROVE  /\ Finish(CallFn(s, f)) = Shift(CallFn(s, f), 1)
         /\ Finish(CallFn(s, f)) \in States
         /\ Finish(CallFn(s, f)).saved = Append(s.saved, Lower(s))
         /\ Finish(CallFn(s, f)).stack = s.stack
         /\ Finish(CallFn(s, f)).block.ip = prog.entry[f]
         /\ Finish(CallFn(s, f)).block.tok = f
         /\ ~Finish(CallFn(s, f)).block.iter
         /\ Finish(CallFn(s, f)).block.goto = 0
<1> DEFINE c == TNewBlock(s, f, FALSE)
           q == CallFn(s, f)
           e == prog.entry[f]
<1>1. f \in Names /\ e \in Nat \ {0} /\ e - 1 \in Nat
  BY EntryFacts
<1>2. /\ c \in States /\ c.saved = Append(s.saved, Lower(s))
      /\ c.block = Block(s.block.ip, f, FALSE)
  BY <1>1, NewBlockIs
<1>3. c.stack = s.stack
  BY DEF TNewBlock, States
<1>4. q = [c EXCEPT !.block = [c.block EXCEPT !.ip = e - 1]]
  BY <1>2 DEF CallFn, States
<1> HIDE DEF c, q, e
<1>5. c.block \in BlockSet
  BY <1>2 DEF States
<1>6. c.block.tok = f /\ ~c.block.iter /\ c.block.goto = 0 /\ ~c.block.err
  BY <1>2 DEF Block
<1>7. [c.block EXCEPT !.ip = e - 1] \in BlockSet
  BY <1>1, <1>5 DEF BlockSet
<1>8. /\ q \in States /\ q.saved = Append(s.saved, Lower(s)) /\ q.stack = s.stack
      /\ q.block = [c.block EXCEPT !.ip = e - 1]
  BY <1>2, <1>3, <1>4, <1>7 DEF States
<1>9. /\ q.block.ip = e - 1 /\ q.block.tok = f /\ ~q.block.iter /\ q.block.goto = 0
      /\ ~q.block.err
  BY <1>5, <1>6, <1>8 DEF BlockSet
<1>10. /\ Finish(q) \in States /\ Finish(q).saved = q.saved /\ Finish(q).stack = q.stack
       /\ Finish(q).block.ip = q.block.ip + 1 /\ Finish(q).block.tok = q.block.tok
       /\ Finish(q).block.iter = q.block.iter /\ Finish(q).block.goto = q.block.goto
  BY <1>8, <1>9, FinishIs
<1>11. (e - 1) + 1 = e
  BY <1>1
<1>12. Finish(q) = Shift(q, 1)
  BY <1>9 DEF Finish
<1> QED BY <1>8, <1>9, <1>10, <1>11, <1>12 DEF q, e

(* What Balanced says of the places where a block begins.                  *)
LEMMA Beginnings ==
  ASSUME NEW p, Balanced(p)
  PROVE  /\ \A f \in DOMAIN p.entry : Expects(p, p.entry[f], 0)
         /\ Expects(p, 1, 0) /\ Expects(p, p.entry["raise_error"] + 1, 0)
<1> DEFINE low == Fewest(p.code)
           high == Most(p.code)
<1>1. high \in [Places(p.code) -> Nat]
  BY DEF Balanced, Balances
<1>2. \A i \in {1, p.entry["raise_error"] + 1} \cup {p.entry[f] : f \in DOMAIN p.entry} :
        i \in Places(p.code) /\ low[i] = 0
  BY DEF Balanced, Balances
<1> HIDE DEF low, high
<1>3. \A i \in Places(p.code) : low[i] = 0 => low[i] <= 0 /\ 0 <= high[i]
  BY <1>1
<1>4. \A i \in {1, p.entry["raise_error"] + 1} \cup {p.entry[f] : f \in DOMAIN p.entry} :
        i \in Places(p.code) /\ low[i] <= 0 /\ 0 <= high[i]
  BY <1>2, <1>3
<1> QED BY <1>4 DEF Expects, low, high

(* A call, and the call of raise_error that ends its step itself.          *)
LEMMA CallFits ==
  ASSUME Fine, Balanced(prog), NEW s \in States, Piled(prog, s), Own(s) \in 0 .. 1,
         NEW f \in DOMAIN prog.entry,
         ~s.block.err => Expects(prog, s.block.ip + 1, Own(s))
  PROVE  /\ Piled(prog, Finish(CallFn(s, f))) /\ Own(Finish(CallFn(s, f))) = 0
         /\ Fit(prog, Finish(CallFn(s, f)))
         /\ Len(Finish(CallFn(s, f)).saved) = Len(s.saved) + 1
<1> DEFINE r == Finish(CallFn(s, f))
<1>1. /\ r \in States /\ r.saved = Append(s.saved, Lower(s)) /\ r.stack = s.stack
  BY CallIs
<1>2. r.block.ip = prog.entry[f] /\ r.block.goto = 0 /\ ~r.block.iter
  BY CallIs
<1> HIDE DEF r
<1>3. Lower(s).ip = s.block.ip /\ Lower(s).err = s.block.err /\ Lower(s) \in BlockSet
  BY LowerIs
<1>4. Resumes(prog, Lower(s), r.block, Own(s))
  BY <1>2, <1>3 DEF Resumes
<1>5. Piled(prog, r) /\ Own(r) = 0
  BY <1>1, <1>2, <1>4, PushPiled
<1>6. Expects(prog, r.block.ip, Own(r))
  BY <1>2, <1>5, Beginnings
<1>7. Len(r.saved) = Len(s.saved) + 1
  <2>1. s.saved \in Seq(BlockSet)
    BY DEF States
  <2> QED BY <1>1, <1>3, <2>1, AppendProperties
<1> QED BY <1>5, <1>6, <1>7 DEF Fit, r

(* Exactly restored, if the step closes blocks.                            *)
Restored(s, r) ==
  Len(r.saved) < Len(s.saved) /\ r.block.tok # "raise_error" => Len(r.stack) = r.block.size

(* An error that is caught.                                                *)
LEMMA CatchFits ==
  ASSUME Fine, Balanced(prog), NEW s, Ok(Code, s), s.saved # << >>,
         Piled(prog, s), Own(s) \in 0 .. 1
  PROVE  /\ CatchError(s) \in States
         /\ Fit(prog, CatchError(s))
         /\ Expects(prog, CatchError(s).block.ip + 1, Own(CatchError(s)))
         /\ Restored(s, CatchError(s))
         /\ Len(s.stack) = s.block.size /\ CatchError(s).block.tok # "raise_error"
              => Len(CatchError(s).stack) = CatchError(s).block.size
<1> DEFINE m == Len(s.saved)
           i == Max(Handlers(s) \cup {1})
           n == m + 1 - i
           u == Unwound(s, n)
           bs == Blocks(s)
           r == CatchError(s)
<1>1. /\ s \in States /\ m \in Nat /\ DOMAIN bs = 1 .. m + 1 /\ Len(bs) = m + 1 /\ m # 0
      /\ s.saved \in Seq(BlockSet) /\ Local(Code, bs)
  BY BlocksType, EmptySeq DEF Ok
<1>2. i \in Handlers(s) \cup {1} /\ i \in 1 .. m + 1
  BY <1>1, CatcherIs
<1>3. r = IF u.block.goto = 0 THEN Shift(CallFn(u, "raise_error"), 1)
          ELSE [u EXCEPT !.block.ip = u.block.goto, !.block.err = FALSE]
  BY DEF CatchError, CatchErrorIn
<1> HIDE DEF i, bs, r
<1>4. n \in 0 .. m /\ m - n = i - 1 /\ m + 1 - n = i /\ n \in Nat /\ i \in Nat
  <2> HIDE DEF m
  <2> QED BY <1>1, <1>2
<1> HIDE DEF n
<1>5. /\ u \in States /\ Len(u.saved) = i - 1 /\ u.block = bs[i]
  BY <1>1, <1>4, UnwoundBlocks DEF bs
<1>6. /\ Piled(prog, u) /\ Own(u) \in 0 .. 1
      /\ n # 0 => /\ Len(u.stack) = u.block.size
                  /\ Resumes(prog, u.block, bs[m + 2 - n], Own(u))
  BY <1>1, <1>4, UnwoundPiled DEF bs
<1>7. n = 0 => u = s
  BY UnwoundNext
<1> HIDE DEF u, m
<1>8. u.block \in BlockSet /\ "raise_error" \in DOMAIN prog.entry
  BY <1>5, TwoFunctions DEF States
<1>9. CASE u.block.goto = 0
  <2>1. i = 1
    BY <1>1, <1>2, <1>5, <1>9 DEF Handlers, bs
  <2>2. n # 0 /\ m + 2 - n = 2
    BY <1>1, <1>4, <2>1
  <2>3. ~bs[2].iter /\ ~bs[1].err
    <3>1. Len(bs) > 1
      BY <1>1
    <3> QED BY <1>1, <3>1 DEF Local
  <2>4. Expects(prog, u.block.ip + 1, Own(u))
    <3>1. Resumes(prog, u.block, bs[2], Own(u))
      BY <1>6, <2>2
    <3> QED BY <1>5, <2>1, <2>3, <3>1 DEF Resumes
  <2>5. r = Finish(CallFn(u, "raise_error")) /\ r \in States
    BY <1>3, <1>5, <1>8, <1>9, CallIs
  <2>7. r.block.ip = prog.entry["raise_error"] /\ r.block.tok = "raise_error"
    BY <1>5, <1>8, <2>5, CallIs
  <2>8. Fit(prog, r) /\ Own(r) = 0
    BY <1>5, <1>6, <1>8, <2>4, <2>5, CallFits
  <2>9. Expects(prog, r.block.ip + 1, Own(r))
    BY <2>7, <2>8, Beginnings
  <2> QED BY <2>5, <2>7, <2>8, <2>9 DEF Restored, r
<1>10. CASE u.block.goto # 0
  <2>1. r = [u EXCEPT !.block = [u.block EXCEPT !.ip = u.block.goto, !.err = FALSE]]
    BY <1>3, <1>5, <1>10 DEF States
  <2>2. [u.block EXCEPT !.ip = u.block.goto, !.err = FALSE] \in BlockSet
    BY <1>8 DEF BlockSet
  <2>3. /\ r \in States /\ r.saved = u.saved /\ r.stack = u.stack
        /\ r.block = [u.block EXCEPT !.ip = u.block.goto, !.err = FALSE]
    BY <1>5, <2>1, <2>2 DEF States
  <2>4. /\ r.block.ip = u.block.goto /\ r.block.tok = u.block.tok /\ r.block.size = u.block.size
        /\ r.block.iter = u.block.iter /\ r.block.goto = u.block.goto
    BY <1>8, <2>3 DEF BlockSet
  <2>5. Catches(prog, u.block)
    <3>1. Blocks(u)[Len(u.saved) + 1] = u.block /\ Len(u.saved) \in Nat
      BY <1>5, BlocksType
    <3>2. Len(u.saved) + 1 \in 1 .. Len(u.saved) + 1
      BY <3>1
    <3> QED BY <1>6, <3>1, <3>2 DEF Piled
  <2>6. Piled(prog, r) /\ Own(r) = Own(u)
    <3>1. Catches(prog, r.block)
      BY <2>4, <2>5 DEF Catches
    <3>2. Piled(prog, r) /\ Own(r) = Own(u) + Len(u.stack) - Len(u.stack)
      BY <1>5, <1>6, <2>3, <2>4, <3>1, TopPiled
    <3>3. Len(u.stack) \in Nat /\ Own(u) \in Int
      BY <1>5, FloorType
    <3> QED BY <3>2, <3>3
  <2>7. Expects(prog, r.block.ip, Own(r)) /\ Expects(prog, r.block.ip + 1, Own(r))
    <3>1. Own(r) = 0 \/ Own(r) = 1
      BY <1>6, <2>6
    <3> QED BY <1>10, <2>4, <2>5, <3>1 DEF Catches
  <2>8. n # 0 => Len(r.stack) = r.block.size
    BY <1>6, <2>3, <2>4
  <2>9. Restored(s, r)
    <3>1. n = 0 => Len(r.saved) = Len(s.saved)
      BY <1>7, <2>3
    <3>2. Len(s.saved) \in Nat
      BY <1>1, BlocksType
    <3> QED BY <2>8, <3>1, <3>2 DEF Restored
  <2>10. Len(s.stack) = s.block.size => Len(r.stack) = r.block.size
    BY <1>7, <2>3, <2>4, <2>8
  <2> QED BY <2>3, <2>6, <2>7, <2>9, <2>10 DEF Fit, r
<1> QED BY <1>9, <1>10

-----------------------------------------------------------------------------
(* The instructions.                                                       *)

(* The inductive invariant: that of VmControlProofs, in code that is       *)
(* balanced, with as many operands as the places of the blocks expect.     *)
SInv == IInv /\ Balanced(prog) /\ Fit(prog, t)

(* What a step should leave.                                               *)
Good(r) == Fit(prog, r) /\ Restored(t, r)

LEMMA Led ==
  ASSUME NEW a \in Nat, NEW b \in Nat, NEW c \in Nat, NEW d \in Nat, NEW n \in Int, NEW k \in Int,
         a <= k, k <= b, c <= a + n, b + n <= d
  PROVE  c <= k + n /\ k + n <= d
OBVIOUS

LEMMA OneAtMost ==
  ASSUME NEW n \in Int, n - 1 \in Nat, n - 1 <= 1
  PROVE  n - 1 \in 0 .. 1
OBVIOUS

LEMMA Unmoved ==
  ASSUME NEW n \in Int, NEW k \in Nat
  PROVE  n + k - k = n
OBVIOUS

(* What the code expects where an instruction leads to.                    *)
LEMMA Leading ==
  ASSUME Fine, Balanced(prog), NEW i \in DOMAIN Code, NEW k \in Int, Expects(prog, i, k)
  PROVE  /\ k \in Nat
         /\ Code[i].op \in Straight \cup {"CTCH", "SETGOTO"} =>
              /\ Effect(Code[i]) \in Int /\ k + Effect(Code[i]) \in Nat
              /\ Expects(prog, i + 1, k + Effect(Code[i]))
         /\ Code[i].op \in Jumping => Expects(prog, i + 1 + Code[i].val, k)
         /\ Code[i].op = "NBLK" =>
              /\ Expects(prog, i + 1, 0)
              /\ \A e \in DOMAIN Code :
                   Code[e].op = "BBLK" /\ Code[e].tok = Code[i].tok => Expects(prog, e + 1, k)
         /\ Code[i].op = "CTCH" =>
              \A j \in {i + 1 + Code[i].val, i + 1 + Code[i].val + 1} :
                Expects(prog, j, 0) /\ Expects(prog, j, 1)
         /\ Code[i].op \in {"GET", "NBLK", "BBLK", "RET", "RAIS"} => k \in 0 .. 1
         /\ Code[i].op = "CALL" => k - 1 <= 1
<1> DEFINE low == Fewest(Code)
           high == Most(Code)
           all == Places(Code)
           c == Code[i]
           to == i + 1 + c.val
           Leads(x, n, j) == low[j] <= low[x] + n /\ high[x] + n <= high[j]
           Lands(j) == low[j] = 0 /\ 1 <= high[j]
<1>1. Len(Code) \in Nat /\ DOMAIN Code = 1 .. Len(Code)
  BY VmControlAssumption DEF Fine, WellFormed, Code
<1>2. /\ all = 1 .. Len(Code) + 1 /\ i \in all /\ i + 1 \in all /\ i \in Nat
      /\ \A e \in DOMAIN Code : e + 1 \in all
  BY <1>1 DEF Places
<1>3. low \in [all -> Nat] /\ high \in [all -> Nat]
  BY DEF Balanced, Balances, Code
<1>4. /\ c.op \in Straight \cup {"CTCH", "SETGOTO"} => Leads(i, Effect(c), i + 1)
      /\ c.op \in Jumping => to \in all /\ Leads(i, 0, to)
      /\ c.op = "NBLK" =>
           /\ low[i + 1] = 0
           /\ \A e \in DOMAIN Code : Code[e].op = "BBLK" /\ Code[e].tok = c.tok => Leads(i, 0, e + 1)
      /\ c.op = "CTCH" => Lands(to) /\ Lands(to + 1)
      /\ c.op \in {"GET", "NBLK", "BBLK", "RET", "RAIS"} => high[i] <= 1
      /\ c.op = "CALL" => high[i] - 1 <= 1
  BY DEF Balanced, Balances, Code
<1>5. c.op = "CTCH" => to \in 1 .. Len(Code)
  BY <1>1 DEF Fine, Structured, Code
<1>6. low[i] <= k /\ k <= high[i]
  BY DEF Expects, Code
<1>7. c.op = "TUPL" => c.val \in Nat
  BY VmControlAssumption DEF Fine, WellFormed, Code
<1>8. \A j, n : Expects(prog, j, n) <=> j \in all /\ low[j] <= n /\ n <= high[j]
  BY DEF Expects, Code
<1> HIDE DEF low, high, all, c, to
<1>9. /\ \A j \in all : low[j] \in Nat /\ high[j] \in Nat
      /\ low[i] \in Nat /\ high[i] \in Nat
  BY <1>2, <1>3
<1>10. k \in Nat
  BY <1>6, <1>9
<1>11. Effect(c) \in Int
  <2>1. CASE c.op = "TUPL"
    BY <1>7, <2>1 DEF Effect
  <2>2. CASE c.op # "TUPL"
    BY <2>2 DEF Effect
  <2> QED BY <2>1, <2>2
<1>12. ASSUME NEW n \in Int, NEW j \in all, Leads(i, n, j)
       PROVE  Expects(prog, j, k + n) /\ k + n \in Nat
  <2>1. low[j] <= k + n /\ k + n <= high[j]
    BY <1>6, <1>9, <1>12, Led
  <2>2. k + n \in Nat
    BY <1>9, <2>1
  <2> QED BY <1>8, <2>1, <2>2
<1>13. ASSUME NEW j \in all, Leads(i, 0, j)
       PROVE  Expects(prog, j, k)
  <2>1. Expects(prog, j, k + 0) /\ k + 0 = k
    BY <1>10, <1>12, <1>13
  <2> QED BY <2>1
<1>14. c.op \in Straight \cup {"CTCH", "SETGOTO"} =>
         k + Effect(c) \in Nat /\ Expects(prog, i + 1, k + Effect(c))
  BY <1>2, <1>4, <1>11, <1>12
<1>15. c.op \in Jumping => Expects(prog, to, k)
  BY <1>4, <1>13
<1>16. c.op = "NBLK" =>
         /\ Expects(prog, i + 1, 0)
         /\ \A e \in DOMAIN Code : Code[e].op = "BBLK" /\ Code[e].tok = c.tok => Expects(prog, e + 1, k)
  <2> SUFFICES ASSUME c.op = "NBLK"
               PROVE  /\ Expects(prog, i + 1, 0)
                      /\ \A e \in DOMAIN Code :
                           Code[e].op = "BBLK" /\ Code[e].tok = c.tok => Expects(prog, e + 1, k)
    OBVIOUS
  <2>1. Expects(prog, i + 1, 0)
    BY <1>2, <1>4, <1>8, <1>9
  <2> QED BY <1>2, <1>4, <1>13, <2>1
<1>17. c.op = "CTCH" => \A j \in {to, to + 1} : Expects(prog, j, 0) /\ Expects(prog, j, 1)
  <2> SUFFICES ASSUME c.op = "CTCH", NEW j \in {to, to + 1}
               PROVE  Expects(prog, j, 0) /\ Expects(prog, j, 1)
    OBVIOUS
  <2>1. j \in all
    BY <1>1, <1>2, <1>5
  <2>2. low[j] = 0 /\ 1 <= high[j]
    BY <1>4
  <2>3. 0 <= high[j] /\ 0 <= 0 /\ 0 <= 1
    BY <1>9, <2>1, <2>2
  <2> QED BY <1>8, <2>1, <2>2, <2>3
<1>18. /\ c.op \in {"GET", "NBLK", "BBLK", "RET", "RAIS"} => k \in 0 .. 1
       /\ c.op = "CALL" => k - 1 <= 1
  BY <1>4, <1>6, <1>9, <1>10
<1> QED BY <1>10, <1>11, <1>14, <1>15, <1>16, <1>17, <1>18 DEF c, to

(* The thread at an instruction.                                           *)
LEMMA Stands ==
  ASSUME SInv, NEW op, At(op)
  PROVE  /\ IInv /\ Fine /\ Balanced(prog) /\ Ok(Code, t) /\ ~t.block.err /\ t.saved # << >>
         /\ t \in States /\ t.block \in BlockSet /\ t.block.ip \in DOMAIN Code
         /\ t.block.ip \in Nat /\ Code[t.block.ip].op = op /\ Ins = Code[t.block.ip]
         /\ Piled(prog, t) /\ Expects(prog, t.block.ip, Own(t)) /\ Own(t) \in Int
         /\ Own(t) \in Nat /\ Len(t.stack) \in Nat /\ Own(t) <= Len(t.stack)
         /\ t.stack \in Seq(Toks) /\ Catches(prog, t.block)
<1>1. /\ IInv /\ Fine /\ Balanced(prog) /\ Ok(Code, t) /\ ~t.block.err /\ t.saved # << >>
      /\ t \in States /\ t.block.ip \in DOMAIN Code /\ t.block.ip \in Nat
      /\ Code[t.block.ip].op = op /\ Ins = Code[t.block.ip]
  BY Here DEF SInv, After
<1>2. Piled(prog, t) /\ Expects(prog, t.block.ip, Own(t))
  BY DEF SInv, Fit
<1>3. t.block \in BlockSet /\ t.stack \in Seq(Toks)
  BY <1>1 DEF States
<1>4. Own(t) \in Int /\ Len(t.stack) \in Nat /\ Len(t.saved) \in Nat
  BY <1>1, FloorType
<1>5. Own(t) \in Nat
  BY <1>1, <1>2, <1>4, Leading
<1>6. Own(t) <= Len(t.stack)
  <2>1. Len(t.saved) \in 0 .. Len(t.saved)
    BY <1>4
  <2>2. Floor(t, Len(t.saved)) \in Nat
    BY <1>1, <2>1, FloorType
  <2> QED BY <1>4, <2>2 DEF Own
<1>7. Catches(prog, t.block)
  <2>1. Blocks(t)[Len(t.saved) + 1] = t.block /\ Len(t.saved) + 1 \in 1 .. Len(t.saved) + 1
    BY <1>1, <1>4, BlocksType
  <2> QED BY <1>2, <2>1 DEF Piled
<1> QED BY <1>1, <1>2, <1>3, <1>4, <1>5, <1>6, <1>7

(* No block is opened or closed.                                           *)
LEMMA SameSaved ==
  ASSUME NEW s \in States, NEW r, r.saved = s.saved
  PROVE  Restored(s, r)
<1>1. Len(s.saved) \in Nat
  BY FloorType
<1> QED BY <1>1 DEF Restored

LEMMA StraightFits ==
  ASSUME SInv, NEW op \in Straight \cup {"CTCH", "SETGOTO"}, At(op), NEW r \in States,
         r.saved = t.saved, r.block.iter = t.block.iter, r.block.tok = t.block.tok,
         r.block.ip = t.block.ip + 1, Catches(prog, r.block),
         Len(r.stack) = Len(t.stack) + Effect(Ins)
  PROVE  Good(r)
<1>1. /\ Fine /\ Balanced(prog) /\ t \in States /\ t.block.ip \in DOMAIN Code
      /\ Code[t.block.ip].op = op /\ Ins = Code[t.block.ip]
      /\ Piled(prog, t) /\ Expects(prog, t.block.ip, Own(t)) /\ Own(t) \in Int
      /\ Len(t.stack) \in Nat
  BY Stands
<1>2. Effect(Ins) \in Int /\ Expects(prog, t.block.ip + 1, Own(t) + Effect(Ins))
  BY <1>1, Leading
<1>3. Piled(prog, r) /\ Own(r) = Own(t) + Len(r.stack) - Len(t.stack)
  BY <1>1, TopPiled
<1>4. Own(r) = Own(t) + Effect(Ins)
  <2> DEFINE a == Len(t.stack)
             e == Effect(Ins)
             o == Own(t)
  <2>1. a \in Nat /\ e \in Int /\ o \in Int /\ Own(r) = o + (a + e) - a
    BY <1>1, <1>2, <1>3
  <2> HIDE DEF a, e, o
  <2>2. Own(r) = o + e
    BY <2>1
  <2> QED BY <2>2 DEF o, e
<1> QED BY <1>1, <1>2, <1>3, <1>4, SameSaved DEF Good, Fit

LEMMA OnStackIs ==
  ASSUME NEW s \in States, NEW stack \in Seq(Toks)
  PROVE  /\ OnStack(s, stack) \in States /\ OnStack(s, stack).saved = s.saved
         /\ OnStack(s, stack).block = s.block /\ OnStack(s, stack).stack = stack
BY DEF OnStack, States

LEMMA OnStackFits ==
  ASSUME SInv, NEW op \in Straight, At(op), NEW stack \in Seq(Toks),
         Len(stack) = Len(t.stack) + Effect(Ins)
  PROVE  Good(Finish(OnStack(t, stack)))
<1> DEFINE x == OnStack(t, stack)
<1>1. t \in States /\ ~t.block.err /\ Catches(prog, t.block)
  BY Stands
<1>2. x \in States /\ x.saved = t.saved /\ x.block = t.block /\ x.stack = stack
  BY <1>1, OnStackIs
<1> HIDE DEF x
<1>3. /\ Finish(x) \in States /\ Finish(x).saved = t.saved /\ Finish(x).stack = stack
      /\ Finish(x).block.ip = t.block.ip + 1 /\ Finish(x).block.tok = t.block.tok
      /\ Finish(x).block.iter = t.block.iter /\ Finish(x).block.goto = t.block.goto
  BY <1>1, <1>2, FinishIs
<1>4. Catches(prog, Finish(x).block)
  BY <1>1, <1>3 DEF Catches
<1>5. Good(Finish(x))
  BY <1>3, <1>4, StraightFits
<1> QED BY <1>5 DEF x

LEMMA FailFits ==
  ASSUME SInv, NEW op, At(op), NEW stack \in Seq(Toks),
         Own(t) + Len(stack) - Len(t.stack) \in 0 .. 1
  PROVE  Good(Finish(ThrowError(OnStack(t, stack))))
<1> DEFINE x == OnStack(t, stack)
           y == Failed(x)
           r == Finish(CallFn(y, "Error"))
<1>1. /\ Fine /\ Balanced(prog) /\ t \in States /\ t.block \in BlockSet /\ Piled(prog, t)
      /\ Catches(prog, t.block)
  BY Stands
<1>2. x \in States /\ x.saved = t.saved /\ x.block = t.block /\ x.stack = stack
  BY <1>1, OnStackIs
<1>3. ThrowError(x) = CallFn(y, "Error")
  BY DEF ThrowError, Failed
<1>4. y = [x EXCEPT !.block = [x.block EXCEPT !.err = TRUE]]
  BY <1>2 DEF Failed, States
<1> HIDE DEF x, y, r
<1>5. [t.block EXCEPT !.err = TRUE] \in BlockSet
  BY <1>1 DEF BlockSet
<1>6. /\ y \in States /\ y.saved = t.saved /\ y.stack = stack
      /\ y.block = [t.block EXCEPT !.err = TRUE]
  BY <1>2, <1>4, <1>5 DEF States
<1>7. /\ y.block.err /\ y.block.iter = t.block.iter /\ y.block.tok = t.block.tok
      /\ y.block.goto = t.block.goto
  BY <1>1, <1>6 DEF BlockSet
<1>8. Piled(prog, y) /\ Own(y) \in 0 .. 1
  <2>1. Catches(prog, y.block)
    BY <1>1, <1>7 DEF Catches
  <2>2. Piled(prog, y) /\ Own(y) = Own(t) + Len(y.stack) - Len(t.stack)
    BY <1>1, <1>6, <1>7, <2>1, TopPiled
  <2> QED BY <1>6, <2>2
<1>9. Fit(prog, r) /\ Len(r.saved) = Len(y.saved) + 1
  BY <1>1, <1>6, <1>7, <1>8, TwoFunctions, CallFits DEF r
<1>10. Restored(t, r)
  <2>1. Len(t.saved) \in Nat
    BY <1>1, FloorType
  <2> QED BY <1>6, <1>9, <2>1 DEF Restored
<1>11. Good(r)
  BY <1>9, <1>10 DEF Good
<1> QED BY <1>3, <1>11 DEF x, r

(* The last operand, taken away.                                           *)
LEMMA FrontStack ==
  ASSUME NEW stack \in Seq(Toks), stack # << >>
  PROVE  Front(stack) \in Seq(Toks) /\ Len(Front(stack)) = Len(stack) - 1
<1> DEFINE n == Len(stack)
<1>1. n \in Nat \ {0}
  BY EmptySeq
<1>2. Front(stack) = SubSeq(stack, 1, n - 1)
  BY DEF Front
<1>3. \A i \in 1 .. n - 1 : stack[i] \in Toks
  BY <1>1
<1> HIDE DEF n
<1>4. n - 1 \in Nat /\ 1 \in Nat
  BY <1>1
<1>5. /\ SubSeq(stack, 1, n - 1) \in Seq(Toks)
      /\ Len(SubSeq(stack, 1, n - 1)) = IF 1 <= n - 1 THEN (n - 1) - 1 + 1 ELSE 0
  BY <1>3, <1>4, SubSeqProperties
<1>6. (IF 1 <= n - 1 THEN (n - 1) - 1 + 1 ELSE 0) = n - 1
  BY <1>1
<1> QED BY <1>2, <1>5, <1>6 DEF n

(* An instruction that does nothing to the operands.                       *)
LEMMA NothingFits ==
  ASSUME SInv, NEW op \in {"OP", "RNIL", "GET", "IF", "IFN", "EXIT"}, At(op)
  PROVE  Good(Finish(t))
<1>1. op \in Straight
  BY DEF Straight
<1>2. t \in States /\ t.stack \in Seq(Toks) /\ Len(t.stack) \in Nat /\ Ins.op = op
  BY Stands
<1>3. Effect(Ins) = 0
  BY <1>2 DEF Effect
<1>4. OnStack(t, t.stack) = t
  BY <1>2 DEF OnStack, States
<1>5. Len(t.stack) = Len(t.stack) + Effect(Ins)
  BY <1>2, <1>3
<1>6. Good(Finish(OnStack(t, t.stack)))
  BY <1>1, <1>2, <1>5, OnStackFits
<1> QED BY <1>4, <1>6

LEMMA PlainFits == SInv /\ Plain => Good(t')
<1>1. Plain => t' = Finish(t) /\ \E op \in {"OP", "RNIL"} : At(op)
  BY DEF Plain, Become
<1> QED BY <1>1, NothingFits

LEMMA GetFits == SInv /\ Get => Good(t')
<1> SUFFICES ASSUME SInv, Get PROVE Good(t')
  OBVIOUS
<1>1. At("GET") /\ (t' = Finish(t) \/ t' = Finish(ThrowError(t)))
  BY DEF Get, Become
<1>2. /\ Fine /\ Balanced(prog) /\ t \in States /\ t.stack \in Seq(Toks)
      /\ t.block.ip \in DOMAIN Code /\ Code[t.block.ip].op = "GET"
      /\ Expects(prog, t.block.ip, Own(t)) /\ Own(t) \in Int /\ Len(t.stack) \in Nat
  BY <1>1, Stands
<1>3. Own(t) \in 0 .. 1
  BY <1>2, Leading
<1>4. OnStack(t, t.stack) = t
  BY <1>2 DEF OnStack, States
<1>5. Own(t) + Len(t.stack) - Len(t.stack) = Own(t)
  BY <1>2
<1>6. Good(Finish(ThrowError(t)))
  BY <1>1, <1>2, <1>3, <1>4, <1>5, FailFits
<1> QED BY <1>1, <1>6, NothingFits

LEMMA PushFits == SInv /\ Push => Good(t')
<1> SUFFICES ASSUME SInv, Push PROVE Good(t')
  OBVIOUS
<1> DEFINE stack == Append(t.stack, Ins.tok)
<1>1. /\ At("PUSH") /\ "PUSH" \in Straight /\ t' = Finish(OnStack(t, stack))
  BY DEF Push, Straight, Become, OnStack
<1>2. IInv /\ t.stack \in Seq(Toks) /\ Ins.op = "PUSH"
  BY <1>1, Stands
<1>3. Ins.tok \in Toks
  BY <1>1, <1>2, Here
<1>4. stack \in Seq(Toks) /\ Len(stack) = Len(t.stack) + 1
  BY <1>2, <1>3, AppendProperties
<1>5. Effect(Ins) = 1
  BY <1>2 DEF Effect
<1> HIDE DEF stack
<1> QED BY <1>1, <1>4, <1>5, OnStackFits

LEMMA DupFits == SInv /\ Dup => Good(t')
<1> SUFFICES ASSUME SInv, Dup PROVE Good(t')
  OBVIOUS
<1> DEFINE stack == Append(t.stack, Last(t.stack))
<1>1. /\ At("DUP") /\ "DUP" \in Straight /\ t.stack # << >>
      /\ t' = Finish(OnStack(t, stack))
  BY DEF Dup, Straight, Become, OnStack
<1>2. IInv /\ t.stack \in Seq(Toks) /\ Ins.op = "DUP"
  BY <1>1, Stands
<1>3. Last(t.stack) \in Toks
  BY <1>1, <1>2, Here, StackType
<1>4. stack \in Seq(Toks) /\ Len(stack) = Len(t.stack) + 1
  BY <1>2, <1>3, AppendProperties
<1>5. Effect(Ins) = 1
  BY <1>2 DEF Effect
<1> HIDE DEF stack
<1> QED BY <1>1, <1>4, <1>5, OnStackFits

(* RES and CALL find an operand of their own block.                        *)
LEMMA HasOperand ==
  ASSUME SInv, NEW op \in {"RES", "CALL"}, At(op)
  PROVE  /\ t.stack # << >> /\ Front(t.stack) \in Seq(Toks)
         /\ Len(Front(t.stack)) = Len(t.stack) - 1 /\ Len(t.stack) \in Nat
         /\ Effect(Ins) = -1 /\ Own(t) - 1 \in Nat
         /\ Expects(prog, t.block.ip + 1, Own(t) - 1)
<1>1. /\ Fine /\ Balanced(prog) /\ t.stack \in Seq(Toks) /\ Len(t.stack) \in Nat
      /\ t.block.ip \in DOMAIN Code /\ Code[t.block.ip].op = op /\ Ins = Code[t.block.ip]
      /\ Expects(prog, t.block.ip, Own(t)) /\ Own(t) \in Int /\ Own(t) <= Len(t.stack)
  BY Stands
<1>2. Effect(Ins) = -1
  BY <1>1 DEF Effect
<1>3. op \in Straight
  BY DEF Straight
<1>4. Own(t) + (-1) \in Nat /\ Expects(prog, t.block.ip + 1, Own(t) + (-1))
  BY <1>1, <1>2, <1>3, Leading
<1>5. Own(t) + (-1) = Own(t) - 1
  BY <1>1
<1>6. t.stack # << >>
  <2>1. Len(t.stack) # 0
    BY <1>1, <1>4, <1>5
  <2> QED BY <1>1, <2>1, EmptySeq
<1> QED BY <1>1, <1>2, <1>4, <1>5, <1>6, FrontStack

(* The operand on top is taken.                                            *)
LEMMA PoppedFits ==
  ASSUME SInv, NEW op \in {"RES", "CALL"}, At(op)
  PROVE  Good(Finish(OnStack(t, Front(t.stack))))
<1>1. /\ Front(t.stack) \in Seq(Toks) /\ Len(t.stack) \in Nat
      /\ Len(Front(t.stack)) = Len(t.stack) - 1 /\ Effect(Ins) = -1
  BY HasOperand
<1>2. Len(Front(t.stack)) = Len(t.stack) + Effect(Ins) /\ op \in Straight
  BY <1>1 DEF Straight
<1> QED BY <1>1, <1>2, OnStackFits

LEMMA ResFits == SInv /\ Res => Good(t')
<1> SUFFICES ASSUME SInv, Res PROVE Good(t')
  OBVIOUS
<1>1. At("RES")
  BY DEF Res
<1>2. t.stack # << >>
  BY <1>1, HasOperand
<1>3. t' = Finish(OnStack(t, Front(t.stack)))
  BY <1>2 DEF Res, Become, Popped, OnStack
<1> QED BY <1>1, <1>3, PoppedFits

LEMMA TuplFits == SInv /\ Tupl => Good(t')
<1> SUFFICES ASSUME SInv, Tupl PROVE Good(t')
  OBVIOUS
<1> DEFINE v == Ins.val
           left == Len(t.stack) - v
           low == SubSeq(t.stack, 1, left)
<1>1. At("TUPL") /\ "TUPL" \in Straight
  BY DEF Tupl, Straight
<1>2. /\ Fine /\ Balanced(prog) /\ t.stack \in Seq(Toks) /\ Len(t.stack) \in Nat
      /\ t.block.ip \in DOMAIN Code /\ Code[t.block.ip].op = "TUPL" /\ Ins = Code[t.block.ip]
      /\ Expects(prog, t.block.ip, Own(t)) /\ Own(t) \in Int /\ Own(t) <= Len(t.stack)
  BY <1>1, Stands
<1>3. v \in Nat
  BY <1>2, VmControlAssumption DEF Fine, WellFormed, Code
<1>4. Effect(Ins) = -v
  BY <1>2 DEF Effect
<1>5. Own(t) + (-v) \in Nat
  BY <1>1, <1>2, <1>4, Leading
<1> HIDE DEF v
<1>6. left \in 0 .. Len(t.stack)
  BY <1>2, <1>3, <1>5
<1>7. t' = Finish(OnStack(t, low))
  BY <1>2, <1>3, <1>6 DEF Tupl, Become, OnStack, v
<1> HIDE DEF left
<1>8. low \in Seq(Toks) /\ Len(low) = left
  <2>1. \A i \in 1 .. left : t.stack[i] \in Toks
    BY <1>2, <1>6
  <2>2. left \in Nat /\ 1 \in Nat
    BY <1>2, <1>6
  <2>3. /\ low \in Seq(Toks)
        /\ Len(low) = IF 1 <= left THEN left - 1 + 1 ELSE 0
    BY <2>1, <2>2, SubSeqProperties
  <2>4. (IF 1 <= left THEN left - 1 + 1 ELSE 0) = left
    BY <2>2
  <2> QED BY <2>3, <2>4
<1>9. left = Len(t.stack) + Effect(Ins)
  BY <1>2, <1>3, <1>4 DEF left
<1> HIDE DEF low
<1> QED BY <1>1, <1>7, <1>8, <1>9, OnStackFits

LEMMA CallFunctionFits == SInv /\ Call_ => Good(t')
<1> SUFFICES ASSUME SInv, Call_ PROVE Good(t')
  OBVIOUS
<1> DEFINE f == Ins.val
           low == Front(t.stack)
           s == OnStack(t, low)
<1>1. At("CALL") /\ t' = Finish(Called(t, f))
  BY DEF Call_, Become
<1>2. /\ Fine /\ Balanced(prog) /\ t \in States /\ t.block.ip \in DOMAIN Code
      /\ Code[t.block.ip].op = "CALL" /\ Ins = Code[t.block.ip] /\ Piled(prog, t)
      /\ Expects(prog, t.block.ip, Own(t)) /\ Own(t) \in Int /\ Catches(prog, t.block)
  BY <1>1, Stands
<1>3. f \in {External, Nil} \cup DOMAIN prog.entry
  BY <1>2, VmControlAssumption DEF Fine, WellFormed, Code
<1>4. /\ t.stack # << >> /\ low \in Seq(Toks) /\ Len(low) = Len(t.stack) - 1
      /\ Len(t.stack) \in Nat /\ Own(t) - 1 \in Nat
      /\ Expects(prog, t.block.ip + 1, Own(t) - 1)
  BY <1>1, HasOperand
<1>5. Own(t) - 1 \in 0 .. 1
  <2>1. Own(t) - 1 <= 1
    BY <1>2, Leading
  <2> QED BY <1>2, <1>4, <2>1, OneAtMost
<1>6. Popped(t) = s
  BY DEF Popped, OnStack
<1> HIDE DEF f, low
<1>7. Own(t) + Len(low) - Len(t.stack) = Own(t) - 1
  BY <1>2, <1>4
<1>8. Good(Finish(ThrowError(s)))
  BY <1>1, <1>4, <1>5, <1>7, FailFits
<1>9. Good(Finish(s))
  BY <1>1, PoppedFits DEF low
<1>10. CASE Last(t.stack) # Ins.tok
  <2>1. Called(t, f) = ThrowError(Popped(t))
    BY <1>4, <1>10 DEF Called
  <2> QED BY <1>1, <1>6, <1>8, <2>1
<1>11. CASE Last(t.stack) = Ins.tok /\ f = Nil
  <2>1. Called(t, f) = ThrowError(Popped(t))
    BY <1>4, <1>11, VmControlAssumption DEF Called
  <2> QED BY <1>1, <1>6, <1>8, <2>1
<1>12. CASE Last(t.stack) = Ins.tok /\ f # Nil /\ f = External
  <2>1. Called(t, f) = Popped(t)
    BY <1>4, <1>12 DEF Called
  <2> QED BY <1>1, <1>6, <1>9, <2>1
<1>13. CASE Last(t.stack) = Ins.tok /\ f # Nil /\ f # External
  <2>1. Called(t, f) = CallFn(Popped(t), f)
    BY <1>4, <1>13 DEF Called
  <2>2. t' = Finish(CallFn(s, f)) /\ f \in DOMAIN prog.entry
    BY <1>1, <1>3, <1>6, <1>13, <2>1
  <2>3. s \in States /\ s.saved = t.saved /\ s.block = t.block /\ s.stack = low
    BY <1>2, <1>4, OnStackIs
  <2> HIDE DEF s
  <2>4. Piled(prog, s) /\ Own(s) = Own(t) - 1
    <3>1. Piled(prog, s) /\ Own(s) = Own(t) + Len(s.stack) - Len(t.stack)
      BY <1>2, <2>3, TopPiled
    <3> QED BY <1>7, <2>3, <3>1
  <2>5. Own(s) \in 0 .. 1 /\ Expects(prog, s.block.ip + 1, Own(s))
    BY <1>4, <1>5, <2>3, <2>4
  <2>6. Fit(prog, t') /\ Len(t'.saved) = Len(s.saved) + 1
    BY <1>2, <2>2, <2>3, <2>4, <2>5, CallFits
  <2>7. Restored(t, t')
    <3>1. Len(t.saved) \in Nat
      BY <1>2, FloorType
    <3> QED BY <2>3, <2>6, <3>1 DEF Restored
  <2> QED BY <2>6, <2>7 DEF Good
<1> QED BY <1>10, <1>11, <1>12, <1>13

(* A jump.                                                                 *)
LEMMA JumpFits ==
  ASSUME SInv, NEW op \in Jumping, At(op)
  PROVE  Good(Finish(Shift(t, Ins.val)))
<1> DEFINE v == Ins.val
           ip == t.block.ip
           r == Finish(Shift(t, v))
<1>1. /\ IInv /\ Fine /\ Balanced(prog) /\ t \in States /\ t.block \in BlockSet /\ ip \in DOMAIN Code
      /\ ip \in Nat /\ Code[ip].op = op /\ Ins = Code[ip] /\ Piled(prog, t)
      /\ Expects(prog, ip, Own(t)) /\ Own(t) \in Int /\ Catches(prog, t.block) /\ ~t.block.err
      /\ Len(t.stack) \in Nat
  BY Stands
<1>2. v \in Int
  BY <1>1, VmControlAssumption DEF Fine, WellFormed, Code, Jumping
<1>3. Expects(prog, ip + 1 + v, Own(t))
  BY <1>1, Leading
<1>4. Shift(t, v) = [t EXCEPT !.block = [t.block EXCEPT !.ip = ip + v]]
  BY <1>1 DEF Shift, States
<1>5. r \in States
  <2>1. After(r)
    BY <1>1, JumpLands
  <2> QED BY <2>1 DEF After, Ok
<1> HIDE DEF v
<1>6. /\ Shift(t, v).block = [t.block EXCEPT !.ip = ip + v]
      /\ ~Shift(t, v).block.err
  BY <1>1, <1>4 DEF States, BlockSet
<1>7. r = [Shift(t, v) EXCEPT !.block.ip = Shift(t, v).block.ip + 1]
  BY <1>6 DEF Finish, Shift
<1>8. r = [t EXCEPT !.block = [t.block EXCEPT !.ip = ip + v + 1]]
  BY <1>1, <1>4, <1>6, <1>7 DEF States, BlockSet
<1> HIDE DEF r
<1>9. /\ r.saved = t.saved /\ r.stack = t.stack
      /\ r.block = [t.block EXCEPT !.ip = ip + v + 1]
  BY <1>1, <1>8 DEF States
<1>10. /\ r.block.ip = ip + v + 1 /\ r.block.iter = t.block.iter
       /\ r.block.tok = t.block.tok /\ r.block.goto = t.block.goto
  BY <1>1, <1>9 DEF BlockSet
<1>11. ip + v + 1 = ip + 1 + v
  BY <1>1, <1>2
<1>12. Catches(prog, r.block)
  BY <1>1, <1>10 DEF Catches
<1>13. Piled(prog, r) /\ Own(r) = Own(t)
  <2>1. Piled(prog, r) /\ Own(r) = Own(t) + Len(r.stack) - Len(t.stack)
    BY <1>1, <1>5, <1>9, <1>10, <1>12, TopPiled
  <2>2. Own(t) + Len(t.stack) - Len(t.stack) = Own(t)
    BY <1>1, Unmoved
  <2> QED BY <1>9, <2>1, <2>2
<1>14. Fit(prog, r)
  BY <1>3, <1>10, <1>11, <1>13 DEF Fit
<1>15. Good(r)
  BY <1>1, <1>9, <1>14, SameSaved DEF Good
<1> QED BY <1>15 DEF r, v

LEMMA JmpFits == SInv /\ Jmp => Good(t')
<1>1. Jmp => At("JMP") /\ "JMP" \in Jumping /\ t' = Finish(Shift(t, Ins.val))
  BY DEF Jmp, Jumping, Become
<1> QED BY <1>1, JumpFits

LEMMA BranchFits == SInv /\ Branch => Good(t')
<1> SUFFICES ASSUME SInv, Branch PROVE Good(t')
  OBVIOUS
<1>1. PICK op \in {"IF", "IFN"} : At(op)
  BY DEF Branch
<1>2. op \in Jumping
  BY DEF Jumping
<1>3. t' = Finish(Shift(t, Ins.val)) \/ t' = Finish(t)
  BY DEF Branch, Become
<1> QED BY <1>1, <1>2, <1>3, JumpFits, NothingFits

(* A block that is opened: the place is that of an NBLK.                   *)
LEMMA NBlkFits == SInv /\ NBlk => Good(t')
<1> SUFFICES ASSUME SInv, NBlk PROVE Good(t')
  OBVIOUS
<1> DEFINE q == TNewBlock(t, Ins.tok, TRUE)
           r == Finish(q)
           ip == t.block.ip
<1>1. At("NBLK") /\ t' = r
  BY DEF NBlk, Become
<1>2. /\ IInv /\ Fine /\ Balanced(prog) /\ t \in States /\ ip \in DOMAIN Code /\ ip \in Nat
      /\ Code[ip].op = "NBLK" /\ Ins = Code[ip] /\ Piled(prog, t) /\ Expects(prog, ip, Own(t))
      /\ Own(t) \in Int
  BY <1>1, Stands
<1>3. Ins.tok \in Names
  BY <1>1, <1>2, Here
<1>4. /\ q \in States /\ q.saved = Append(t.saved, Lower(t))
      /\ q.block = Block(ip, Ins.tok, TRUE)
  BY <1>2, <1>3, NewBlockIs
<1>5. q.stack = t.stack
  BY <1>2 DEF TNewBlock, States
<1> HIDE DEF q
<1>6. /\ q.block.ip = ip /\ q.block.tok = Ins.tok /\ q.block.iter = TRUE /\ q.block.goto = 0
      /\ ~q.block.err
  BY <1>4 DEF Block
<1>7. /\ r \in States /\ r.saved = q.saved /\ r.stack = q.stack /\ r.block.ip = ip + 1
      /\ r.block.tok = Ins.tok /\ r.block.iter = TRUE /\ r.block.goto = 0
  BY <1>4, <1>6, FinishIs
<1> HIDE DEF r
<1>8. Own(t) \in 0 .. 1 /\ Expects(prog, ip + 1, 0)
  BY <1>2, Leading
<1>9. Lower(t).ip = ip /\ Lower(t) \in BlockSet
  BY <1>2, LowerIs
<1>10. Resumes(prog, Lower(t), r.block, Own(t))
  BY <1>2, <1>7, <1>8, <1>9 DEF Resumes, Code
<1>11. Piled(prog, r) /\ Own(r) = 0
  <2>1. r.saved = Append(t.saved, Lower(t)) /\ Len(r.stack) = Len(t.stack)
    BY <1>4, <1>5, <1>7
  <2> QED BY <1>2, <1>7, <1>10, <2>1, PushPiled
<1>12. Fit(prog, r)
  BY <1>7, <1>8, <1>11 DEF Fit
<1>13. Restored(t, r)
  <2>1. t.saved \in Seq(BlockSet) /\ Len(t.saved) \in Nat
    BY <1>2, BlocksType
  <2>2. Len(r.saved) = Len(t.saved) + 1
    BY <1>4, <1>7, <1>9, <2>1, AppendProperties
  <2> QED BY <2>1, <2>2 DEF Restored
<1> QED BY <1>1, <1>12, <1>13 DEF Good

(* A block that is closed: the one below goes on after the BBLK of the     *)
(* NBLK where it was left.                                                 *)
LEMMA BBlkFits == SInv /\ BBlk => Good(t')
<1> SUFFICES ASSUME SInv, BBlk PROVE Good(t')
  OBVIOUS
<1> DEFINE ip == t.block.ip
           m == Len(t.saved)
           u == TBack(t)
           q == [u EXCEPT !.block.ip = ip]
           r == Finish(q)
<1>1. At("BBLK") /\ t' = r
  BY DEF BBlk, Become
<1>2. /\ Fine /\ Balanced(prog) /\ Ok(Code, t) /\ t.saved # << >> /\ t \in States
      /\ t.block \in BlockSet /\ ip \in DOMAIN Code /\ ip \in Nat
      /\ Code[ip].op = "BBLK" /\ Piled(prog, t) /\ Expects(prog, ip, Own(t)) /\ Own(t) \in Int
  BY <1>1, Stands
<1>3. Own(t) \in 0 .. 1
  BY <1>2, Leading
<1>4. Scopes(Code, ip) # << >> /\ Last(Scopes(Code, ip)).tok = Code[ip].tok
  BY <1>2 DEF Fine, Structured, Balanced, Balances, Code
<1>5. /\ Inside(Code, Last(t.saved), t.block)
      /\ Last(Scopes(Code, ip)) = Scope(t.block.tok, t.block.goto # 0)
  BY <1>2, <1>4, TopScopes
<1>6. t.block.iter /\ ~Last(t.saved).err /\ t.block.tok = Code[ip].tok
  BY <1>4, <1>5 DEF Inside, Scope
<1>7. u = Unwound(t, 1)
  <2>1. Unwound(t, 0) = t /\ Unwound(t, 0 + 1) = TBack(Unwound(t, 0))
    BY UnwoundNext
  <2> QED BY <2>1
<1>8. m \in Nat \ {0} /\ 1 \in 0 .. m
  <2>1. m \in Nat \ {0}
    BY <1>2, LastBlock DEF States
  <2> QED BY <2>1
<1>9. u \in States /\ u.block = Last(t.saved) /\ u.saved = Front(t.saved)
  BY <1>2, TBackBlocks
<1>10. /\ Piled(prog, u) /\ Own(u) \in 0 .. 1 /\ Len(u.stack) = u.block.size
       /\ Resumes(prog, u.block, t.block, Own(u))
  <2>1. m + 2 - 1 = m + 1 /\ Blocks(t)[m + 1] = t.block
    <3>1. Blocks(t)[m + 1] = t.block
      BY <1>2, BlocksType
    <3> HIDE DEF m
    <3>2. m + 2 - 1 = m + 1
      BY <1>8
    <3> QED BY <3>1, <3>2
  <2>2. /\ Piled(prog, Unwound(t, 1)) /\ Own(Unwound(t, 1)) \in 0 .. 1
        /\ Len(Unwound(t, 1).stack) = Unwound(t, 1).block.size
        /\ Resumes(prog, Unwound(t, 1).block, Blocks(t)[m + 2 - 1], Own(Unwound(t, 1)))
    BY <1>2, <1>3, <1>8, UnwoundPiled
  <2> QED BY <1>7, <2>1, <2>2
<1> HIDE DEF u, m
<1>11. /\ u.block.ip \in DOMAIN Code /\ Code[u.block.ip].op = "NBLK"
       /\ Code[u.block.ip].tok = Code[ip].tok /\ Expects(prog, u.block.ip, Own(u))
  BY <1>6, <1>10 DEF Resumes, Code
<1>12. Expects(prog, ip + 1, Own(u))
  <2>1. Own(u) \in Int
    BY <1>10
  <2> QED BY <1>2, <1>11, <2>1, Leading
<1>13. q = [u EXCEPT !.block = [u.block EXCEPT !.ip = ip]] /\ u.block \in BlockSet
  BY <1>9 DEF States
<1>14. [u.block EXCEPT !.ip = ip] \in BlockSet
  BY <1>2, <1>13 DEF BlockSet
<1> HIDE DEF q
<1>15. /\ q \in States /\ q.saved = u.saved /\ q.stack = u.stack
       /\ q.block = [u.block EXCEPT !.ip = ip]
  BY <1>9, <1>13, <1>14 DEF States
<1>16. /\ q.block.ip = ip /\ ~q.block.err /\ q.block.tok = u.block.tok
       /\ q.block.iter = u.block.iter /\ q.block.goto = u.block.goto /\ q.block.size = u.block.size
  BY <1>6, <1>9, <1>13, <1>15 DEF BlockSet
<1>17. /\ r \in States /\ r.saved = u.saved /\ r.stack = u.stack /\ r.block.ip = ip + 1
       /\ r.block.tok = u.block.tok /\ r.block.iter = u.block.iter
       /\ r.block.goto = u.block.goto /\ r.block.size = u.block.size
  BY <1>15, <1>16, FinishIs
<1> HIDE DEF r
<1>18. Piled(prog, r) /\ Own(r) = Own(u)
  BY <1>9, <1>10, <1>17, SameOperands
<1>19. Fit(prog, r)
  BY <1>12, <1>17, <1>18 DEF Fit
<1>20. Restored(t, r)
  BY <1>10, <1>17 DEF Restored
<1> QED BY <1>1, <1>19, <1>20 DEF Good

(* RET: the block of the call is the last to be closed, and its caller     *)
(* goes on after the CALL, or catches the error it made.                   *)
LEMMA RetFits == SInv /\ Ret => Good(t')
<1> SUFFICES ASSUME SInv, Ret PROVE Good(t')
  OBVIOUS
<1> DEFINE n == LoopBlocks(t) + 1
           u == Unwound(t, n)
           top == Blocks(t)[Len(t.saved) + 2 - n]
<1>1. At("RET") /\ t' = Finish(u)
  BY DEF Ret
<1>2. /\ Fine /\ Balanced(prog) /\ Ok(Code, t) /\ t.saved # << >> /\ t \in States
      /\ t.block.ip \in DOMAIN Code /\ Code[t.block.ip].op = "RET" /\ Piled(prog, t)
      /\ Expects(prog, t.block.ip, Own(t)) /\ Own(t) \in Int
  BY <1>1, Stands
<1>3. Own(t) \in 0 .. 1
  BY <1>2, Leading
<1>4. n \in 1 .. Len(t.saved) /\ ~top.iter /\ Ok(Code, u)
  BY <1>2, RetCloses, RetIsLocal
<1> HIDE DEF top, n
<1>5. n \in 0 .. Len(t.saved) /\ n # 0
  BY <1>4
<1>6. /\ Piled(prog, u) /\ Own(u) \in 0 .. 1 /\ Len(u.stack) = u.block.size
      /\ Resumes(prog, u.block, top, Own(u))
  BY <1>2, <1>3, <1>5, UnwoundPiled DEF top
<1> HIDE DEF u
<1>7. CASE u.block.err
  <2>1. u.saved # << >> /\ t' = CatchError(u)
    BY <1>1, <1>4, <1>7, TopIsLocal DEF Finish
  <2>2. /\ Fit(prog, CatchError(u))
        /\ CatchError(u).block.tok # "raise_error"
             => Len(CatchError(u).stack) = CatchError(u).block.size
    BY <1>2, <1>4, <1>6, <2>1, CatchFits
  <2> QED BY <2>1, <2>2 DEF Good, Restored
<1>8. CASE ~u.block.err
  <2>1. u \in States /\ Expects(prog, u.block.ip + 1, Own(u))
    BY <1>4, <1>6, <1>8 DEF Resumes, Ok
  <2>2. /\ t' \in States /\ t'.saved = u.saved /\ t'.stack = u.stack
        /\ t'.block.ip = u.block.ip + 1 /\ t'.block.tok = u.block.tok
        /\ t'.block.iter = u.block.iter /\ t'.block.goto = u.block.goto
        /\ t'.block.size = u.block.size
    BY <1>1, <1>8, <2>1, FinishIs
  <2> DEFINE r == t'
  <2> HIDE DEF r
  <2>3. Piled(prog, r) /\ Own(r) = Own(u)
    BY <1>6, <2>1, <2>2, SameOperands DEF r
  <2>4. Fit(prog, r) /\ Restored(t, r)
    BY <1>6, <2>1, <2>2, <2>3 DEF Fit, Restored, r
  <2> QED BY <2>4 DEF Good, r
<1> QED BY <1>7, <1>8

(* Another handler in the current block, or none.                          *)
LEMMA HandlerFits ==
  ASSUME SInv, NEW op \in {"CTCH", "SETGOTO"}, At(op), NEW goto \in Nat,
         Catches(prog, [t.block EXCEPT !.goto = goto])
  PROVE  Good(Finish([t EXCEPT !.block.goto = goto]))
<1> DEFINE b == [t.block EXCEPT !.goto = goto]
           q == [t EXCEPT !.block.goto = goto]
           r == Finish(q)
<1>1. /\ t \in States /\ t.block \in BlockSet /\ ~t.block.err /\ Ins.op = op
      /\ Len(t.stack) \in Nat
  BY Stands
<1>2. b \in BlockSet /\ q = [t EXCEPT !.block = b]
  BY <1>1 DEF BlockSet, States
<1>3. /\ b.ip = t.block.ip /\ b.tok = t.block.tok /\ b.iter = t.block.iter /\ b.goto = goto
      /\ ~b.err
  BY <1>1 DEF BlockSet
<1>4. Catches(prog, b)
  OBVIOUS
<1> HIDE DEF b, q
<1>5. /\ q \in States /\ q.saved = t.saved /\ q.stack = t.stack /\ q.block = b
  BY <1>1, <1>2 DEF States
<1>6. /\ r \in States /\ r.saved = t.saved /\ r.stack = t.stack
      /\ r.block.ip = t.block.ip + 1 /\ r.block.tok = t.block.tok
      /\ r.block.iter = t.block.iter /\ r.block.goto = goto
  BY <1>3, <1>5, FinishIs
<1> HIDE DEF r
<1>7. Catches(prog, r.block)
  BY <1>3, <1>4, <1>6 DEF Catches
<1>8. Len(r.stack) = Len(t.stack) + Effect(Ins)
  <2>1. Effect(Ins) = 0
    BY <1>1 DEF Effect
  <2> QED BY <1>1, <1>6, <2>1
<1>9. Good(r)
  BY <1>6, <1>7, <1>8, StraightFits
<1> QED BY <1>9 DEF r, q

LEMMA CtchFits == SInv /\ Ctch => Good(t')
<1> SUFFICES ASSUME SInv, Ctch PROVE Good(t')
  OBVIOUS
<1> DEFINE ip == t.block.ip
           to == ip + 1 + Ins.val
           b == [t.block EXCEPT !.goto = to]
<1>1. At("CTCH")
  BY DEF Ctch
<1>2. /\ Fine /\ Balanced(prog) /\ t.block \in BlockSet /\ ip \in DOMAIN Code /\ ip \in Nat
      /\ Code[ip].op = "CTCH" /\ Ins = Code[ip] /\ Expects(prog, ip, Own(t)) /\ Own(t) \in Int
  BY <1>1, Stands
<1>3. Ins.val \in Int /\ DOMAIN Code = 1 .. Len(Code)
  BY <1>2, VmControlAssumption DEF Fine, WellFormed, Code
<1>4. to \in Nat
  <2>1. to \in DOMAIN Code
    BY <1>2 DEF Fine, Structured, Code
  <2> HIDE DEF to
  <2> QED BY <1>3, <2>1
<1>5. t' = Finish([t EXCEPT !.block.goto = to])
  <2>1. ip + Ins.val + 1 = to
    BY <1>2, <1>3
  <2> QED BY <2>1 DEF Ctch, Become
<1>6. \A j \in {to, to + 1} : Expects(prog, j, 0) /\ Expects(prog, j, 1)
  BY <1>2, Leading
<1> HIDE DEF to
<1>7. b.goto = to
  BY <1>2 DEF BlockSet
<1>8. Catches(prog, b)
  BY <1>6, <1>7 DEF Catches
<1> QED BY <1>1, <1>4, <1>5, <1>8, HandlerFits

LEMMA ClearGotoFits == SInv /\ ClearGoto => Good(t')
<1> SUFFICES ASSUME SInv, ClearGoto PROVE Good(t')
  OBVIOUS
<1>1. At("SETGOTO")
  BY DEF ClearGoto
<1>2. IInv /\ t.block \in BlockSet
  BY <1>1, Stands
<1>3. t' = Finish([t EXCEPT !.block.goto = 0])
  BY <1>2, ClearGotoIs DEF Become
<1>4. Catches(prog, [t.block EXCEPT !.goto = 0])
  BY <1>2 DEF Catches, BlockSet
<1> QED BY <1>1, <1>3, <1>4, HandlerFits

(* RAIS: the handler is entered at its second place.                       *)
LEMMA RaisFits == SInv /\ Rais => Good(t')
<1> SUFFICES ASSUME SInv, Rais PROVE Good(t')
  OBVIOUS
<1> DEFINE s == Failed(t)
           q == CatchError(s)
           r == Finish(q)
<1>1. At("RAIS") /\ t' = r
  BY DEF Rais, Become, Failed
<1>2. /\ Fine /\ Balanced(prog) /\ Ok(Code, t) /\ t.saved # << >> /\ t \in States
      /\ t.block \in BlockSet /\ t.block.ip \in DOMAIN Code /\ Code[t.block.ip].op = "RAIS"
      /\ Piled(prog, t) /\ Expects(prog, t.block.ip, Own(t)) /\ Own(t) \in Int
  BY <1>1, Stands
<1>3. Own(t) \in 0 .. 1
  BY <1>2, Leading
<1>4. /\ Ok(Code, s) /\ s.saved = t.saved /\ s.block = [t.block EXCEPT !.err = TRUE]
  BY <1>2, FailedIsLocal
<1>5. s \in States /\ s.stack = t.stack
  BY <1>2, <1>4 DEF Ok, Failed, States
<1> HIDE DEF s
<1>6. s.block.iter = t.block.iter /\ s.block.tok = t.block.tok /\ s.block.goto = t.block.goto
  BY <1>2, <1>4 DEF BlockSet
<1>7. Piled(prog, s) /\ Own(s) = Own(t)
  BY <1>2, <1>4, <1>5, <1>6, SameOperands
<1>8. /\ q \in States /\ Fit(prog, q) /\ Restored(s, q)
      /\ Expects(prog, q.block.ip + 1, Own(q))
  <2>1. Own(s) \in 0 .. 1
    BY <1>3, <1>7
  <2> QED BY <1>2, <1>4, <1>7, <2>1, CatchFits
<1>9. ~q.block.err
  <2>1. After(q)
    BY <1>2, <1>4, CatchIsLocal
  <2> QED BY <2>1 DEF After
<1> HIDE DEF q
<1>10. /\ r \in States /\ r.saved = q.saved /\ r.stack = q.stack
       /\ r.block.ip = q.block.ip + 1 /\ r.block.tok = q.block.tok
       /\ r.block.iter = q.block.iter /\ r.block.goto = q.block.goto
       /\ r.block.size = q.block.size
  BY <1>8, <1>9, FinishIs
<1> HIDE DEF r
<1>11. Piled(prog, r) /\ Own(r) = Own(q)
  BY <1>8, <1>10, SameOperands DEF Fit
<1>12. Fit(prog, r)
  BY <1>8, <1>10, <1>11 DEF Fit
<1>13. Restored(t, r)
  BY <1>4, <1>8, <1>10 DEF Restored
<1> QED BY <1>1, <1>12, <1>13 DEF Good

LEMMA ExitFits == SInv /\ Exit_ => Good(t')
<1>1. Exit_ => At("EXIT") /\ t' = Finish(t)
  BY DEF Exit_
<1> QED BY <1>1, NothingFits

LEMMA StepFits == SInv /\ Next => Good(t')
BY PlainFits, GetFits, PushFits, DupFits, ResFits, TuplFits, CallFunctionFits, JmpFits,
   BranchFits, NBlkFits, BBlkFits, RetFits, CtchFits, ClearGotoFits, RaisFits, ExitFits DEF Next

(* The first block of the thread is opened under an empty one.             *)
LEMMA InitFits == Init /\ Structured(prog) /\ Balanced(prog) => SInv
<1> SUFFICES ASSUME Init, Structured(prog), Balanced(prog) PROVE SInv
  OBVIOUS
<1> DEFINE base == [block |-> Block(0, "base", FALSE), saved |-> << >>, stack |-> << >>]
           entry == IF root = "main" THEN 1 ELSE prog.entry[root]
           q == TNewBlock(base, root, FALSE)
<1>1. /\ IInv /\ t = [q EXCEPT !.block.ip = entry]
      /\ root \in Roots /\ (root # "main" => root \in DOMAIN prog.entry)
  BY InitKeeps DEF Init
<1>2. t \in States
  BY <1>1 DEF IInv, Ok
<1>3. root \in Names /\ "base" \in Names
  BY <1>1 DEF Names
<1>4. /\ base \in States /\ base.saved = << >> /\ base.stack = << >>
      /\ base.block = Block(0, "base", FALSE)
  <2>1. Block(0, "base", FALSE) \in BlockSet
    BY <1>3, BlockType
  <2>2. << >> \in Seq(BlockSet) /\ << >> \in Seq(Toks)
    BY EmptySeq
  <2> QED BY <2>1, <2>2 DEF States
<1>5. q.stack = base.stack
  BY DEF TNewBlock
<1> HIDE DEF base
<1>6. Len(base.saved) = 0 /\ Len(base.stack) = 0
  BY <1>4, EmptySeq
<1>7. base.block.ip = 0 /\ ~base.block.err /\ base.block.goto = 0
  BY <1>4 DEF Block
<1>8. Piled(prog, base) /\ Own(base) = 0
  <2>1. Blocks(base)[1] = base.block
    <3>1. Blocks(base)[Len(base.saved) + 1] = base.block
      BY <1>4, BlocksType
    <3> QED BY <1>6, <3>1
  <2>2. \A i \in 1 .. Len(base.saved) + 1 : Catches(prog, Blocks(base)[i])
    <3> SUFFICES ASSUME NEW i \in 1 .. Len(base.saved) + 1 PROVE Catches(prog, Blocks(base)[i])
      OBVIOUS
    <3>1. i = 1
      BY <1>6
    <3> QED BY <1>7, <2>1, <3>1 DEF Catches
  <2>3. \A i \in 1 .. Len(base.saved) : FALSE
    BY <1>6
  <2>4. Piled(prog, base)
    BY <2>2, <2>3 DEF Piled
  <2>5. Own(base) = 0
    BY <1>6 DEF Own, Floor
  <2> QED BY <2>4, <2>5
<1>9. /\ q \in States /\ q.saved = Append(base.saved, Lower(base))
      /\ q.block = Block(0, root, FALSE)
  BY <1>3, <1>4, <1>7, NewBlockIs
<1> HIDE DEF q
<1>10. t = [q EXCEPT !.block = [q.block EXCEPT !.ip = entry]]
  BY <1>1, <1>9 DEF States
<1>11. /\ t.saved = q.saved /\ t.stack = base.stack /\ t.block.ip = entry
       /\ t.block.iter = FALSE /\ t.block.goto = 0
  <2>1. t.saved = q.saved /\ t.stack = q.stack /\ t.block = [q.block EXCEPT !.ip = entry]
    BY <1>9, <1>10 DEF States
  <2> QED BY <1>5, <1>9, <2>1 DEF Block
<1>12. Resumes(prog, Lower(base), t.block, Own(base))
  <2>1. Lower(base).ip = 0
    BY <1>4, <1>7, LowerIs
  <2>2. Lower(base).ip + 1 = 1
    BY <2>1
  <2>3. Expects(prog, 1, 0)
    BY Beginnings
  <2>4. 0 \in 0 .. 1
    OBVIOUS
  <2> QED BY <1>8, <1>11, <2>2, <2>3, <2>4 DEF Resumes
<1>13. Piled(prog, t) /\ Own(t) = 0
  BY <1>2, <1>4, <1>8, <1>9, <1>11, <1>12, PushPiled
<1>14. Expects(prog, entry, 0)
  BY <1>1, Beginnings
<1> QED BY <1>1, <1>11, <1>13, <1>14 DEF SInv, Fit

LEMMA StepKeepsFit == SInv /\ [Next]_vars => SInv'
<1> SUFFICES ASSUME SInv, [Next]_vars PROVE SInv'
  OBVIOUS
<1>1. IInv'
  BY StepKeeps DEF SInv
<1>2. prog' = prog
  BY DEF Next, vars, Plain, Get, Push, Dup, Res, Tupl, Call_, Jmp, Branch, NBlk, BBlk, Ret, Ctch,
         ClearGoto, Rais, Exit_, Become
<1>3. Fit(prog, t')
  <2>1. CASE Next
    BY <2>1, StepFits DEF Good
  <2>2. CASE UNCHANGED vars
    <3>1. t' = t
      BY <2>2 DEF vars
    <3> QED BY <3>1 DEF SInv
  <2> QED BY <2>1, <2>2
<1>4. (Fit(prog, t))'
  BY <1>2, <1>3
<1>5. (Balanced(prog))'
  BY <1>2 DEF SInv
<1> QED BY <1>1, <1>4, <1>5 DEF SInv

(* In code that is balanced every block has as many operands as its place  *)
(* expects, and the saved ones no more than t_back removes.                *)
THEOREM Accounted == Spec /\ Structured(prog) /\ Balanced(prog) => []SInv
<1>1. Init /\ Structured(prog) /\ Balanced(prog) => SInv
  BY InitFits
<1>2. SInv /\ [Next]_vars => SInv'
  BY StepKeepsFit
<1> QED BY <1>1, <1>2, PTL DEF Spec

(* An open call is resumed, a loop is left and an error is caught with the *)
(* operand stack as high as it was when the block above was opened.        *)
THEOREM OperandsRestored == Spec /\ Structured(prog) /\ Balanced(prog) => StackRestored
<1> DEFINE Back == Len(t'.saved) < Len(t.saved) /\ t'.block.tok # "raise_error"
                     => Len(t'.stack) = t'.block.size
<1>1. SInv /\ [Next]_vars => [Back]_vars
  BY StepFits DEF Good, Restored
<1>2. StackRestored <=> [][Back]_vars
  BY DEF StackRestored
<1> HIDE DEF Back
<1> QED BY <1>1, <1>2, Accounted, PTL DEF Spec
=============================================================================
