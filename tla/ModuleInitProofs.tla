-------------------------- MODULE ModuleInitProofs --------------------------
(***************************************************************************)
(* Proofs about ModuleInit, for any threads, modules and programs: types,  *)
(* who holds module_init_mutex, that no other thread enters a module whose *)
(* body runs, that a function gets the argument of its call, and where     *)
(* threads can be stuck.                                                   *)
(*                                                                         *)
(* HeldByLoops is inductive with the types of its variables.  Prepared     *)
(* needs to know that a thread with a body among its frames has a loop,    *)
(* and so the mutex.  That is not evident: a loop ends by popping whatever *)
(* frame is on top, and after an error this is not the frame it began.     *)
(* What holds is the order: the bodies that are left stand in the order of *)
(* their loops, so the frame that goes is at least as young as the loop.   *)
(*                                                                         *)
(* ArgumentKept needs what the loops hold: a body stands on the call that  *)
(* made it run, and every loop of its module has saved the argument of     *)
(* that call.  A loop of one module may end with the body of another; the  *)
(* function that it enters then stands on a call of the other module.      *)
(***************************************************************************)
EXTENDS ModuleInit, SequenceTheorems, TLAPS

IsBody(f) == f.kind = "body" /\ f.mod # "main"

(* The frames fs of a thread with the loops ls.                            *)
EachHasLoop(fs, ls) ==
  \A i \in DOMAIN fs : IsBody(fs[i]) => \E k \in DOMAIN ls : ls[k].mod = fs[i].mod
InOrder(fs, ls) ==
  \A i, j \in DOMAIN fs : i < j /\ IsBody(fs[i]) /\ IsBody(fs[j]) =>
    \A k, l \in DOMAIN ls : ls[k].mod = fs[i].mod /\ ls[l].mod = fs[j].mod => k < l
(* Where the frames are that EXIT ends but that are no body of a loop.     *)
Placed(fs) ==
  \A i \in DOMAIN fs :
    /\ fs[i].kind = "base" <=> i = 1
    /\ fs[i].kind = "body" /\ fs[i].mod = "main" => i = 2
    /\ fs[i].mod = "error" => i = 2
Marked(fs, ls, ini) ==
  /\ \A i \in DOMAIN fs : fs[i].kind = "fn" => fs[i].mod \in ini
  /\ \A k \in DOMAIN ls : ls[k].mod \in ini

(* Where a thread stands.                                                  *)
Standing(t) ==
  /\ state[t] # "idle" => frames[t] # << >>
  /\ calling[t] # None => state[t] # "idle"
  /\ state[t] = "running" /\ calling[t] = None => Top(t).at > 0
  /\ calling[t] = "sync" => Top(t).at \in DOMAIN Code(Top(t))
  /\ calling[t] = "error" => Len(frames[t]) = 1

(* Each part is inductive with the parts before it.                        *)
Typed ==
  /\ TypeOK
  /\ {"main"} \cup Library \subseteq initialized
  /\ \A t \in Threads : Standing(t) /\ Placed(frames[t])
Ordered ==
  \A t \in Threads :
    /\ EachHasLoop(frames[t], loops[t])
    /\ InOrder(frames[t], loops[t])
    /\ Marked(frames[t], loops[t], initialized)

(* ArgumentKept of the frames of one thread.                               *)
Kept(fs) ==
  \A i \in 1 .. Len(fs) - 1 :
    /\ fs[i].kind # "base" /\ fs[i + 1].kind = "fn"
    /\ StandsAtCall(fs[i], fs[i + 1].mod)
    => fs[i + 1].arg = Site(fs[i])
(* Below a body is the call that made it run, and the loop of the body has *)
(* the argument of that call in OLD_RESVALS.                               *)
Waiting(fs, ls) ==
  \A i \in 1 .. Len(fs) - 1 :
    fs[i].kind # "base" /\ IsBody(fs[i + 1]) =>
      /\ StandsAtCall(fs[i], fs[i + 1].mod)
      /\ \A k \in DOMAIN ls : ls[k].mod = fs[i + 1].mod => ls[k].saved = Site(fs[i])
(* So does RESULT_VAL while the thread is about to call a function.        *)
About(fs, m, val) ==
  m \in Modules /\ fs # << >> /\ Last(fs).kind # "base" =>
    StandsAtCall(Last(fs), m) /\ val = Site(Last(fs))
Argued(fs, ls, m, val) == Kept(fs) /\ Waiting(fs, ls) /\ About(fs, m, val)
ArgumentsWait ==
  \A t \in Threads : Argued(frames[t], loops[t], calling[t], resval[t])

IInv == Typed /\ HeldByLoops /\ Ordered /\ Prepared /\ ArgumentsWait

-----------------------------------------------------------------------------
(* Frames.                                                                 *)

(* The blocks that are left after t_back, or go on after t_shift_ip, are   *)
(* blocks of the same modules.                                             *)
Within(gs, fs) ==
  /\ Len(gs) <= Len(fs)
  /\ \A i \in DOMAIN gs : gs[i].kind = fs[i].kind /\ gs[i].mod = fs[i].mod

(* The code of a frame is a sequence of steps.                             *)
LEMMA CodeType ==
  ASSUME TypeOK, NEW f \in Frames
  PROVE  Code(f) \in Seq(Steps)
<1>1. /\ prog.fn \in [Modules -> Seq(Steps)]
      /\ prog.body \in [Modules -> Seq(Steps)]
  BY ModuleInitAssumption DEF TypeOK
<1>2. CASE f.mod = "error"
  <2>1. Code(f) = << >>
    BY <1>2 DEF Code
  <2> QED BY <2>1
<1>3. CASE f.mod # "error"
  <2>1. f.mod \in Modules
    BY <1>3 DEF Frames
  <2>2. Code(f) = IF f.kind = "fn" THEN prog.fn[f.mod] ELSE prog.body[f.mod]
    BY <1>3 DEF Code
  <2> QED BY <1>1, <2>1, <2>2
<1> QED BY <1>2, <1>3

(* A block made by t_new_block is a frame at its first step.               *)
LEMMA FrameType ==
  ASSUME NEW k \in Kinds, NEW m \in Modules \cup {"error"}, NEW a \in Values
  PROVE  /\ Frame(k, m, a) \in Frames
         /\ Frame(k, m, a).kind = k /\ Frame(k, m, a).mod = m /\ Frame(k, m, a).at = 1
BY DEF Frame, Frames

(* The block of a Thread object is a frame before the first step.          *)
LEMMA BaseType ==
  ASSUME NEW m \in Modules
  PROVE  Base(m) \in Frames /\ Base(m).kind = "base" /\ Base(m).mod = m
BY DEF Base, Frame, Frames, Kinds, Values

(* t_shift_ip changes the position of the current block only.              *)
LEMMA AdvancedType ==
  ASSUME NEW fs \in Seq(Frames), fs # << >>
  PROVE  /\ Advanced(fs) \in Seq(Frames) /\ Advanced(fs) # << >>
         /\ Len(Advanced(fs)) = Len(fs) /\ Within(Advanced(fs), fs)
         /\ Advanced(fs)[Len(fs)].at > 0
<1> DEFINE n == Len(fs)
           g == [fs[n] EXCEPT !.at = @ + 1]
<1>1. n \in Nat \ {0} /\ fs \in [1 .. n -> Frames]
  OBVIOUS
<1>2. fs[n] \in Frames
  BY <1>1
<1>3. g \in Frames /\ g.at > 0 /\ g.kind = fs[n].kind /\ g.mod = fs[n].mod
  BY <1>2 DEF Frames
<1>4. Advanced(fs) = [fs EXCEPT ![n] = g]
  BY DEF Advanced
<1> HIDE DEF g, n
<1>5. /\ Advanced(fs) \in [1 .. n -> Frames]
      /\ Advanced(fs)[n] = g
      /\ \A i \in 1 .. n : i # n => Advanced(fs)[i] = fs[i]
  BY <1>1, <1>3, <1>4
<1>6. Advanced(fs) \in Seq(Frames) /\ Len(Advanced(fs)) = n
  BY <1>1, <1>5
<1>7. Advanced(fs) # << >>
  BY <1>1, <1>6
<1>8. Within(Advanced(fs), fs)
  <2>1. n = Len(fs) /\ DOMAIN Advanced(fs) = 1 .. n
    BY <1>5 DEF n
  <2> QED BY <2>1, <1>3, <1>5, <1>6 DEF Within
<1> QED BY <1>3, <1>5, <1>6, <1>7, <1>8 DEF n

(* catch_error goes back to one of the blocks.                             *)
LEMMA PrefixType ==
  ASSUME NEW fs \in Seq(Frames), NEW i \in DOMAIN fs
  PROVE  /\ SubSeq(fs, 1, i) \in Seq(Frames) /\ SubSeq(fs, 1, i) # << >>
         /\ Len(SubSeq(fs, 1, i)) = i /\ Within(SubSeq(fs, 1, i), fs)
BY DEF Within

(* t_back takes one block away.                                            *)
LEMMA PoppedType ==
  ASSUME NEW fs \in Seq(Frames), fs # << >>
  PROVE  /\ Popped(fs) \in Seq(Frames) /\ Len(Popped(fs)) = Len(fs) - 1
         /\ Within(Popped(fs), fs)
<1>0. Len(fs) \in Nat \ {0}
  OBVIOUS
<1>1. Popped(fs) = SubSeq(fs, 1, Len(fs) - 1)
  BY DEF Popped, Front
<1>2. CASE Len(fs) = 1
  <2>1. Popped(fs) = << >>
    BY <1>1, <1>2, SubSeqEmpty
  <2> QED BY <1>2, <2>1 DEF Within
<1>3. CASE Len(fs) > 1
  <2>1. Len(fs) - 1 \in DOMAIN fs
    BY <1>0, <1>3
  <2> QED BY <1>1, <2>1, PrefixType
<1>4. Len(fs) = 1 \/ Len(fs) > 1
  <2> DEFINE n == Len(fs)
  <2>1. n \in Nat \ {0}
    BY <1>0
  <2> HIDE DEF n
  <2>2. n = 1 \/ n > 1
    BY <2>1
  <2> QED BY <2>2 DEF n
<1> QED BY <1>2, <1>3, <1>4, Zenon

(* A function's block on top of others.                                    *)
LEMMA EnteredType ==
  ASSUME NEW fs \in Seq(Frames), NEW m \in Modules \cup {"error"}, NEW a \in Values
  PROVE  /\ Entered(fs, m, a) \in Seq(Frames) /\ Entered(fs, m, a) # << >>
         /\ Len(Entered(fs, m, a)) = Len(fs) + 1
         /\ \A i \in DOMAIN fs : Entered(fs, m, a)[i] = fs[i]
         /\ Entered(fs, m, a)[Len(fs) + 1] = Frame("fn", m, a)
<1>1. Frame("fn", m, a) \in Frames
  BY FrameType DEF Kinds
<1> QED BY <1>1, AppendProperties DEF Entered

(* The loop that is innermost, and those around it.                        *)
LEMMA LastLoop ==
  ASSUME NEW ls \in Seq(Loops), ls # << >>
  PROVE  /\ Len(ls) \in Nat \ {0} /\ Last(ls) \in Loops /\ Last(ls) = ls[Len(ls)]
         /\ Front(ls) \in Seq(Loops) /\ Len(Front(ls)) = Len(ls) - 1
         /\ \A k \in DOMAIN Front(ls) : k \in DOMAIN ls /\ Front(ls)[k] = ls[k]
<1>1. Len(ls) \in Nat \ {0}
  BY EmptySeq
<1>2. Last(ls) = ls[Len(ls)] /\ Last(ls) \in Loops
  BY <1>1 DEF Last
<1>3. Front(ls) = SubSeq(ls, 1, Len(ls) - 1)
  BY DEF Front
<1>4. /\ Front(ls) \in Seq(Loops) /\ Len(Front(ls)) = Len(ls) - 1
      /\ \A k \in 1 .. Len(ls) - 1 : Front(ls)[k] = ls[k]
  <2> DEFINE n == Len(ls)
  <2>1. n \in Nat \ {0} /\ \A k \in 1 .. n - 1 : ls[k] \in Loops
    BY <1>1
  <2> HIDE DEF n
  <2>2. n - 1 = 0 \/ n - 1 \in 1 .. n
    BY <2>1
  <2>3. CASE n - 1 = 0
    BY <1>3, <2>1, <2>3, SubSeqEmpty DEF n
  <2>4. CASE n - 1 \in 1 .. n
    BY <1>3, <2>1, <2>4, SubSeqProperties DEF n
  <2> QED BY <2>2, <2>3, <2>4 DEF n
<1> QED BY <1>1, <1>2, <1>4

(* Dropping blocks twice.                                                  *)
LEMMA WithinWithin ==
  ASSUME NEW fs \in Seq(Frames), NEW gs \in Seq(Frames), NEW hs \in Seq(Frames),
         Within(hs, gs), Within(gs, fs)
  PROVE  Within(hs, fs)
BY DEF Within

(* The step at which a block stands is a step of the program.              *)
LEMMA CurrentType ==
  ASSUME TypeOK, NEW f \in Frames, f.at \in DOMAIN Code(f)
  PROVE  Current(f) \in Steps /\ Current(f).mod \in Modules
<1>1. Code(f) \in Seq(Steps)
  BY CodeType
<1>2. Current(f) \in Steps
  BY <1>1 DEF Current
<1> QED BY <1>2 DEF Steps

(* The current block of a thread that has one.                             *)
LEMMA TopType ==
  ASSUME TypeOK, NEW t \in Threads, frames[t] # << >>
  PROVE  /\ frames[t] \in Seq(Frames) /\ Len(frames[t]) \in Nat \ {0}
         /\ Top(t) = frames[t][Len(frames[t])] /\ Top(t) \in Frames
         /\ Site(Top(t)) \in Values
<1>1. frames[t] \in Seq(Frames)
  BY DEF TypeOK
<1>2. Len(frames[t]) \in Nat \ {0}
  BY <1>1, EmptySeq
<1>3. Top(t) = frames[t][Len(frames[t])]
  BY DEF Top, Last
<1>4. Top(t) \in Frames
  BY <1>1, <1>2, <1>3
<1>5. Site(Top(t)) \in Values
  BY <1>4 DEF Site, Values, Sites, Frames
<1> QED BY <1>1, <1>2, <1>3, <1>4, <1>5

(* A thread at a step has a current block and stands at a step of its code.*)
LEMMA AtStepType ==
  ASSUME Typed, NEW t \in Threads, NEW op, AtStep(t, op)
  PROVE  /\ frames[t] # << >> /\ Top(t).at \in DOMAIN Code(Top(t))
         /\ Current(Top(t)).mod \in Modules
<1>1. frames[t] # << >> /\ Top(t).at > 0
  BY DEF Typed, Standing, AtStep, Ready, Runs
<1>2. Top(t) \in Frames /\ TypeOK
  BY <1>1, TopType DEF Typed
<1>3. Code(Top(t)) \in Seq(Steps) /\ Top(t).at \in Nat
  BY <1>2, CodeType DEF Frames
<1>4. Top(t).at <= Len(Code(Top(t)))
  BY <1>3 DEF AtStep, AtEnd
<1>5. Top(t).at \in DOMAIN Code(Top(t))
  BY <1>1, <1>3, <1>4
<1> QED BY <1>1, <1>2, <1>5, CurrentType

(* Dropping blocks from the top keeps the others in their places.          *)
LEMMA WithinPlaced ==
  ASSUME NEW fs \in Seq(Frames), NEW gs \in Seq(Frames), Within(gs, fs), Placed(fs)
  PROVE  Placed(gs)
<1>1. \A i \in DOMAIN gs : i \in DOMAIN fs
  BY DEF Within
<1> QED BY <1>1 DEF Within, Placed

(* So does the block of a function, of error.jl only on top of the base.   *)
LEMMA EnteredPlaced ==
  ASSUME NEW fs \in Seq(Frames), fs # << >>, Placed(fs),
         NEW m \in Modules \cup {"error"}, NEW a \in Values,
         m = "error" => Len(fs) = 1
  PROVE  Placed(Entered(fs, m, a))
<1> DEFINE gs == Entered(fs, m, a)
           n == Len(fs)
<1>1. /\ n \in Nat \ {0} /\ DOMAIN fs = 1 .. n
      /\ m = "error" => n = 1
  BY EmptySeq
<1>2. /\ gs \in Seq(Frames) /\ Len(gs) = n + 1
      /\ \A i \in DOMAIN fs : gs[i] = fs[i]
      /\ gs[n + 1] = Frame("fn", m, a)
  BY EnteredType
<1>3. /\ gs[n + 1].kind = "fn" /\ gs[n + 1].mod = m
  BY <1>2, FrameType DEF Kinds
<1> HIDE DEF gs, n
<1>4. \A i \in DOMAIN gs : i \in DOMAIN fs \/ i = n + 1
  BY <1>1, <1>2
<1>5. n + 1 # 1 /\ (m = "error" => n + 1 = 2)
  BY <1>1
<1>6. ASSUME NEW i \in DOMAIN gs
      PROVE  /\ gs[i].kind = "base" <=> i = 1
             /\ gs[i].kind = "body" /\ gs[i].mod = "main" => i = 2
             /\ gs[i].mod = "error" => i = 2
  <2>1. CASE i \in DOMAIN fs
    BY <1>2, <2>1 DEF Placed
  <2>2. CASE i = n + 1
    BY <1>3, <1>5, <2>2
  <2> QED BY <1>4, <2>1, <2>2
<1>7. Placed(gs)
  BY <1>6 DEF Placed
<1> QED BY <1>7 DEF gs

-----------------------------------------------------------------------------
(* Types.                                                                  *)

(* A step that leaves the other threads where they are.                    *)
LEMMA OthersStand ==
  ASSUME Typed, TypeOK', prog' = prog, initialized \subseteq initialized',
         NEW t \in Threads, Standing(t)', Placed(frames'[t]),
         \A u \in Threads \ {t} :
           frames'[u] = frames[u] /\ calling'[u] = calling[u] /\ state'[u] = state[u]
  PROVE  Typed'
<1>1. ASSUME NEW u \in Threads \ {t}
      PROVE  Standing(u)' /\ Placed(frames'[u])
  <2>1. Standing(u) /\ Placed(frames[u])
    BY DEF Typed
  <2> QED BY <2>1 DEF Standing, Top, Code
<1>2. \A u \in Threads : Standing(u)' /\ Placed(frames[u])'
  BY <1>1
<1>3. {"main"} \cup Library \subseteq initialized'
  BY DEF Typed
<1> QED BY <1>2, <1>3 DEF Typed

(* At the start the main thread has its base and its body.                 *)
LEMMA InitTyped == Init => Typed
<1> SUFFICES ASSUME Init PROVE Typed
  OBVIOUS
<1> DEFINE base == Base("main")
           body == Frame("body", "main", None)
<1>1. /\ base \in Frames /\ base.kind = "base" /\ base.mod = "main"
      /\ body \in Frames /\ body.kind = "body" /\ body.mod = "main" /\ body.at = 1
  <2>1. "main" \in Modules /\ "body" \in Kinds /\ None \in Values
    BY ModuleInitAssumption DEF Kinds, Values
  <2> QED BY <2>1, BaseType, FrameType
<1>2. frames = [t \in Threads |-> IF t = Main THEN << base, body >> ELSE << >>]
  BY DEF Init
<1> HIDE DEF base, body
<1>3. Main \in Threads /\ "main" \in Modules /\ None \in Values
  BY ModuleInitAssumption DEF Values
<1>4. TypeOK
  <2>1. frames \in [Threads -> Seq(Frames)]
    BY <1>1, <1>2
  <2>2. loops \in [Threads -> Seq(Loops)]
    BY EmptySeq DEF Init
  <2>3. resval \in [Threads -> Values]
    BY <1>3 DEF Init
  <2> QED BY <1>3, <2>1, <2>2, <2>3 DEF Init, TypeOK
<1>5. ASSUME NEW t \in Threads PROVE Standing(t) /\ Placed(frames[t])
  <2>1. CASE t = Main
    <3>1. /\ frames[t] = << base, body >> /\ calling[t] = None /\ state[t] = "running"
          /\ Len(frames[t]) = 2 /\ Top(t) = body
      BY <1>2, <2>1 DEF Init, Top, Last
    <3>2. None \notin {"sync", "error"}
      BY ModuleInitAssumption DEF Library
    <3>3. Standing(t)
      BY <1>1, <3>1, <3>2 DEF Standing
    <3>4. Placed(frames[t])
      BY <1>1, <3>1, ModuleInitAssumption DEF Placed, Library
    <3> QED BY <3>3, <3>4
  <2>2. CASE t # Main
    <3>1. frames[t] = << >> /\ calling[t] = None /\ state[t] = "idle"
      BY <1>2, <2>2 DEF Init
    <3>2. None \notin {"sync", "error"}
      BY ModuleInitAssumption DEF Library
    <3> QED BY <3>1, <3>2 DEF Standing, Placed
  <2> QED BY <2>1, <2>2
<1>6. {"main"} \cup Library \subseteq initialized
  BY DEF Init
<1> QED BY <1>4, <1>5, <1>6 DEF Typed

(* CALL and the call of a method of Thread.                                *)
LEMMA CallTyped ==
  ASSUME Typed, NEW t \in Threads, Call(t) \/ CallMethod(t)
  PROVE  Typed'
<1> DEFINE m == Current(Top(t)).mod
<1>1. PICK op : AtStep(t, op)
  BY DEF Call, CallMethod
<1>2. /\ frames[t] # << >> /\ Top(t).at \in DOMAIN Code(Top(t)) /\ m \in Modules
  BY <1>1, AtStepType
<1>3. Site(Top(t)) \in Values
  BY <1>2, TopType DEF Typed
<1>4. /\ state[t] = "running" /\ calling[t] = None
      /\ prog' = prog /\ frames' = frames /\ state' = state
      /\ initialized' = initialized
      /\ \E c \in Modules \cup {"sync"} : calling' = [calling EXCEPT ![t] = c]
  BY <1>1, <1>2 DEF Call, CallMethod, AtStep, Ready, Runs
<1> HIDE DEF m
<1>5. PICK c \in Modules \cup {"sync"} : calling' = [calling EXCEPT ![t] = c]
  BY <1>4
<1>6. c \notin {"error", None}
  BY <1>5, ModuleInitAssumption DEF Library
<1>7. TypeOK'
  <2>1. calling' \in [Threads -> Modules \cup Library \cup {"await", None}]
    BY <1>5 DEF Typed, TypeOK, Library
  <2>2. resval' \in [Threads -> Values]
    <3>1. resval \in [Threads -> Values]
      BY DEF Typed, TypeOK
    <3>2. resval' = resval \/ resval' = [resval EXCEPT ![t] = Site(Top(t))]
      BY DEF Call, CallMethod
    <3> QED BY <1>3, <3>1, <3>2
  <2>3. UNCHANGED << prog, initialized, owner, count, frames, loops, state, child >>
    BY DEF Call, CallMethod
  <2> QED BY <2>1, <2>2, <2>3 DEF Typed, TypeOK
<1>8. calling'[t] = c /\ \A u \in Threads \ {t} : calling'[u] = calling[u]
  BY <1>5 DEF Typed, TypeOK
<1>9. Standing(t)' /\ Placed(frames'[t])
  BY <1>2, <1>4, <1>6, <1>8 DEF Typed, Standing, Top, Code
<1> QED BY <1>4, <1>7, <1>8, <1>9, OthersStand

(* The function of a ready module is entered.                              *)
LEMMA EnterTyped ==
  ASSUME Typed, NEW t \in Threads, Enter(t)
  PROVE  Typed'
<1> DEFINE fs == frames[t]
           m == calling[t]
           gs == Entered(fs, m, resval[t])
<1>1. /\ TypeOK /\ Standing(t) /\ Placed(fs)
      /\ fs \in Seq(Frames) /\ resval[t] \in Values
  BY DEF Typed, TypeOK
<1>2. /\ m \in Modules \cup {"error"} /\ m # None
      /\ state[t] = "running" /\ prog' = prog /\ initialized' = initialized
      /\ state' = state /\ frames' = [frames EXCEPT ![t] = gs]
      /\ calling' = [calling EXCEPT ![t] = None]
  BY <1>1, ModuleInitAssumption DEF Enter, MayLock, Runs, TypeOK, Library
<1>3. /\ fs # << >>
      /\ m = "error" => Len(fs) = 1
  BY <1>1, <1>2 DEF Standing
<1>4. /\ gs \in Seq(Frames) /\ gs # << >> /\ Len(gs) = Len(fs) + 1
      /\ gs[Len(fs) + 1] = Frame("fn", m, resval[t])
  BY <1>1, <1>2, EnteredType
<1>5. Placed(gs)
  BY <1>1, <1>2, <1>3, EnteredPlaced
<1>6. Last(gs).at = 1
  BY <1>1, <1>2, <1>4, FrameType DEF Last, Kinds
<1> HIDE DEF fs, m, gs
<1>7. /\ frames'[t] = gs /\ calling'[t] = None /\ state'[t] = "running"
      /\ \A u \in Threads \ {t} :
           frames'[u] = frames[u] /\ calling'[u] = calling[u] /\ state'[u] = state[u]
  BY <1>1, <1>2 DEF TypeOK
<1>8. TypeOK'
  BY <1>1, <1>2, <1>4 DEF TypeOK, Enter
<1>9. Standing(t)' /\ Placed(frames'[t])
  BY <1>4, <1>5, <1>6, <1>7, ModuleInitAssumption DEF Standing, Top, Library
<1> QED BY <1>2, <1>7, <1>8, <1>9, OthersStand

(* The body of a module begins in a loop of its own.                       *)
LEMMA BeginBodyTyped ==
  ASSUME Typed, NEW t \in Threads, BeginBody(t)
  PROVE  Typed'
<1> DEFINE fs == frames[t]
           m == calling[t]
           f == Frame("body", m, None)
           gs == Append(fs, f)
<1>1. /\ TypeOK /\ Standing(t) /\ Placed(fs)
      /\ fs \in Seq(Frames) /\ resval[t] \in Values /\ loops[t] \in Seq(Loops)
  BY DEF Typed, TypeOK
<1>2. /\ m \in Modules /\ m # None /\ m # "main" /\ m # "error"
      /\ state[t] = "running" /\ prog' = prog
      /\ initialized' = initialized \cup {m}
      /\ state' = state /\ frames' = [frames EXCEPT ![t] = gs]
      /\ loops' = [loops EXCEPT ![t] = Append(@, Loop(m, resval[t]))]
      /\ calling' = [calling EXCEPT ![t] = None]
  BY <1>1, ModuleInitAssumption DEF BeginBody, MayLock, Runs, Typed, Library
<1>3. fs # << >>
  BY <1>1, <1>2 DEF Standing
<1>4. /\ f \in Frames /\ f.kind = "body" /\ f.mod = m /\ f.at = 1
  <2>1. "body" \in Kinds /\ None \in Values
    BY DEF Kinds, Values
  <2> QED BY <1>2, <2>1, FrameType
<1> DEFINE n == Len(fs)
<1>5. /\ n \in Nat \ {0} /\ DOMAIN fs = 1 .. n
  BY <1>1, <1>3, EmptySeq
<1>6. /\ gs \in Seq(Frames) /\ gs # << >> /\ Len(gs) = n + 1
      /\ \A i \in 1 .. n : gs[i] = fs[i]
      /\ gs[n + 1] = f
  BY <1>1, <1>4, AppendProperties
<1>7. Last(gs).at = 1
  BY <1>4, <1>6 DEF Last
<1> HIDE DEF fs, m, f, gs, n
<1>8. Placed(gs)
  <2>1. \A i \in DOMAIN gs : i \in 1 .. n \/ i = n + 1
    BY <1>5, <1>6
  <2>2. n + 1 # 1
    BY <1>5
  <2>3. ASSUME NEW i \in DOMAIN gs
        PROVE  /\ gs[i].kind = "base" <=> i = 1
               /\ gs[i].kind = "body" /\ gs[i].mod = "main" => i = 2
               /\ gs[i].mod = "error" => i = 2
    <3>1. CASE i \in 1 .. n
      BY <1>1, <1>5, <1>6, <3>1 DEF Placed
    <3>2. CASE i = n + 1
      BY <1>2, <1>4, <1>6, <2>2, <3>2
    <3> QED BY <2>1, <3>1, <3>2
  <2> QED BY <2>3 DEF Placed
<1>9. /\ frames'[t] = gs /\ calling'[t] = None /\ state'[t] = "running"
      /\ \A u \in Threads \ {t} :
           frames'[u] = frames[u] /\ calling'[u] = calling[u] /\ state'[u] = state[u]
  BY <1>1, <1>2 DEF TypeOK
<1>10. TypeOK'
  <2>1. Loop(m, resval[t]) \in Loops
    BY <1>1, <1>2 DEF Loop, Loops
  <2>2. loops' \in [Threads -> Seq(Loops)]
    BY <1>1, <1>2, <2>1, AppendProperties DEF TypeOK
  <2>3. owner' \in Threads \cup {None} /\ count' \in Nat
    BY <1>1 DEF TypeOK, BeginBody, Acquired
  <2> QED BY <1>1, <1>2, <1>6, <2>2, <2>3 DEF TypeOK, BeginBody
<1>11. Standing(t)' /\ Placed(frames'[t])
  BY <1>6, <1>7, <1>8, <1>9, ModuleInitAssumption DEF Standing, Top, Library
<1> QED BY <1>2, <1>9, <1>10, <1>11, OthersStand

(* EXIT ends a loop: the current block goes, the function comes.           *)
LEMMA EndLoopTyped ==
  ASSUME Typed, HeldByLoops, NEW t \in Threads, EndLoop(t)
  PROVE  Typed'
<1> DEFINE fs == frames[t]
           l == Last(loops[t])
           gs == Entered(Popped(fs), l.mod, l.saved)
<1>1. /\ TypeOK /\ Standing(t) /\ Placed(fs)
      /\ fs \in Seq(Frames) /\ loops[t] \in Seq(Loops) /\ loops[t] # << >>
      /\ Len(fs) > 1 /\ state[t] = "running" /\ calling[t] = None
  BY DEF Typed, TypeOK, EndLoop, Exits, Ready, Runs
<1>2. /\ prog' = prog /\ initialized' = initialized /\ state' = state
      /\ calling' = calling
      /\ frames' = [frames EXCEPT ![t] = gs]
      /\ loops' = [loops EXCEPT ![t] = Front(@)]
      /\ resval' = [resval EXCEPT ![t] = l.saved]
  BY DEF EndLoop
<1>3. /\ l \in Loops /\ Front(loops[t]) \in Seq(Loops)
      /\ Len(loops[t]) \in Nat \ {0}
  BY <1>1, LastLoop
<1>4. /\ l.mod \in Modules /\ l.mod # "error" /\ l.saved \in Values
  BY <1>3, ModuleInitAssumption DEF Loops, Library
<1>5. fs # << >>
  BY <1>1
<1>6. /\ Popped(fs) \in Seq(Frames) /\ Len(Popped(fs)) = Len(fs) - 1
      /\ Within(Popped(fs), fs)
  BY <1>1, <1>5, PoppedType
<1>7. Popped(fs) # << >> /\ Placed(Popped(fs))
  BY <1>1, <1>6, WithinPlaced
<1>8. /\ gs \in Seq(Frames) /\ gs # << >> /\ Len(gs) = Len(Popped(fs)) + 1
      /\ gs[Len(Popped(fs)) + 1] = Frame("fn", l.mod, l.saved)
  BY <1>4, <1>6, EnteredType
<1>9. Placed(gs)
  BY <1>4, <1>6, <1>7, EnteredPlaced
<1>10. Last(gs).at = 1
  BY <1>4, <1>8, FrameType DEF Last, Kinds
<1> HIDE DEF fs, l, gs
<1>11. /\ frames'[t] = gs
       /\ \A u \in Threads \ {t} : frames'[u] = frames[u]
  BY <1>1, <1>2 DEF TypeOK
<1>12. TypeOK'
  <2>1. owner' \in Threads \cup {None}
    BY <1>1 DEF TypeOK, EndLoop, Released
  <2>2. count' \in Nat
    <3>1. count \in Nat \ {0}
      BY <1>1, <1>3, ModuleInitAssumption DEF HeldByLoops
    <3> QED BY <3>1 DEF EndLoop, Released
  <2>3. resval' \in [Threads -> Values] /\ loops' \in [Threads -> Seq(Loops)]
    BY <1>1, <1>2, <1>3, <1>4 DEF TypeOK
  <2>4. frames' \in [Threads -> Seq(Frames)]
    BY <1>1, <1>2, <1>8 DEF TypeOK
  <2> QED BY <1>1, <2>1, <2>2, <2>3, <2>4 DEF TypeOK, EndLoop
<1>13. Standing(t)' /\ Placed(frames'[t])
  BY <1>1, <1>2, <1>8, <1>9, <1>10, <1>11, ModuleInitAssumption DEF Standing, Top, Library
<1> QED BY <1>2, <1>11, <1>12, <1>13, OthersStand

(* EXIT otherwise: the thread ends, or the process.                        *)
LEMMA ExitTyped ==
  ASSUME Typed, NEW t \in Threads, Exit(t) \/ Abort(t)
  PROVE  Typed'
<1>1. /\ TypeOK /\ Standing(t) /\ Placed(frames[t])
      /\ state[t] = "running" /\ calling[t] = None
  BY DEF Typed, Exit, Abort, Exits, Ready, Runs
<1>2. /\ UNCHANGED << prog, initialized, owner, count, loops, calling, resval, child >>
      /\ frames' = frames
      /\ \E s \in {"ended", "aborted"} : state' = [state EXCEPT ![t] = s]
  <2>1. [frames EXCEPT ![t] = frames[t]] = frames
    BY <1>1 DEF TypeOK
  <2> QED BY <2>1 DEF Exit, Abort, Ended
<1>3. /\ TypeOK' /\ state'[t] \in {"ended", "aborted"}
      /\ \A u \in Threads \ {t} : state'[u] = state[u]
  BY <1>1, <1>2 DEF TypeOK
<1>4. Standing(t)' /\ Placed(frames'[t])
  BY <1>1, <1>2, <1>3, ModuleInitAssumption DEF Standing, Top, Library
<1> QED BY <1>2, <1>3, <1>4, OthersStand

(* The top block of a thread that returns is a function's, not the base:   *)
(* a block is left below it.                                               *)
LEMMA ReturnTop ==
  ASSUME Typed, NEW t \in Threads, Return(t)
  PROVE  /\ frames[t] # << >> /\ Popped(frames[t]) \in Seq(Frames)
         /\ Popped(frames[t]) # << >> /\ Within(Popped(frames[t]), frames[t])
<1>1. /\ TypeOK /\ Standing(t) /\ Placed(frames[t])
      /\ state[t] = "running" /\ Top(t).kind = "fn"
  BY DEF Typed, Return, EndsWithRet, Ready, Runs
<1>2. frames[t] # << >>
  BY <1>1 DEF Standing
<1> DEFINE fs == frames[t]
           n == Len(fs)
<1>3. /\ fs \in Seq(Frames) /\ n \in Nat \ {0} /\ Top(t) = fs[n]
      /\ DOMAIN fs = 1 .. n
  BY <1>1, <1>2, TopType
<1>4. /\ Popped(fs) \in Seq(Frames) /\ Len(Popped(fs)) = n - 1 /\ Within(Popped(fs), fs)
  BY <1>2, <1>3, PoppedType
<1> HIDE DEF fs, n
<1>5. n \in DOMAIN fs
  BY <1>3
<1>6. n # 1
  BY <1>1, <1>3, <1>5 DEF Placed, fs
<1>7. Popped(fs) # << >>
  BY <1>3, <1>4, <1>6
<1> QED BY <1>2, <1>4, <1>7 DEF fs

(* RET: the caller goes on behind the call, or the thread ends.            *)
LEMMA ReturnTyped ==
  ASSUME Typed, NEW t \in Threads, Return(t)
  PROVE  Typed'
<1> DEFINE rest == Popped(frames[t])
<1>1. /\ TypeOK /\ Placed(frames[t]) /\ frames[t] \in Seq(Frames)
      /\ state[t] = "running" /\ calling[t] = None
  BY DEF Typed, TypeOK, Return, Ready, Runs
<1>2. rest \in Seq(Frames) /\ rest # << >> /\ Within(rest, frames[t])
  BY ReturnTop
<1>3. Placed(rest)
  BY <1>1, <1>2, WithinPlaced
<1>4. /\ Advanced(rest) \in Seq(Frames) /\ Advanced(rest) # << >>
      /\ Len(Advanced(rest)) = Len(rest) /\ Within(Advanced(rest), rest)
      /\ Last(Advanced(rest)).at > 0
  BY <1>2, AdvancedType DEF Last
<1>5. Placed(Advanced(rest))
  BY <1>2, <1>3, <1>4, WithinPlaced
<1>6. /\ UNCHANGED << prog, initialized, owner, count, loops, calling, resval, child >>
      /\ \/ /\ state' = [state EXCEPT ![t] = "ended"]
            /\ frames' = [frames EXCEPT ![t] = rest]
         \/ /\ state' = state
            /\ frames' = [frames EXCEPT ![t] = Advanced(rest)]
  BY DEF Return, Ended
<1> HIDE DEF rest
<1>7. /\ TypeOK'
      /\ \A u \in Threads \ {t} : state'[u] = state[u] /\ frames'[u] = frames[u]
  BY <1>1, <1>2, <1>4, <1>6 DEF TypeOK
<1>8. Standing(t)' /\ Placed(frames'[t])
  <2>1. CASE state'[t] = "ended" /\ frames'[t] = rest
    BY <1>1, <1>2, <1>3, <1>6, <2>1, ModuleInitAssumption DEF Standing, Library
  <2>2. CASE state'[t] = "running" /\ frames'[t] = Advanced(rest)
    BY <1>1, <1>4, <1>5, <1>6, <2>2, ModuleInitAssumption DEF Standing, Top, Library
  <2> QED BY <1>1, <1>6, <2>1, <2>2 DEF TypeOK
<1> QED BY <1>6, <1>7, <1>8, OthersStand

(* The blocks an error leaves: up to the one with the handler, or the base.*)
LEMMA RaiseFrames ==
  ASSUME Typed, NEW t \in Threads, Raise(t)
  PROVE  \E gs \in Seq(Frames) :
           /\ gs # << >> /\ Within(gs, frames[t])
           /\ frames' = [frames EXCEPT ![t] = gs]
           /\ \/ calling' = calling /\ Last(gs).at > 0
              \/ calling' = [calling EXCEPT ![t] = "error"] /\ Len(gs) = 1
<1> DEFINE fs == frames[t]
<1>1. frames[t] # << >>
  BY AtStepType DEF Raise
<1>2. fs \in Seq(Frames) /\ fs # << >> /\ Len(fs) \in Nat \ {0}
  BY <1>1, TopType DEF Typed
<1>3. CASE \E i \in Handlers(fs) :
             /\ \A j \in Handlers(fs) : j <= i
             /\ frames' = [frames EXCEPT ![t] = Advanced(SubSeq(fs, 1, i))]
             /\ UNCHANGED calling
  <2>1. PICK i \in DOMAIN fs :
          /\ frames' = [frames EXCEPT ![t] = Advanced(SubSeq(fs, 1, i))]
          /\ calling' = calling
    BY <1>3 DEF Handlers
  <2> DEFINE hs == SubSeq(fs, 1, i)
             gs == Advanced(hs)
  <2>2. hs \in Seq(Frames) /\ hs # << >> /\ Len(hs) = i /\ Within(hs, fs)
    BY <1>2, <2>1, PrefixType
  <2>3. /\ gs \in Seq(Frames) /\ gs # << >> /\ Len(gs) = Len(hs)
        /\ Within(gs, hs) /\ gs[Len(hs)].at > 0
    BY <2>2, AdvancedType
  <2> HIDE DEF gs, hs
  <2>4. Within(gs, fs) /\ Last(gs).at > 0
    BY <1>2, <2>2, <2>3, WithinWithin DEF Last
  <2> QED BY <2>1, <2>3, <2>4 DEF gs, hs
<1>4. CASE /\ frames' = [frames EXCEPT ![t] = << Head(fs) >>]
           /\ calling' = [calling EXCEPT ![t] = "error"]
  <2>1. Head(fs) = fs[1] /\ fs[1] \in Frames
    BY <1>2
  <2>2. /\ << Head(fs) >> \in Seq(Frames) /\ << Head(fs) >> # << >>
        /\ Len(<< Head(fs) >>) = 1 /\ Within(<< Head(fs) >>, fs)
    BY <1>2, <2>1 DEF Within
  <2> QED BY <1>4, <2>2
<1> QED BY <1>3, <1>4 DEF Raise

(* An error.                                                               *)
LEMMA RaiseTyped ==
  ASSUME Typed, NEW t \in Threads, Raise(t)
  PROVE  Typed'
<1>1. /\ TypeOK /\ Placed(frames[t]) /\ frames[t] \in Seq(Frames)
      /\ state[t] = "running" /\ calling[t] = None /\ frames[t] # << >>
  BY AtStepType DEF Typed, TypeOK, Raise, AtStep, Ready, Runs
<1>2. PICK gs \in Seq(Frames) :
        /\ gs # << >> /\ Within(gs, frames[t])
        /\ frames' = [frames EXCEPT ![t] = gs]
        /\ \/ calling' = calling /\ Last(gs).at > 0
           \/ calling' = [calling EXCEPT ![t] = "error"] /\ Len(gs) = 1
  BY RaiseFrames
<1>3. Placed(gs)
  BY <1>1, <1>2, WithinPlaced
<1>4. /\ UNCHANGED << prog, initialized, owner, count, loops, state, child >>
      /\ resval' = [resval EXCEPT ![t] = Site(Top(t))] /\ Site(Top(t)) \in Values
  BY <1>1, TopType DEF Raise
<1>5. /\ TypeOK' /\ frames'[t] = gs
      /\ \A u \in Threads \ {t} :
           frames'[u] = frames[u] /\ calling'[u] = calling[u] /\ state'[u] = state[u]
  BY <1>1, <1>2, <1>4 DEF TypeOK, Library
<1>6. Standing(t)'
  <2>1. CASE calling'[t] = None /\ Last(gs).at > 0
    BY <1>1, <1>2, <1>4, <1>5, <2>1, ModuleInitAssumption DEF Standing, Top, Library
  <2>2. CASE calling'[t] = "error" /\ Len(gs) = 1
    BY <1>1, <1>2, <1>4, <1>5, <2>2, ModuleInitAssumption DEF Standing, Library
  <2> QED BY <1>1, <1>2, <2>1, <2>2 DEF TypeOK
<1> QED BY <1>3, <1>4, <1>5, <1>6, OthersStand

(* The methods of Thread that need no new thread.                          *)
LEMMA MethodTyped ==
  ASSUME Typed, NEW t \in Threads, StartNone(t) \/ Wait(t) \/ Waited(t)
  PROVE  Typed'
<1> DEFINE fs == frames[t]
<1>1. /\ TypeOK /\ Placed(fs) /\ fs \in Seq(Frames)
      /\ state[t] = "running" /\ calling[t] # None /\ fs # << >>
  <2>1. state[t] = "running" /\ calling[t] \in {"sync", "await"}
    BY DEF StartNone, Wait, Waited, InMethod, MayLock, Runs
  <2>2. calling[t] # None
    BY <2>1, ModuleInitAssumption DEF Library
  <2> QED BY <2>1, <2>2 DEF Typed, TypeOK, Standing
<1>2. /\ Advanced(fs) \in Seq(Frames) /\ Advanced(fs) # << >>
      /\ Within(Advanced(fs), fs) /\ Last(Advanced(fs)).at > 0
  BY <1>1, AdvancedType DEF Last
<1>3. Placed(Advanced(fs))
  BY <1>1, <1>2, WithinPlaced
<1>4. /\ UNCHANGED << prog, initialized, owner, count, loops, resval, state, child >>
      /\ \/ /\ frames' = [frames EXCEPT ![t] = Advanced(fs)]
            /\ calling' = [calling EXCEPT ![t] = None]
         \/ frames' = frames /\ calling' = [calling EXCEPT ![t] = "await"]
  BY DEF StartNone, Wait, Waited
<1> HIDE DEF fs
<1>5. /\ TypeOK'
      /\ \A u \in Threads \ {t} :
           frames'[u] = frames[u] /\ calling'[u] = calling[u] /\ state'[u] = state[u]
  BY <1>1, <1>2, <1>4 DEF TypeOK
<1>6. Standing(t)' /\ Placed(frames'[t])
  <2>1. CASE frames'[t] = Advanced(fs) /\ calling'[t] = None
    BY <1>1, <1>2, <1>3, <1>4, <2>1, ModuleInitAssumption DEF Standing, Top, Library
  <2>2. CASE frames'[t] = fs /\ calling'[t] = "await"
    BY <1>1, <1>4, <2>2, ModuleInitAssumption DEF Standing, Library
  <2> QED BY <1>1, <1>4, <2>1, <2>2 DEF TypeOK, fs
<1> QED BY <1>4, <1>5, <1>6, OthersStand

(* Thread.start: the new thread is about to call its function, from a base *)
(* in the module of the function.                                          *)
LEMMA StartFrames ==
  ASSUME Typed, NEW t \in Threads, Start(t)
  PROVE  \E u \in Threads, m \in Modules :
           /\ u # t /\ frames[t] # << >> /\ Top(t) \in Frames
           /\ frames' = [frames EXCEPT ![t] = Advanced(@), ![u] = << Base(m) >>]
           /\ calling' = [calling EXCEPT ![t] = None, ![u] = m]
           /\ resval' = [resval EXCEPT ![u] = Site(Top(t))]
           /\ state' = [state EXCEPT ![u] = "running"]
           /\ child' = [child EXCEPT ![t] = u]
<1>1. /\ TypeOK /\ Standing(t)
      /\ state[t] = "running" /\ calling[t] = "sync"
  BY DEF Typed, Start, InMethod, MayLock, Runs
<1>2. frames[t] # << >> /\ Top(t).at \in DOMAIN Code(Top(t))
  BY <1>1 DEF Standing
<1>3. Top(t) \in Frames /\ Current(Top(t)).mod \in Modules
  BY <1>1, <1>2, TopType, CurrentType
<1>4. PICK u \in Fresh :
        LET m == Current(Top(t)).mod
        IN /\ frames' = [frames EXCEPT ![t] = Advanced(@), ![u] = << Base(m) >>]
           /\ calling' = [calling EXCEPT ![t] = None, ![u] = m]
           /\ resval' = [resval EXCEPT ![u] = Site(Top(t))]
           /\ state' = [state EXCEPT ![u] = "running"]
           /\ child' = [child EXCEPT ![t] = u]
  BY DEF Start
<1>5. u \in Threads /\ u # t
  BY <1>1 DEF Fresh
<1> QED BY <1>2, <1>3, <1>4, <1>5

(* Both threads of Thread.start stand where they may.                      *)
LEMMA StartTyped ==
  ASSUME Typed, NEW t \in Threads, Start(t)
  PROVE  Typed'
<1>1. PICK u \in Threads, m \in Modules :
        /\ u # t /\ frames[t] # << >> /\ Top(t) \in Frames
        /\ frames' = [frames EXCEPT ![t] = Advanced(@), ![u] = << Base(m) >>]
        /\ calling' = [calling EXCEPT ![t] = None, ![u] = m]
        /\ resval' = [resval EXCEPT ![u] = Site(Top(t))]
        /\ state' = [state EXCEPT ![u] = "running"]
        /\ child' = [child EXCEPT ![t] = u]
  BY StartFrames
<1>2. /\ TypeOK /\ Placed(frames[t]) /\ frames[t] \in Seq(Frames)
      /\ state[t] = "running"
      /\ UNCHANGED << prog, initialized, owner, count, loops >>
  BY DEF Typed, TypeOK, Start, InMethod, MayLock, Runs
<1> DEFINE gs == Advanced(frames[t])
           hs == << Base(m) >>
<1>3. /\ gs \in Seq(Frames) /\ gs # << >> /\ Within(gs, frames[t]) /\ Last(gs).at > 0
  BY <1>1, <1>2, AdvancedType DEF Last
<1>4. Placed(gs)
  BY <1>2, <1>3, WithinPlaced
<1>5. Base(m) \in Frames /\ Base(m).kind = "base" /\ Base(m).mod = m
  BY BaseType
<1>6. m # "error" /\ m # "sync" /\ m # None
  BY ModuleInitAssumption DEF Library
<1>7. hs \in Seq(Frames) /\ hs # << >> /\ Placed(hs)
  BY <1>5, <1>6 DEF Placed
<1>8. Site(Top(t)) \in Values
  BY <1>1, <1>2, TopType
<1> HIDE DEF gs, hs
<1>9. /\ frames' = [frames EXCEPT ![t] = gs, ![u] = hs]
      /\ frames'[t] = gs /\ frames'[u] = hs
      /\ \A v \in Threads \ {t, u} : frames'[v] = frames[v]
  BY <1>1, <1>2 DEF TypeOK, gs, hs
<1>10. /\ calling'[t] = None /\ calling'[u] = m
       /\ state'[t] = "running" /\ state'[u] = "running"
       /\ \A v \in Threads \ {t, u} :
            calling'[v] = calling[v] /\ state'[v] = state[v]
  BY <1>1, <1>2 DEF TypeOK
<1>11. TypeOK'
  <2>1. frames' \in [Threads -> Seq(Frames)]
    BY <1>2, <1>3, <1>7, <1>9 DEF TypeOK
  <2>2. calling' \in [Threads -> Modules \cup Library \cup {"await", None}]
    BY <1>1, <1>2 DEF TypeOK
  <2>3. /\ resval' \in [Threads -> Values]
        /\ state' \in [Threads -> {"idle", "running", "ended", "aborted"}]
        /\ child' \in [Threads -> Threads \cup {None}]
    BY <1>1, <1>2, <1>8 DEF TypeOK
  <2> QED BY <1>2, <2>1, <2>2, <2>3 DEF TypeOK
<1>12. ASSUME NEW v \in Threads
       PROVE  Standing(v)' /\ Placed(frames'[v])
  <2>1. CASE v = t
    BY <1>3, <1>4, <1>9, <1>10, <2>1, ModuleInitAssumption DEF Standing, Top, Library
  <2>2. CASE v = u
    BY <1>6, <1>7, <1>9, <1>10, <2>2 DEF Standing
  <2>3. CASE v \notin {t, u}
    <3>1. Standing(v) /\ Placed(frames[v])
      BY DEF Typed
    <3> QED BY <1>2, <1>9, <1>10, <2>3, <3>1 DEF Standing, Top, Code
  <2> QED BY <2>1, <2>2, <2>3
<1>13. {"main"} \cup Library \subseteq initialized'
  BY <1>2 DEF Typed
<1> QED BY <1>11, <1>12, <1>13 DEF Typed

(* Every step keeps the types.                                             *)
LEMMA NextTyped == Typed /\ HeldByLoops /\ [Next]_vars => Typed'
<1> SUFFICES ASSUME Typed, HeldByLoops, [Next]_vars PROVE Typed'
  OBVIOUS
<1>1. CASE \E t \in Threads : Act(t)
  <2>1. PICK t \in Threads : Act(t)
    BY <1>1
  <2> QED BY <2>1, CallTyped, EnterTyped, BeginBodyTyped, EndLoopTyped, ExitTyped,
             ReturnTyped, RaiseTyped, MethodTyped, StartTyped DEF Act
<1>2. CASE UNCHANGED vars
  <2>1. TypeOK'
    BY <1>2 DEF Typed, TypeOK, vars, thread
  <2>2. ASSUME NEW t \in Threads PROVE Standing(t)' /\ Placed(frames'[t])
    BY <1>2 DEF Typed, Standing, Top, Code, vars, thread
  <2> QED BY <1>2, <2>1, <2>2 DEF Typed, vars, thread
<1> QED BY <1>1, <1>2 DEF Next, AtRest

-----------------------------------------------------------------------------
(* The steps, by what they do to the frames and the loops.                 *)

(* Blocks went, or a Thread got its first.                                 *)
Shrunk(gs, fs) == Within(gs, fs) \/ (Len(gs) = 1 /\ gs[1].kind = "base")

(* No module is marked, no loop begins or ends, no function is entered.    *)
Quiet ==
  /\ UNCHANGED << initialized, owner, count, loops >>
  /\ \A u \in Threads : Shrunk(frames'[u], frames[u])

(* Which steps are quiet: all but three.                                   *)
LEMMA NextShapes ==
  ASSUME Typed, [Next]_vars
  PROVE  Quiet \/ \E t \in Threads : Enter(t) \/ BeginBody(t) \/ EndLoop(t)
<1>1. \A u \in Threads : frames[u] \in Seq(Frames) /\ Within(frames[u], frames[u])
  BY DEF Typed, TypeOK, Within
<1>2. ASSUME UNCHANGED << initialized, owner, count, loops, frames >>
      PROVE  Quiet
  BY <1>1, <1>2 DEF Quiet, Shrunk
<1>3. ASSUME NEW t \in Threads, NEW gs \in Seq(Frames), Within(gs, frames[t]),
             frames' = [frames EXCEPT ![t] = gs],
             UNCHANGED << initialized, owner, count, loops >>
      PROVE  Quiet
  BY <1>1, <1>3 DEF Quiet, Shrunk, Typed, TypeOK
<1>4. CASE \E t \in Threads : Act(t)
  <2>1. PICK t \in Threads : Act(t)
    BY <1>4
  <2>2. CASE Call(t) \/ CallMethod(t) \/ Wait(t)
    BY <1>2, <2>2 DEF Call, CallMethod, Wait
  <2>3. CASE Exit(t) \/ Abort(t)
    <3>1. [frames EXCEPT ![t] = frames[t]] = frames
      BY DEF Typed, TypeOK
    <3> QED BY <1>2, <2>3, <3>1 DEF Exit, Abort, Ended
  <2>4. CASE Return(t)
    <3> DEFINE rest == Popped(frames[t])
    <3>1. rest \in Seq(Frames) /\ rest # << >> /\ Within(rest, frames[t])
      BY <2>4, ReturnTop
    <3>2. Advanced(rest) \in Seq(Frames) /\ Within(Advanced(rest), rest)
      BY <3>1, AdvancedType
    <3>3. Within(Advanced(rest), frames[t])
      BY <1>1, <3>1, <3>2, WithinWithin
    <3>4. /\ UNCHANGED << initialized, owner, count, loops >>
          /\ \/ frames' = [frames EXCEPT ![t] = rest]
             \/ frames' = [frames EXCEPT ![t] = Advanced(rest)]
      BY <2>4 DEF Return, Ended
    <3> HIDE DEF rest
    <3> QED BY <1>3, <3>1, <3>2, <3>3, <3>4
  <2>5. CASE Raise(t)
    <3>1. PICK gs \in Seq(Frames) :
            Within(gs, frames[t]) /\ frames' = [frames EXCEPT ![t] = gs]
      BY <2>5, RaiseFrames
    <3> QED BY <1>3, <2>5, <3>1 DEF Raise
  <2>6. CASE StartNone(t) \/ Waited(t)
    <3>1. state[t] = "running" /\ calling[t] \in {"sync", "await"}
      BY <2>6 DEF StartNone, Waited, InMethod, MayLock, Runs
    <3>2. frames[t] # << >>
      BY <3>1 DEF Typed, Standing
    <3>3. Advanced(frames[t]) \in Seq(Frames) /\ Within(Advanced(frames[t]), frames[t])
      BY <1>1, <3>2, AdvancedType
    <3> QED BY <1>3, <2>6, <3>3 DEF StartNone, Waited
  <2>7. CASE Start(t)
    <3>1. PICK u \in Threads, m \in Modules :
            /\ u # t /\ frames[t] # << >>
            /\ frames' = [frames EXCEPT ![t] = Advanced(@), ![u] = << Base(m) >>]
      BY <2>7, StartFrames
    <3>2. Within(Advanced(frames[t]), frames[t])
      BY <1>1, <3>1, AdvancedType
    <3>3. Shrunk(<< Base(m) >>, frames[u])
      BY BaseType DEF Shrunk
    <3>4. \A v \in Threads : Shrunk(frames'[v], frames[v])
      BY <1>1, <3>1, <3>2, <3>3 DEF Shrunk, Typed, TypeOK
    <3> QED BY <2>7, <3>4 DEF Quiet, Start
  <2> QED BY <2>1, <2>2, <2>3, <2>4, <2>5, <2>6, <2>7 DEF Act
<1>5. CASE UNCHANGED vars
  BY <1>2, <1>5 DEF vars, thread
<1> QED BY <1>4, <1>5 DEF Next, AtRest

-----------------------------------------------------------------------------
(* The mutex.                                                              *)

(* Every step keeps account of it.                                         *)
LEMMA NextHeld == Typed /\ HeldByLoops /\ [Next]_vars => HeldByLoops'
<1> SUFFICES ASSUME Typed, HeldByLoops, [Next]_vars PROVE HeldByLoops'
  OBVIOUS
<1>1. /\ loops \in [Threads -> Seq(Loops)] /\ count \in Nat /\ None \notin Threads
  BY ModuleInitAssumption DEF Typed, TypeOK
<1>2. CASE Quiet
  BY <1>2 DEF Quiet, HeldByLoops
<1>3. ASSUME NEW t \in Threads, Enter(t)
      PROVE  HeldByLoops'
  BY <1>3 DEF Enter, HeldByLoops
<1>4. ASSUME NEW t \in Threads, BeginBody(t)
      PROVE  HeldByLoops'
  <2> DEFINE l == Loop(calling[t], resval[t])
             ls == Append(loops[t], l)
  <2>1. /\ owner \in {None, t} /\ owner' = t /\ count' = count + 1
        /\ loops' = [loops EXCEPT ![t] = ls]
    BY <1>4 DEF BeginBody, MayLock, Acquired
  <2>2. l \in Loops
    BY <1>1, <1>4 DEF BeginBody, Typed, TypeOK, Loop, Loops
  <2>3. ls # << >> /\ Len(ls) = Len(loops[t]) + 1
    BY <1>1, <2>2, AppendProperties
  <2> HIDE DEF ls, l
  <2>4. /\ loops'[t] = ls
        /\ \A u \in Threads \ {t} : loops'[u] = loops[u] /\ loops[u] = << >>
    BY <1>1, <2>1 DEF HeldByLoops
  <2>5. count = Len(loops[t])
    <3>1. CASE owner = t
      BY <1>1, <3>1 DEF HeldByLoops
    <3>2. CASE owner = None
      BY <1>1, <3>2, EmptySeq DEF HeldByLoops
    <3> QED BY <2>1, <3>1, <3>2
  <2>6. count' = Len(loops'[t])
    BY <2>1, <2>3, <2>4, <2>5
  <2>7. \A u \in Threads : loops'[u] # << >> <=> owner' = u
    BY <2>1, <2>3, <2>4
  <2> QED BY <1>1, <2>1, <2>6, <2>7 DEF HeldByLoops
<1>5. ASSUME NEW t \in Threads, EndLoop(t)
      PROVE  HeldByLoops'
  <2> DEFINE n == Len(loops[t])
             ls == Front(loops[t])
  <2>1. loops[t] # << >> /\ loops' = [loops EXCEPT ![t] = ls]
    BY <1>5 DEF EndLoop
  <2>2. /\ owner = t /\ count = n
        /\ \A u \in Threads \ {t} : loops[u] = << >>
    BY <1>1, <2>1 DEF HeldByLoops
  <2>3. n \in Nat \ {0} /\ ls \in Seq(Loops) /\ Len(ls) = n - 1
    BY <1>1, <2>1, LastLoop
  <2>4. count' = n - 1 /\ owner' = IF n = 1 THEN None ELSE t
    BY <1>5, <2>2 DEF EndLoop, Released
  <2> HIDE DEF n, ls
  <2>5. /\ loops'[t] = ls
        /\ \A u \in Threads \ {t} : loops'[u] = << >>
    BY <1>1, <2>1, <2>2
  <2>6. CASE n = 1
    <3>1. ls = << >> /\ count' = 0 /\ owner' = None
      BY <2>3, <2>4, <2>6
    <3> QED BY <1>1, <2>5, <3>1 DEF HeldByLoops
  <2>7. CASE n # 1
    <3>1. ls # << >> /\ count' = Len(ls) /\ owner' = t
      BY <2>3, <2>4, <2>7
    <3> QED BY <1>1, <2>5, <3>1 DEF HeldByLoops
  <2> QED BY <2>6, <2>7
<1> QED BY <1>2, <1>3, <1>4, <1>5, NextShapes

(* While a thread may take the mutex no other one has a loop.              *)
LEMMA LoopsOfOneThread ==
  ASSUME HeldByLoops, NEW t \in Threads, owner \in {None, t},
         NEW u \in Threads, u # t
  PROVE  loops[u] = << >>
BY ModuleInitAssumption DEF HeldByLoops

-----------------------------------------------------------------------------
(* The order of bodies and loops.                                          *)

(* It is kept when blocks go,                                              *)
LEMMA ShrunkOrdered ==
  ASSUME NEW fs \in Seq(Frames), NEW gs \in Seq(Frames), NEW ls, NEW ini,
         Shrunk(gs, fs),
         EachHasLoop(fs, ls), InOrder(fs, ls), Marked(fs, ls, ini)
  PROVE  EachHasLoop(gs, ls) /\ InOrder(gs, ls) /\ Marked(gs, ls, ini)
<1>1. CASE Within(gs, fs)
  <2>1. \A i \in DOMAIN gs : i \in DOMAIN fs
    BY <1>1 DEF Within
  <2>2. \A i \in DOMAIN gs :
          /\ gs[i].kind = fs[i].kind /\ gs[i].mod = fs[i].mod
          /\ IsBody(gs[i]) <=> IsBody(fs[i])
    BY <1>1 DEF Within, IsBody
  <2>3. EachHasLoop(gs, ls)
    BY <2>1, <2>2 DEF EachHasLoop
  <2>4. InOrder(gs, ls)
    BY <2>1, <2>2 DEF InOrder
  <2>5. Marked(gs, ls, ini)
    BY <2>1, <2>2 DEF Marked
  <2> QED BY <2>3, <2>4, <2>5
<1>2. CASE Len(gs) = 1 /\ gs[1].kind = "base"
  <2>1. \A i \in DOMAIN gs : i = 1 /\ gs[i].kind = "base"
    BY <1>2
  <2>2. \A i \in DOMAIN gs : ~IsBody(gs[i]) /\ gs[i].kind # "fn"
    BY <2>1 DEF IsBody
  <2> QED BY <2>2 DEF EachHasLoop, InOrder, Marked
<1> QED BY <1>1, <1>2 DEF Shrunk

(* and when the function of a module that is marked begins.                *)
LEMMA EnteredOrdered ==
  ASSUME NEW fs \in Seq(Frames), NEW m \in Modules \cup {"error"}, NEW a \in Values,
         NEW ls, NEW ini, m \in ini,
         EachHasLoop(fs, ls), InOrder(fs, ls), Marked(fs, ls, ini)
  PROVE  /\ EachHasLoop(Entered(fs, m, a), ls) /\ InOrder(Entered(fs, m, a), ls)
         /\ Marked(Entered(fs, m, a), ls, ini)
<1> DEFINE gs == Entered(fs, m, a)
           n == Len(fs)
<1>1. /\ gs \in Seq(Frames) /\ Len(gs) = n + 1
      /\ \A i \in DOMAIN fs : gs[i] = fs[i]
      /\ gs[n + 1] = Frame("fn", m, a) /\ n \in Nat /\ DOMAIN fs = 1 .. n
  BY EnteredType
<1> HIDE DEF gs, n
<1>2. gs[n + 1].kind = "fn" /\ gs[n + 1].mod = m /\ ~IsBody(gs[n + 1])
  <2>1. Frame("fn", m, a).kind = "fn" /\ Frame("fn", m, a).mod = m
    BY FrameType DEF Kinds
  <2> QED BY <1>1, <2>1 DEF IsBody
<1>3. \A i \in DOMAIN gs : i \in DOMAIN fs \/ i = n + 1
  BY <1>1
<1>4. EachHasLoop(gs, ls)
  BY <1>1, <1>2, <1>3 DEF EachHasLoop
<1>5. InOrder(gs, ls)
  BY <1>1, <1>2, <1>3 DEF InOrder
<1>6. Marked(gs, ls, ini)
  BY <1>1, <1>2, <1>3 DEF Marked
<1> QED BY <1>4, <1>5, <1>6 DEF gs

(* A body that begins is that of a module that was not marked: no loop is  *)
(* for the same module.                                                    *)
LEMMA BegunOrdered ==
  ASSUME NEW fs \in Seq(Frames), NEW ls \in Seq(Loops), NEW ini,
         NEW m \in Modules \ ini, NEW a \in Values,
         EachHasLoop(fs, ls), InOrder(fs, ls), Marked(fs, ls, ini)
  PROVE  LET gs == Append(fs, Frame("body", m, None))
             ks == Append(ls, Loop(m, a))
         IN EachHasLoop(gs, ks) /\ InOrder(gs, ks) /\ Marked(gs, ks, ini \cup {m})
<1> DEFINE f == Frame("body", m, None)
           l == Loop(m, a)
           gs == Append(fs, f)
           ks == Append(ls, l)
           n == Len(fs)
           p == Len(ls)
<1>1. /\ f \in Frames /\ f.kind = "body" /\ f.mod = m
      /\ l \in Loops /\ l.mod = m
  <2>1. "body" \in Kinds /\ None \in Values
    BY DEF Kinds, Values
  <2>2. f \in Frames /\ f.kind = "body" /\ f.mod = m
    BY <2>1, FrameType
  <2> QED BY <2>2 DEF Loop, Loops
<1>2. /\ gs \in Seq(Frames) /\ Len(gs) = n + 1 /\ n \in Nat /\ DOMAIN fs = 1 .. n
      /\ \A i \in 1 .. n : gs[i] = fs[i]
      /\ gs[n + 1] = f
  BY <1>1, AppendProperties
<1>3. /\ ks \in Seq(Loops) /\ Len(ks) = p + 1 /\ p \in Nat /\ DOMAIN ls = 1 .. p
      /\ \A k \in 1 .. p : ks[k] = ls[k]
      /\ ks[p + 1] = l
  BY <1>1, AppendProperties
<1> HIDE DEF f, l, gs, ks, n, p
<1>4. \A i \in DOMAIN gs : i \in DOMAIN fs \/ i = n + 1
  BY <1>2
<1>5. \A k \in DOMAIN ks : k \in DOMAIN ls \/ k = p + 1
  BY <1>3
<1>6. \A k \in DOMAIN ls : k \in DOMAIN ks /\ ks[k] = ls[k] /\ ls[k].mod # m
  BY <1>3 DEF Marked
<1>7. p + 1 \in DOMAIN ks
  BY <1>3
<1>8. EachHasLoop(gs, ks)
  <2>1. ASSUME NEW i \in DOMAIN gs, IsBody(gs[i])
        PROVE  \E k \in DOMAIN ks : ks[k].mod = gs[i].mod
    <3>1. CASE i \in DOMAIN fs
      BY <1>2, <1>6, <2>1, <3>1 DEF EachHasLoop
    <3>2. CASE i = n + 1
      BY <1>1, <1>2, <1>3, <1>7, <3>2
    <3> QED BY <1>4, <3>1, <3>2
  <2> QED BY <2>1 DEF EachHasLoop
<1>9. InOrder(gs, ks)
  <2>1. ASSUME NEW i \in DOMAIN gs, NEW j \in DOMAIN gs, i < j,
               IsBody(gs[i]), IsBody(gs[j]),
               NEW k \in DOMAIN ks, NEW q \in DOMAIN ks,
               ks[k].mod = gs[i].mod, ks[q].mod = gs[j].mod
        PROVE  k < q
    <3>1. i \in DOMAIN fs /\ i \in 1 .. n
      BY <1>2, <2>1
    <3>2. gs[i] = fs[i] /\ fs[i].mod # m
      BY <1>2, <1>6, <2>1, <3>1 DEF EachHasLoop
    <3>3. k \in DOMAIN ls /\ ks[k] = ls[k] /\ k <= p
      BY <1>1, <1>3, <1>5, <1>6, <2>1, <3>2
    <3>4. CASE j \in DOMAIN fs
      <4>1. gs[j] = fs[j] /\ fs[j].mod # m
        BY <1>2, <1>6, <2>1, <3>4 DEF EachHasLoop
      <4>2. q \in DOMAIN ls /\ ks[q] = ls[q]
        BY <1>1, <1>3, <1>5, <1>6, <2>1, <4>1
      <4> QED BY <2>1, <3>1, <3>2, <3>3, <3>4, <4>1, <4>2 DEF InOrder
    <3>5. CASE j = n + 1
      <4>1. ks[q].mod = m
        BY <1>1, <1>2, <2>1, <3>5
      <4>2. q = p + 1
        BY <1>5, <1>6, <4>1
      <4> QED BY <1>3, <3>3, <4>2
    <3> QED BY <1>4, <3>4, <3>5
  <2> QED BY <2>1 DEF InOrder
<1>10. Marked(gs, ks, ini \cup {m})
  <2>1. ASSUME NEW i \in DOMAIN gs, gs[i].kind = "fn"
        PROVE  gs[i].mod \in ini \cup {m}
    <3>1. i \in DOMAIN fs /\ gs[i] = fs[i]
      BY <1>1, <1>2, <1>4, <2>1
    <3> QED BY <2>1, <3>1 DEF Marked
  <2>2. ASSUME NEW k \in DOMAIN ks
        PROVE  ks[k].mod \in ini \cup {m}
    BY <1>1, <1>3, <1>5, <1>6 DEF Marked
  <2> QED BY <2>1, <2>2 DEF Marked
<1> QED BY <1>8, <1>9, <1>10 DEF f, l, gs, ks

(* A loop that ends takes with it the youngest body there is, or none: the *)
(* block on top is the body of the program, of error.jl's function or the  *)
(* base only when no body of a loop is left.                               *)
LEMMA EndedOrdered ==
  ASSUME NEW fs \in Seq(Frames), NEW ls \in Seq(Loops), NEW ini,
         Len(fs) > 1, ls # << >>, Placed(fs),
         fs[Len(fs)].kind = "fn" => fs[Len(fs)].mod = "error",
         EachHasLoop(fs, ls), InOrder(fs, ls), Marked(fs, ls, ini)
  PROVE  /\ EachHasLoop(Popped(fs), Front(ls)) /\ InOrder(Popped(fs), Front(ls))
         /\ Marked(Popped(fs), Front(ls), ini)
<1> DEFINE gs == Popped(fs)
           ks == Front(ls)
           n == Len(fs)
           p == Len(ls)
<1>1. /\ n \in Nat /\ n > 1 /\ DOMAIN fs = 1 .. n /\ fs # << >>
      /\ fs[n].kind = "fn" => fs[n].mod = "error"
  OBVIOUS
<1>2. gs \in Seq(Frames) /\ Len(gs) = n - 1 /\ Within(gs, fs)
  BY <1>1, PoppedType
<1>3. /\ p \in Nat \ {0} /\ ks \in Seq(Loops) /\ Len(ks) = p - 1
      /\ DOMAIN ls = 1 .. p /\ DOMAIN ks = 1 .. p - 1
      /\ \A k \in DOMAIN ks : k \in DOMAIN ls /\ ks[k] = ls[k]
  BY LastLoop
<1> HIDE DEF gs, ks, n, p
<1>4. n \in DOMAIN fs /\ fs[n] \in Frames
  BY <1>1
<1>5. \A i \in DOMAIN gs :
        /\ i \in DOMAIN fs /\ i < n
        /\ gs[i].kind = fs[i].kind /\ gs[i].mod = fs[i].mod
        /\ IsBody(gs[i]) <=> IsBody(fs[i])
  BY <1>1, <1>2 DEF Within, IsBody
<1>6. EachHasLoop(gs, ks)
  <2>1. CASE IsBody(fs[n])
    <3>1. PICK q \in DOMAIN ls : ls[q].mod = fs[n].mod
      BY <1>4, <2>1 DEF EachHasLoop
    <3>2. ASSUME NEW i \in DOMAIN gs, IsBody(gs[i])
          PROVE  \E k \in DOMAIN ks : ks[k].mod = gs[i].mod
      <4>1. i \in DOMAIN fs /\ i < n /\ IsBody(fs[i]) /\ gs[i].mod = fs[i].mod
        BY <1>5, <3>2
      <4>2. PICK k \in DOMAIN ls : ls[k].mod = fs[i].mod
        BY <4>1 DEF EachHasLoop
      <4>3. k < q
        BY <1>4, <2>1, <3>1, <4>1, <4>2 DEF InOrder
      <4>4. k \in DOMAIN ks
        BY <1>3, <4>3
      <4> QED BY <1>3, <4>1, <4>2, <4>4
    <3> QED BY <3>2 DEF EachHasLoop
  <2>2. CASE ~IsBody(fs[n])
    <3>1. n = 2
      <4>1. fs[n].kind # "base"
        BY <1>1, <1>4 DEF Placed
      <4>2. \/ fs[n].kind = "body" /\ fs[n].mod = "main"
            \/ fs[n].mod = "error"
        BY <1>1, <1>4, <2>2, <4>1 DEF Frames, Kinds, IsBody
      <4> QED BY <1>4, <4>2 DEF Placed
    <3>2. \A i \in DOMAIN gs : i = 1
      BY <1>2, <3>1
    <3>3. 1 \in DOMAIN fs
      BY <1>1
    <3>4. \A i \in DOMAIN gs : ~IsBody(gs[i])
      BY <1>5, <3>2, <3>3 DEF Placed, IsBody
    <3> QED BY <3>4 DEF EachHasLoop
  <2> QED BY <2>1, <2>2
<1>7. InOrder(gs, ks)
  BY <1>3, <1>5 DEF InOrder
<1>8. Marked(gs, ks, ini)
  BY <1>3, <1>5 DEF Marked
<1> QED BY <1>6, <1>7, <1>8 DEF gs, ks

(* A step that leaves the other threads' frames and loops alone, and marks *)
(* what was marked.                                                        *)
LEMMA OthersOrdered ==
  ASSUME Ordered, initialized \subseteq initialized', NEW t \in Threads,
         EachHasLoop(frames'[t], loops'[t]), InOrder(frames'[t], loops'[t]),
         Marked(frames'[t], loops'[t], initialized'),
         \A u \in Threads \ {t} : frames'[u] = frames[u] /\ loops'[u] = loops[u]
  PROVE  Ordered'
<1>1. ASSUME NEW u \in Threads \ {t}
      PROVE  /\ EachHasLoop(frames'[u], loops'[u]) /\ InOrder(frames'[u], loops'[u])
             /\ Marked(frames'[u], loops'[u], initialized')
  <2>1. /\ EachHasLoop(frames[u], loops[u]) /\ InOrder(frames[u], loops[u])
        /\ Marked(frames[u], loops[u], initialized)
    BY DEF Ordered
  <2> QED BY <2>1 DEF Marked
<1>2. \A u \in Threads :
         /\ EachHasLoop(frames'[u], loops'[u]) /\ InOrder(frames'[u], loops'[u])
         /\ Marked(frames'[u], loops'[u], initialized')
  BY <1>1
<1> QED BY <1>2 DEF Ordered

(* Every step keeps the order.                                             *)
LEMMA NextOrdered == Typed /\ HeldByLoops /\ Typed' /\ Ordered /\ [Next]_vars => Ordered'
<1> SUFFICES ASSUME Typed, HeldByLoops, Typed', Ordered, [Next]_vars PROVE Ordered'
  OBVIOUS
<1>1. /\ frames \in [Threads -> Seq(Frames)] /\ frames' \in [Threads -> Seq(Frames)]
      /\ loops \in [Threads -> Seq(Loops)] /\ resval \in [Threads -> Values]
      /\ initialized \subseteq Modules \cup Library
  BY DEF Typed, TypeOK
<1>2. CASE Quiet
  <2>1. ASSUME NEW u \in Threads
        PROVE  /\ EachHasLoop(frames'[u], loops'[u]) /\ InOrder(frames'[u], loops'[u])
               /\ Marked(frames'[u], loops'[u], initialized')
    <3>1. /\ Shrunk(frames'[u], frames[u])
          /\ loops'[u] = loops[u] /\ initialized' = initialized
      BY <1>2 DEF Quiet
    <3>2. /\ EachHasLoop(frames[u], loops[u]) /\ InOrder(frames[u], loops[u])
          /\ Marked(frames[u], loops[u], initialized)
      BY DEF Ordered
    <3>3. frames[u] \in Seq(Frames) /\ frames'[u] \in Seq(Frames)
      BY <1>1
    <3> QED BY <3>1, <3>2, <3>3, ShrunkOrdered
  <2> QED BY <2>1 DEF Ordered
<1>3. ASSUME NEW t \in Threads, Enter(t)
      PROVE  Ordered'
  <2> DEFINE m == calling[t]
             gs == Entered(frames[t], m, resval[t])
  <2>1. /\ m \in initialized /\ m \in Modules \cup {"error"}
        /\ frames' = [frames EXCEPT ![t] = gs]
        /\ loops' = loops /\ initialized' = initialized
    BY <1>1, <1>3 DEF Enter, Library
  <2>2. EachHasLoop(gs, loops[t]) /\ InOrder(gs, loops[t]) /\ Marked(gs, loops[t], initialized)
    BY <1>1, <2>1, EnteredOrdered DEF Ordered
  <2> HIDE DEF gs, m
  <2>3. /\ frames'[t] = gs /\ loops'[t] = loops[t]
        /\ \A u \in Threads \ {t} : frames'[u] = frames[u] /\ loops'[u] = loops[u]
    BY <1>1, <2>1
  <2> QED BY <2>1, <2>2, <2>3, OthersOrdered
<1>4. ASSUME NEW t \in Threads, BeginBody(t)
      PROVE  Ordered'
  <2> DEFINE m == calling[t]
             gs == Append(frames[t], Frame("body", m, None))
             ks == Append(loops[t], Loop(m, resval[t]))
  <2>1. /\ m \in Modules \ initialized
        /\ frames' = [frames EXCEPT ![t] = gs]
        /\ loops' = [loops EXCEPT ![t] = ks] /\ initialized' = initialized \cup {m}
    BY <1>4 DEF BeginBody
  <2>2. EachHasLoop(gs, ks) /\ InOrder(gs, ks) /\ Marked(gs, ks, initialized \cup {m})
    BY <1>1, <2>1, BegunOrdered DEF Ordered
  <2> HIDE DEF gs, ks, m
  <2>3. /\ frames'[t] = gs /\ loops'[t] = ks
        /\ \A u \in Threads \ {t} : frames'[u] = frames[u] /\ loops'[u] = loops[u]
    BY <1>1, <2>1
  <2> QED BY <2>1, <2>2, <2>3, OthersOrdered
<1>5. ASSUME NEW t \in Threads, EndLoop(t)
      PROVE  Ordered'
  <2> DEFINE fs == frames[t]
             ls == loops[t]
             l == Last(ls)
             gs == Entered(Popped(fs), l.mod, l.saved)
  <2>1. /\ ls # << >> /\ Len(fs) > 1 /\ fs # << >>
        /\ frames' = [frames EXCEPT ![t] = gs]
        /\ loops' = [loops EXCEPT ![t] = Front(ls)] /\ initialized' = initialized
        /\ Top(t).kind = "fn" => Top(t).mod = "error"
    BY <1>1, <1>5 DEF EndLoop, Exits, EndsWithRet
  <2>2. /\ fs \in Seq(Frames) /\ ls \in Seq(Loops) /\ Placed(fs)
        /\ EachHasLoop(fs, ls) /\ InOrder(fs, ls) /\ Marked(fs, ls, initialized)
        /\ Top(t) = fs[Len(fs)]
    BY <1>1, <2>1, TopType DEF Typed, Ordered
  <2>3. /\ EachHasLoop(Popped(fs), Front(ls)) /\ InOrder(Popped(fs), Front(ls))
        /\ Marked(Popped(fs), Front(ls), initialized)
    BY <2>1, <2>2, EndedOrdered
  <2>4. /\ l \in Loops /\ l.mod \in initialized
    BY <2>1, <2>2, LastLoop DEF Marked
  <2>5. l.mod \in Modules /\ l.saved \in Values /\ Popped(fs) \in Seq(Frames)
    BY <2>1, <2>2, <2>4, PoppedType DEF Loops
  <2>6. EachHasLoop(gs, Front(ls)) /\ InOrder(gs, Front(ls)) /\ Marked(gs, Front(ls), initialized)
    BY <2>3, <2>4, <2>5, EnteredOrdered
  <2> HIDE DEF fs, ls, l, gs
  <2>7. /\ frames'[t] = gs /\ loops'[t] = Front(ls)
        /\ \A u \in Threads \ {t} : frames'[u] = frames[u] /\ loops'[u] = loops[u]
    BY <1>1, <2>1
  <2> QED BY <2>1, <2>6, <2>7, OthersOrdered
<1> QED BY <1>2, <1>3, <1>4, <1>5, NextShapes

-----------------------------------------------------------------------------
(* Modules that are being prepared.                                        *)

(* The bodies among the blocks fs are of other modules than the functions  *)
(* among gs.                                                               *)
Apart(fs, gs) ==
  \A i \in DOMAIN fs, j \in DOMAIN gs :
    IsBody(fs[i]) /\ gs[j].kind = "fn" => fs[i].mod # gs[j].mod

(* Prepared says it of the threads, two by two.                            *)
LEMMA PreparedApart ==
  Prepared <=> \A t, u \in Threads : t # u => Apart(frames[t], frames[u])
BY DEF Prepared, Apart, IsBody

(* Blocks that go change nothing, nor does a base.                         *)
LEMMA ShrunkApart ==
  ASSUME NEW fs \in Seq(Frames), NEW gs \in Seq(Frames),
         NEW fs2 \in Seq(Frames), NEW gs2 \in Seq(Frames),
         Apart(fs, gs), Shrunk(fs2, fs), Shrunk(gs2, gs)
  PROVE  Apart(fs2, gs2)
<1>1. ASSUME NEW i \in DOMAIN fs2, IsBody(fs2[i])
      PROVE  i \in DOMAIN fs /\ IsBody(fs[i]) /\ fs[i].mod = fs2[i].mod
  <2>1. CASE Within(fs2, fs)
    BY <1>1, <2>1 DEF Within, IsBody
  <2>2. CASE Len(fs2) = 1 /\ fs2[1].kind = "base"
    BY <1>1, <2>2 DEF IsBody
  <2> QED BY <2>1, <2>2 DEF Shrunk
<1>2. ASSUME NEW j \in DOMAIN gs2, gs2[j].kind = "fn"
      PROVE  j \in DOMAIN gs /\ gs[j].kind = "fn" /\ gs[j].mod = gs2[j].mod
  <2>1. CASE Within(gs2, gs)
    BY <1>2, <2>1 DEF Within
  <2>2. CASE Len(gs2) = 1 /\ gs2[1].kind = "base"
    BY <1>2, <2>2
  <2> QED BY <2>1, <2>2 DEF Shrunk
<1> QED BY <1>1, <1>2 DEF Apart

(* A function that is entered is no body.                                  *)
LEMMA EnteredBodies ==
  ASSUME NEW fs \in Seq(Frames), NEW gs \in Seq(Frames), Apart(fs, gs),
         NEW m \in Modules \cup {"error"}, NEW a \in Values
  PROVE  Apart(Entered(fs, m, a), gs)
<1> DEFINE hs == Entered(fs, m, a)
           n == Len(fs)
<1>1. /\ hs \in Seq(Frames) /\ Len(hs) = n + 1 /\ n \in Nat /\ DOMAIN fs = 1 .. n
      /\ \A i \in DOMAIN fs : hs[i] = fs[i]
      /\ hs[n + 1] = Frame("fn", m, a)
  <2>1. n \in Nat /\ DOMAIN fs = 1 .. n
    OBVIOUS
  <2>2. /\ hs \in Seq(Frames) /\ Len(hs) = n + 1
        /\ \A i \in DOMAIN fs : hs[i] = fs[i]
        /\ hs[n + 1] = Frame("fn", m, a)
    BY EnteredType
  <2> QED BY <2>1, <2>2
<1> HIDE DEF hs, n
<1>2. ~IsBody(hs[n + 1])
  <2>1. Frame("fn", m, a).kind = "fn"
    BY FrameType DEF Kinds
  <2> QED BY <1>1, <2>1 DEF IsBody
<1>3. \A i \in DOMAIN hs : i \in DOMAIN fs \/ i = n + 1
  BY <1>1
<1>4. Apart(hs, gs)
  BY <1>1, <1>2, <1>3 DEF Apart
<1> QED BY <1>4 DEF hs

(* A thread without loops has no bodies: it is apart from any other.       *)
LEMMA LoopFreeApart ==
  ASSUME NEW fs \in Seq(Frames), NEW gs \in Seq(Frames), EachHasLoop(fs, << >>)
  PROVE  Apart(fs, gs)
BY DEF EachHasLoop, Apart

(* The body of a module that was not marked is no module of a function.    *)
LEMMA BegunApart ==
  ASSUME NEW fs \in Seq(Frames), NEW gs \in Seq(Frames), NEW ls, NEW ini,
         NEW m \in Modules \ ini, Marked(gs, ls, ini), Apart(fs, gs), Apart(gs, fs)
  PROVE  LET hs == Append(fs, Frame("body", m, None))
         IN Apart(hs, gs) /\ Apart(gs, hs)
<1> DEFINE f == Frame("body", m, None)
           hs == Append(fs, f)
           n == Len(fs)
<1>1. f \in Frames /\ f.kind = "body" /\ f.mod = m
  <2>1. "body" \in Kinds /\ None \in Values
    BY DEF Kinds, Values
  <2> QED BY <2>1, FrameType
<1>2. /\ hs \in Seq(Frames) /\ Len(hs) = n + 1 /\ n \in Nat /\ DOMAIN fs = 1 .. n
      /\ \A i \in 1 .. n : hs[i] = fs[i]
      /\ hs[n + 1] = f
  BY <1>1, AppendProperties
<1> HIDE DEF f, hs, n
<1>3. \A i \in DOMAIN hs : (i \in DOMAIN fs /\ hs[i] = fs[i]) \/ i = n + 1
  BY <1>2
<1>4. Apart(hs, gs)
  BY <1>1, <1>2, <1>3 DEF Apart, Marked
<1>5. Apart(gs, hs)
  BY <1>1, <1>2, <1>3 DEF Apart
<1> QED BY <1>4, <1>5 DEF f, hs

(* Every step keeps them apart.                                            *)
LEMMA NextPrepared == IInv /\ Typed' /\ HeldByLoops' /\ [Next]_vars => Prepared'
<1> SUFFICES ASSUME IInv, Typed', [Next]_vars PROVE Prepared'
  OBVIOUS
<1>1. /\ Typed /\ HeldByLoops /\ Ordered
      /\ \A t, u \in Threads : t # u => Apart(frames[t], frames[u])
  BY PreparedApart DEF IInv
<1>2. /\ frames \in [Threads -> Seq(Frames)] /\ frames' \in [Threads -> Seq(Frames)]
      /\ loops \in [Threads -> Seq(Loops)] /\ resval \in [Threads -> Values]
      /\ initialized \subseteq Modules \cup Library
  BY <1>1 DEF Typed, TypeOK
<1>3. SUFFICES \A t, u \in Threads : t # u => Apart(frames'[t], frames'[u])
  BY DEF Prepared, Apart, IsBody
<1>4. CASE Quiet
  <2>1. \A u \in Threads : Shrunk(frames'[u], frames[u])
    BY <1>4 DEF Quiet
  <2>2. \A u \in Threads : frames[u] \in Seq(Frames) /\ frames'[u] \in Seq(Frames)
    BY <1>2
  <2> QED BY <1>1, <2>1, <2>2, ShrunkApart
<1>5. ASSUME NEW t \in Threads, NEW gs \in Seq(Frames),
             frames' = [frames EXCEPT ![t] = gs],
             \A u \in Threads : u # t => Apart(gs, frames[u]) /\ Apart(frames[u], gs)
      PROVE  \A v, u \in Threads : v # u => Apart(frames'[v], frames'[u])
  <2>1. frames'[t] = gs /\ \A u \in Threads \ {t} : frames'[u] = frames[u]
    BY <1>2, <1>5
  <2>2. ASSUME NEW v \in Threads, NEW u \in Threads, v # u
        PROVE  Apart(frames'[v], frames'[u])
    <3>1. CASE v = t
      BY <1>5, <2>1, <2>2, <3>1
    <3>2. CASE v # t /\ u = t
      BY <1>5, <2>1, <2>2, <3>2
    <3>3. CASE v # t /\ u # t
      BY <1>1, <2>1, <2>2, <3>3
    <3> QED BY <3>1, <3>2, <3>3
  <2> QED BY <2>2
<1>6. ASSUME NEW t \in Threads, owner \in {None, t},
             NEW u \in Threads, u # t, NEW gs \in Seq(Frames)
      PROVE  Apart(frames[u], gs)
  <2>1. loops[u] = << >> /\ EachHasLoop(frames[u], loops[u]) /\ frames[u] \in Seq(Frames)
    BY <1>1, <1>2, <1>6, LoopsOfOneThread DEF Ordered
  <2> QED BY <2>1, LoopFreeApart
<1>7. ASSUME NEW t \in Threads, Enter(t)
      PROVE  \A v, u \in Threads : v # u => Apart(frames'[v], frames'[u])
  <2> DEFINE gs == Entered(frames[t], calling[t], resval[t])
  <2>1. /\ calling[t] \in Modules \cup {"error"} /\ owner \in {None, t}
        /\ frames' = [frames EXCEPT ![t] = gs]
        /\ frames[t] \in Seq(Frames) /\ resval[t] \in Values
    BY <1>2, <1>7 DEF Enter, MayLock, Library
  <2>2. gs \in Seq(Frames)
    BY <2>1, EnteredType
  <2>3. ASSUME NEW u \in Threads, u # t
        PROVE  Apart(gs, frames[u]) /\ Apart(frames[u], gs)
    <3>1. Apart(frames[t], frames[u]) /\ frames[u] \in Seq(Frames)
      BY <1>1, <1>2, <2>3
    <3>2. Apart(gs, frames[u])
      BY <2>1, <3>1, EnteredBodies
    <3>3. Apart(frames[u], gs)
      BY <1>6, <2>1, <2>2, <2>3
    <3> QED BY <3>2, <3>3
  <2> HIDE DEF gs
  <2> QED BY <1>5, <2>1, <2>2, <2>3
<1>8. ASSUME NEW t \in Threads, BeginBody(t)
      PROVE  \A v, u \in Threads : v # u => Apart(frames'[v], frames'[u])
  <2> DEFINE gs == Append(frames[t], Frame("body", calling[t], None))
  <2>1. /\ calling[t] \in Modules \ initialized
        /\ frames' = [frames EXCEPT ![t] = gs] /\ frames[t] \in Seq(Frames)
    BY <1>2, <1>8 DEF BeginBody
  <2>2. gs \in Seq(Frames)
    <3>1. "body" \in Kinds /\ None \in Values
      BY DEF Kinds, Values
    <3>2. Frame("body", calling[t], None) \in Frames
      BY <2>1, <3>1, FrameType
    <3> QED BY <2>1, <3>2, AppendProperties
  <2>3. ASSUME NEW u \in Threads, u # t
        PROVE  Apart(gs, frames[u]) /\ Apart(frames[u], gs)
    <3>1. /\ Apart(frames[t], frames[u]) /\ Apart(frames[u], frames[t])
          /\ frames[u] \in Seq(Frames) /\ Marked(frames[u], loops[u], initialized)
      BY <1>1, <1>2, <2>3 DEF Ordered
    <3> QED BY <2>1, <3>1, BegunApart
  <2> HIDE DEF gs
  <2> QED BY <1>5, <2>1, <2>2, <2>3
<1>9. ASSUME NEW t \in Threads, EndLoop(t)
      PROVE  \A v, u \in Threads : v # u => Apart(frames'[v], frames'[u])
  <2> DEFINE ps == Popped(frames[t])
             l == Last(loops[t])
             gs == Entered(ps, l.mod, l.saved)
  <2>1. /\ loops[t] # << >> /\ owner \in {None, t}
        /\ frames' = [frames EXCEPT ![t] = gs]
        /\ frames[t] \in Seq(Frames) /\ frames[t] # << >>
        /\ loops[t] \in Seq(Loops)
    BY <1>1, <1>2, <1>9 DEF EndLoop, HeldByLoops
  <2>2. l.mod \in Modules /\ l.saved \in Values
    BY <2>1, LastLoop DEF Loops
  <2>3. ps \in Seq(Frames) /\ Within(ps, frames[t])
    BY <2>1, PoppedType
  <2>4. gs \in Seq(Frames)
    BY <2>2, <2>3, EnteredType
  <2>5. ASSUME NEW u \in Threads, u # t
        PROVE  Apart(gs, frames[u]) /\ Apart(frames[u], gs)
    <3>1. /\ Apart(frames[t], frames[u]) /\ frames[u] \in Seq(Frames)
          /\ Within(frames[u], frames[u])
      BY <1>1, <1>2, <2>5 DEF Within
    <3>2. Apart(ps, frames[u])
      BY <2>1, <2>3, <3>1, ShrunkApart DEF Shrunk
    <3>3. Apart(gs, frames[u])
      BY <2>2, <2>3, <3>1, <3>2, EnteredBodies
    <3>4. Apart(frames[u], gs)
      BY <1>6, <2>1, <2>4, <2>5
    <3> QED BY <3>3, <3>4
  <2> HIDE DEF gs, ps, l
  <2> QED BY <1>5, <2>1, <2>4, <2>5
<1> QED BY <1>1, <1>4, <1>7, <1>8, <1>9, NextShapes

-----------------------------------------------------------------------------
(* Arguments.                                                              *)

(* The blocks gs are the lower ones of fs; the last may have gone on.      *)
Cut(gs, fs) ==
  /\ Len(gs) <= Len(fs)
  /\ \A i \in DOMAIN gs :
       /\ gs[i].kind = fs[i].kind /\ gs[i].mod = fs[i].mod /\ gs[i].arg = fs[i].arg
       /\ i < Len(gs) => gs[i] = fs[i]

(* Nothing is said of the last block's position, so a cut changes nothing, *)
(* nor does the end of a loop.                                             *)
LEMMA CutArgued ==
  ASSUME NEW fs \in Seq(Frames), NEW gs \in Seq(Frames), Cut(gs, fs),
         NEW ls, NEW ks, \A k \in DOMAIN ks : k \in DOMAIN ls /\ ks[k] = ls[k],
         Kept(fs), Waiting(fs, ls)
  PROVE  Kept(gs) /\ Waiting(gs, ks)
<1>1. ASSUME NEW i \in 1 .. Len(gs) - 1
      PROVE  /\ i \in 1 .. Len(fs) - 1 /\ gs[i] = fs[i]
             /\ gs[i + 1].kind = fs[i + 1].kind /\ gs[i + 1].mod = fs[i + 1].mod
             /\ gs[i + 1].arg = fs[i + 1].arg
             /\ IsBody(gs[i + 1]) <=> IsBody(fs[i + 1])
  <2> DEFINE m == Len(gs)
             n == Len(fs)
             j == i + 1
  <2>1. m \in Nat /\ n \in Nat /\ m <= n /\ i \in 1 .. m - 1 /\ DOMAIN gs = 1 .. m
    BY DEF Cut
  <2> HIDE DEF m, n
  <2>2. i \in 1 .. n - 1 /\ i \in 1 .. m /\ i < m /\ j \in 1 .. m
    BY <2>1
  <2> HIDE DEF j
  <2>3. /\ gs[i] = fs[i] /\ gs[j].kind = fs[j].kind /\ gs[j].mod = fs[j].mod
        /\ gs[j].arg = fs[j].arg
    BY <2>1, <2>2 DEF Cut, m
  <2>4. IsBody(gs[j]) <=> IsBody(fs[j])
    BY <2>3 DEF IsBody
  <2> QED BY <2>2, <2>3, <2>4 DEF n, j
<1>2. Kept(gs)
  BY <1>1 DEF Kept
<1>3. Waiting(gs, ks)
  <2> SUFFICES ASSUME NEW i \in 1 .. Len(gs) - 1,
                      gs[i].kind # "base", IsBody(gs[i + 1])
               PROVE  /\ StandsAtCall(gs[i], gs[i + 1].mod)
                      /\ \A k \in DOMAIN ks :
                           ks[k].mod = gs[i + 1].mod => ks[k].saved = Site(gs[i])
    BY DEF Waiting
  <2>1. /\ StandsAtCall(fs[i], fs[i + 1].mod)
        /\ \A k \in DOMAIN ls : ls[k].mod = fs[i + 1].mod => ls[k].saved = Site(fs[i])
    BY <1>1 DEF Waiting
  <2> QED BY <1>1, <2>1
<1> QED BY <1>2, <1>3

(* All blocks, or the lower ones,                                          *)
LEMMA CutSelf ==
  ASSUME NEW fs \in Seq(Frames)
  PROVE  Cut(fs, fs)
BY DEF Cut

LEMMA CutPrefix ==
  ASSUME NEW fs \in Seq(Frames), NEW i \in DOMAIN fs
  PROVE  Cut(SubSeq(fs, 1, i), fs)
<1> DEFINE gs == SubSeq(fs, 1, i)
<1>1. Len(gs) = i /\ i <= Len(fs) /\ DOMAIN gs = 1 .. i /\ \A j \in 1 .. i : gs[j] = fs[j]
  OBVIOUS
<1> HIDE DEF gs
<1>2. Cut(gs, fs)
  BY <1>1 DEF Cut
<1> QED BY <1>2 DEF gs

(* without the last,                                                       *)
LEMMA CutPopped ==
  ASSUME NEW fs \in Seq(Frames), fs # << >>
  PROVE  Cut(Popped(fs), fs) /\ \A i \in DOMAIN Popped(fs) : Popped(fs)[i] = fs[i]
<1> DEFINE n == Len(fs)
           gs == Popped(fs)
<1>1. n \in Nat \ {0} /\ DOMAIN fs = 1 .. n
  BY EmptySeq
<1>2. gs \in Seq(Frames) /\ Len(gs) = n - 1
  BY PoppedType
<1>3. gs = SubSeq(fs, 1, n - 1)
  BY DEF Popped, Front
<1> HIDE DEF gs, n
<1>4. CASE n = 1
  <2>1. DOMAIN gs = {}
    BY <1>2, <1>4
  <2> QED BY <1>1, <1>2, <2>1 DEF Cut, gs, n
<1>5. CASE n # 1
  <2>1. n - 1 \in DOMAIN fs
    BY <1>1, <1>5
  <2>2. \A i \in 1 .. n - 1 : gs[i] = fs[i]
    BY <1>3, <2>1
  <2>3. Cut(gs, fs)
    BY <1>3, <2>1, CutPrefix
  <2> QED BY <1>2, <2>2, <2>3 DEF gs
<1> QED BY <1>4, <1>5

(* and when the last of them goes on behind a call.                        *)
LEMMA CutAdvanced ==
  ASSUME NEW fs \in Seq(Frames), NEW gs \in Seq(Frames), gs # << >>, Cut(gs, fs)
  PROVE  Cut(Advanced(gs), fs)
<1> DEFINE n == Len(gs)
           g == [gs[n] EXCEPT !.at = @ + 1]
           hs == Advanced(gs)
<1>1. n \in Nat \ {0} /\ DOMAIN gs = 1 .. n /\ gs[n] \in Frames
  BY EmptySeq
<1>2. g.kind = gs[n].kind /\ g.mod = gs[n].mod /\ g.arg = gs[n].arg
  BY <1>1 DEF Frames
<1>3. hs \in Seq(Frames) /\ Len(hs) = n
  BY AdvancedType
<1>4. hs = [gs EXCEPT ![n] = g]
  BY DEF Advanced
<1> HIDE DEF g, hs, n
<1>5. hs[n] = g /\ \A i \in 1 .. n : i # n => hs[i] = gs[i]
  BY <1>1, <1>4
<1>6. DOMAIN hs = 1 .. n /\ \A i \in 1 .. n : i < n => i # n
  BY <1>1, <1>3
<1>7. n <= Len(fs) /\ \A i \in 1 .. n :
        /\ gs[i].kind = fs[i].kind /\ gs[i].mod = fs[i].mod /\ gs[i].arg = fs[i].arg
        /\ i < n => gs[i] = fs[i]
  BY <1>1 DEF Cut, n
<1>8. Cut(hs, fs)
  BY <1>2, <1>3, <1>5, <1>6, <1>7 DEF Cut
<1> QED BY <1>8 DEF hs

(* A block on top of others has the one below for its caller.              *)
LEMMA AppendPairs ==
  ASSUME NEW fs \in Seq(Frames), NEW f \in Frames,
         NEW i \in 1 .. Len(Append(fs, f)) - 1
  PROVE  /\ Append(fs, f)[i] = fs[i]
         /\ \/ i \in 1 .. Len(fs) - 1 /\ Append(fs, f)[i + 1] = fs[i + 1]
            \/ fs # << >> /\ fs[i] = Last(fs) /\ Append(fs, f)[i + 1] = f
<1> DEFINE n == Len(fs)
           gs == Append(fs, f)
<1>1. n \in Nat /\ DOMAIN fs = 1 .. n
  OBVIOUS
<1>2. /\ Len(gs) = n + 1 /\ gs[n + 1] = f
      /\ \A k \in 1 .. n : gs[k] = fs[k]
  BY AppendProperties
<1>3. Last(fs) = fs[n]
  BY DEF Last
<1>4. i \in 1 .. n
  <2> HIDE DEF gs, n
  <2> QED BY <1>1, <1>2 DEF gs
<1>5. n # 0 => fs # << >>
  OBVIOUS
<1> HIDE DEF gs, n
<1>6. gs[i] = fs[i] /\ n # 0
  BY <1>1, <1>2, <1>4
<1>7. i \in 1 .. n - 1 \/ i = n
  BY <1>1, <1>4
<1>8. CASE i \in 1 .. n - 1
  <2>1. i + 1 \in 1 .. n
    BY <1>1, <1>8
  <2>2. gs[i + 1] = fs[i + 1]
    BY <1>2, <2>1
  <2> QED BY <1>6, <1>8, <2>2 DEF gs, n
<1>9. CASE i = n
  <2>1. gs[i + 1] = f /\ fs[i] = Last(fs)
    BY <1>2, <1>3, <1>9
  <2> QED BY <1>5, <1>6, <2>1 DEF gs
<1> QED BY <1>7, <1>8, <1>9

(* The block of a function has the argument if its caller stands at the    *)
(* call; of a body, if its loop has saved it.                              *)
LEMMA AppendKept ==
  ASSUME NEW fs \in Seq(Frames), NEW f \in Frames, Kept(fs),
         fs # << >> /\ Last(fs).kind # "base" /\ f.kind = "fn"
           /\ StandsAtCall(Last(fs), f.mod) => f.arg = Site(Last(fs))
  PROVE  Kept(Append(fs, f))
<1> DEFINE gs == Append(fs, f)
<1>1. ASSUME NEW i \in 1 .. Len(gs) - 1,
             gs[i].kind # "base", gs[i + 1].kind = "fn", StandsAtCall(gs[i], gs[i + 1].mod)
      PROVE  gs[i + 1].arg = Site(gs[i])
  <2>1. /\ gs[i] = fs[i]
        /\ \/ i \in 1 .. Len(fs) - 1 /\ gs[i + 1] = fs[i + 1]
           \/ fs # << >> /\ fs[i] = Last(fs) /\ gs[i + 1] = f
    BY AppendPairs
  <2> HIDE DEF gs
  <2>2. CASE i \in 1 .. Len(fs) - 1 /\ gs[i + 1] = fs[i + 1]
    BY <1>1, <2>1, <2>2 DEF Kept
  <2>3. CASE fs # << >> /\ fs[i] = Last(fs) /\ gs[i + 1] = f
    BY <1>1, <2>1, <2>3
  <2> QED BY <2>1, <2>2, <2>3
<1> HIDE DEF gs
<1>2. Kept(gs)
  BY <1>1 DEF Kept
<1> QED BY <1>2 DEF gs

LEMMA AppendWaiting ==
  ASSUME NEW fs \in Seq(Frames), NEW f \in Frames, NEW ls,
         Waiting(fs, ls),
         fs # << >> /\ Last(fs).kind # "base" /\ IsBody(f) =>
           /\ StandsAtCall(Last(fs), f.mod)
           /\ \A k \in DOMAIN ls : ls[k].mod = f.mod => ls[k].saved = Site(Last(fs))
  PROVE  Waiting(Append(fs, f), ls)
<1> DEFINE gs == Append(fs, f)
<1>1. ASSUME NEW i \in 1 .. Len(gs) - 1, gs[i].kind # "base", IsBody(gs[i + 1])
      PROVE  /\ StandsAtCall(gs[i], gs[i + 1].mod)
             /\ \A k \in DOMAIN ls : ls[k].mod = gs[i + 1].mod => ls[k].saved = Site(gs[i])
  <2>1. /\ gs[i] = fs[i]
        /\ \/ i \in 1 .. Len(fs) - 1 /\ gs[i + 1] = fs[i + 1]
           \/ fs # << >> /\ fs[i] = Last(fs) /\ gs[i + 1] = f
    BY AppendPairs
  <2> HIDE DEF gs
  <2>2. CASE i \in 1 .. Len(fs) - 1 /\ gs[i + 1] = fs[i + 1]
    BY <1>1, <2>1, <2>2 DEF Waiting
  <2>3. CASE fs # << >> /\ fs[i] = Last(fs) /\ gs[i + 1] = f
    BY <1>1, <2>1, <2>3
  <2> QED BY <2>1, <2>2, <2>3
<1> HIDE DEF gs
<1>2. Waiting(gs, ls)
  BY <1>1 DEF Waiting
<1> QED BY <1>2 DEF gs

(* A new loop is of a module that has no body yet.                         *)
LEMMA BegunWaiting ==
  ASSUME NEW fs \in Seq(Frames), NEW ls \in Seq(Loops), NEW ini,
         NEW l \in Loops, l.mod \notin ini,
         Waiting(fs, ls), EachHasLoop(fs, ls), Marked(fs, ls, ini)
  PROVE  Waiting(fs, Append(ls, l))
<1> DEFINE ks == Append(ls, l)
<1>1. \A k \in DOMAIN ks : (k \in DOMAIN ls /\ ks[k] = ls[k]) \/ ks[k] = l
  <2> DEFINE n == Len(ls)
  <2>1. /\ n \in Nat /\ DOMAIN ls = 1 .. n /\ DOMAIN ks = 1 .. n + 1
        /\ ks[n + 1] = l /\ \A k \in 1 .. n : ks[k] = ls[k]
    BY AppendProperties
  <2> HIDE DEF n, ks
  <2>2. \A k \in 1 .. n + 1 : k \in 1 .. n \/ k = n + 1
    BY <2>1
  <2> QED BY <2>1, <2>2
<1> HIDE DEF ks
<1>2. ASSUME NEW i \in 1 .. Len(fs) - 1, fs[i].kind # "base", IsBody(fs[i + 1])
      PROVE  /\ StandsAtCall(fs[i], fs[i + 1].mod)
             /\ \A k \in DOMAIN ks : ks[k].mod = fs[i + 1].mod => ks[k].saved = Site(fs[i])
  <2>1. /\ StandsAtCall(fs[i], fs[i + 1].mod)
        /\ \A k \in DOMAIN ls : ls[k].mod = fs[i + 1].mod => ls[k].saved = Site(fs[i])
    BY <1>2 DEF Waiting
  <2>2. i + 1 \in DOMAIN fs
    OBVIOUS
  <2>3. l.mod # fs[i + 1].mod
    BY <1>2, <2>2 DEF EachHasLoop, Marked
  <2> QED BY <1>1, <2>1, <2>3
<1>3. Waiting(fs, ks)
  BY <1>2 DEF Waiting
<1> QED BY <1>3 DEF ks

(* Where the program is the same, so are its calls.                        *)
LEMMA ArgumentsWaitNext ==
  ASSUME prog' = prog,
         \A t \in Threads : Argued(frames'[t], loops'[t], calling'[t], resval'[t])
  PROVE  ArgumentsWait'
<1>1. ASSUME NEW t \in Threads
      PROVE  Argued(frames[t], loops[t], calling[t], resval[t])'
  <2>1. /\ Kept(frames'[t]) /\ Waiting(frames'[t], loops'[t])
        /\ About(frames'[t], calling'[t], resval'[t])
    BY DEF Argued
  <2>2. Kept(frames[t])'
    BY <2>1 DEF Kept, StandsAtCall, Current, Code
  <2>3. Waiting(frames[t], loops[t])'
    BY <2>1 DEF Waiting, StandsAtCall, Current, Code
  <2>4. About(frames[t], calling[t], resval[t])'
    BY <2>1 DEF About, StandsAtCall, Current, Code
  <2> QED BY <2>2, <2>3, <2>4 DEF Argued
<1> QED BY <1>1 DEF ArgumentsWait

(* A step of one thread,                                                   *)
LEMMA OthersArgued ==
  ASSUME ArgumentsWait, prog' = prog, NEW t \in Threads,
         Argued(frames'[t], loops'[t], calling'[t], resval'[t]),
         \A u \in Threads \ {t} :
           /\ frames'[u] = frames[u] /\ loops'[u] = loops[u]
           /\ calling'[u] = calling[u] /\ resval'[u] = resval[u]
  PROVE  ArgumentsWait'
<1>1. ASSUME NEW u \in Threads
      PROVE  Argued(frames'[u], loops'[u], calling'[u], resval'[u])
  BY DEF ArgumentsWait
<1> QED BY <1>1, ArgumentsWaitNext

(* after which it is about to call no function of a module of the program. *)
LEMMA CutStep ==
  ASSUME Typed, ArgumentsWait, prog' = prog, loops' = loops,
         NEW t \in Threads, NEW gs \in Seq(Frames), Cut(gs, frames[t]),
         frames' = [frames EXCEPT ![t] = gs], calling'[t] \notin Modules,
         \A u \in Threads \ {t} : calling'[u] = calling[u] /\ resval'[u] = resval[u]
  PROVE  ArgumentsWait'
<1>1. /\ frames'[t] = gs /\ frames[t] \in Seq(Frames)
      /\ \A u \in Threads \ {t} : frames'[u] = frames[u]
  BY DEF Typed, TypeOK
<1>2. Kept(frames[t]) /\ Waiting(frames[t], loops[t])
  BY DEF ArgumentsWait, Argued
<1>3. Kept(gs) /\ Waiting(gs, loops[t])
  BY <1>1, <1>2, CutArgued
<1>4. About(gs, calling'[t], resval'[t])
  BY DEF About
<1> QED BY <1>1, <1>3, <1>4, OthersArgued DEF Argued

(* A thread that is about to call no function of the program.              *)
LEMMA NoModules ==
  /\ None \notin Modules /\ "sync" \notin Modules /\ "error" \notin Modules
  /\ "await" \notin Modules
BY ModuleInitAssumption DEF Library

(* CALL: the register names the call at which the block stands.            *)
LEMMA CallArgued ==
  ASSUME Typed, ArgumentsWait, NEW t \in Threads, Call(t)
  PROVE  ArgumentsWait'
<1>1. /\ frames[t] # << >> /\ Top(t).at \in DOMAIN Code(Top(t))
      /\ Current(Top(t)).op = "call"
  BY AtStepType DEF Call, AtStep
<1>2. /\ calling' = [calling EXCEPT ![t] = Current(Top(t)).mod]
      /\ resval' = [resval EXCEPT ![t] = Site(Top(t))]
      /\ UNCHANGED << prog, frames, loops >>
  BY DEF Call
<1>3. /\ calling'[t] = Current(Top(t)).mod /\ resval'[t] = Site(Top(t))
      /\ \A u \in Threads \ {t} : calling'[u] = calling[u] /\ resval'[u] = resval[u]
  BY <1>2 DEF Typed, TypeOK
<1>4. About(frames[t], calling'[t], resval'[t])
  BY <1>1, <1>3 DEF About, StandsAtCall, Top
<1>5. Kept(frames[t]) /\ Waiting(frames[t], loops[t])
  BY DEF ArgumentsWait, Argued
<1> QED BY <1>2, <1>3, <1>4, <1>5, OthersArgued DEF Argued

(* The ends of calls and of threads, errors, and waiting.                  *)
LEMMA CutsArgued ==
  ASSUME Typed, ArgumentsWait, NEW t \in Threads,
         \/ CallMethod(t) \/ Wait(t) \/ Waited(t) \/ StartNone(t)
         \/ Exit(t) \/ Abort(t) \/ Return(t) \/ Raise(t)
  PROVE  ArgumentsWait'
<1> DEFINE fs == frames[t]
<1>1. /\ TypeOK /\ fs \in Seq(Frames) /\ Cut(fs, fs)
      /\ frames = [frames EXCEPT ![t] = fs]
  BY CutSelf DEF Typed, TypeOK
<1>2. UNCHANGED << prog, loops >>
  BY DEF CallMethod, Wait, Waited, StartNone, Exit, Abort, Return, Raise, Ended
<1>3. calling'[t] \notin Modules
      /\ \A u \in Threads \ {t} : calling'[u] = calling[u] /\ resval'[u] = resval[u]
  <2>1. CASE CallMethod(t) \/ Wait(t) \/ Waited(t) \/ StartNone(t)
    BY <1>1, <2>1, NoModules DEF CallMethod, Wait, Waited, StartNone, TypeOK
  <2>2. CASE Exit(t) \/ Abort(t) \/ Return(t)
    <3>1. calling[t] = None /\ calling' = calling /\ resval' = resval
      BY <2>2 DEF Exit, Abort, Return, Exits, Ended, Ready
    <3> QED BY <3>1, NoModules
  <2>3. CASE Raise(t)
    <3>1. calling[t] = None
      BY <2>3 DEF Raise, AtStep, Ready
    <3>2. /\ calling' = calling \/ calling' = [calling EXCEPT ![t] = "error"]
          /\ resval' = [resval EXCEPT ![t] = Site(Top(t))]
      BY <2>3 DEF Raise
    <3> QED BY <1>1, <3>1, <3>2, NoModules DEF TypeOK
  <2> QED BY <2>1, <2>2, <2>3
<1>4. \E gs \in Seq(Frames) : Cut(gs, fs) /\ frames' = [frames EXCEPT ![t] = gs]
  <2>1. CASE CallMethod(t) \/ Wait(t) \/ Exit(t) \/ Abort(t)
    <3>1. frames' = [frames EXCEPT ![t] = fs]
      BY <1>1, <2>1 DEF CallMethod, Wait, Exit, Abort, Ended
    <3> QED BY <1>1, <3>1
  <2>2. CASE Waited(t) \/ StartNone(t)
    <3>1. state[t] = "running" /\ calling[t] \in {"sync", "await"}
      BY <2>2 DEF StartNone, Waited, InMethod, MayLock, Runs
    <3>2. fs # << >>
      BY <3>1 DEF Typed, Standing
    <3>3. Advanced(fs) \in Seq(Frames) /\ Cut(Advanced(fs), fs)
      BY <1>1, <3>2, AdvancedType, CutAdvanced
    <3> QED BY <2>2, <3>3 DEF Waited, StartNone
  <2>3. CASE Return(t)
    <3> DEFINE rest == Popped(fs)
    <3>1. fs # << >> /\ rest \in Seq(Frames) /\ rest # << >>
      BY <2>3, ReturnTop
    <3>2. Cut(rest, fs)
      BY <1>1, <3>1, CutPopped
    <3>3. Advanced(rest) \in Seq(Frames) /\ Cut(Advanced(rest), fs)
      BY <1>1, <3>1, <3>2, AdvancedType, CutAdvanced
    <3>4. \/ frames' = [frames EXCEPT ![t] = rest]
          \/ frames' = [frames EXCEPT ![t] = Advanced(rest)]
      BY <2>3 DEF Return, Ended
    <3> HIDE DEF rest, fs
    <3> QED BY <3>1, <3>2, <3>3, <3>4
  <2>4. CASE Raise(t)
    <3>1. fs # << >> /\ Len(fs) \in Nat \ {0}
      BY <2>4, AtStepType, TopType DEF Raise, Typed
    <3>2. CASE \E i \in Handlers(fs) :
                 frames' = [frames EXCEPT ![t] = Advanced(SubSeq(fs, 1, i))]
      <4>1. PICK i \in DOMAIN fs :
              frames' = [frames EXCEPT ![t] = Advanced(SubSeq(fs, 1, i))]
        BY <3>2 DEF Handlers
      <4> DEFINE hs == SubSeq(fs, 1, i)
      <4>2. hs \in Seq(Frames) /\ hs # << >> /\ Cut(hs, fs)
        BY <1>1, PrefixType, CutPrefix
      <4> HIDE DEF hs, fs
      <4>3. Advanced(hs) \in Seq(Frames) /\ Cut(Advanced(hs), fs)
        BY <1>1, <4>2, AdvancedType, CutAdvanced
      <4> QED BY <4>1, <4>3 DEF hs
    <3>3. CASE frames' = [frames EXCEPT ![t] = << Head(fs) >>]
      <4>1. 1 \in DOMAIN fs /\ << Head(fs) >> = SubSeq(fs, 1, 1)
        BY <1>1, <3>1
      <4>2. SubSeq(fs, 1, 1) \in Seq(Frames) /\ Cut(SubSeq(fs, 1, 1), fs)
        BY <1>1, <4>1, PrefixType, CutPrefix
      <4> QED BY <3>3, <4>1, <4>2
    <3> QED BY <2>4, <3>2, <3>3 DEF Raise
  <2> QED BY <2>1, <2>2, <2>3, <2>4
<1> QED BY <1>2, <1>3, <1>4, CutStep

(* A function begins with the register for its argument.                   *)
LEMMA EnterArgued ==
  ASSUME Typed, ArgumentsWait, NEW t \in Threads, Enter(t)
  PROVE  ArgumentsWait'
<1> DEFINE fs == frames[t]
           m == calling[t]
           f == Frame("fn", m, resval[t])
<1>1. /\ fs \in Seq(Frames) /\ resval[t] \in Values /\ m \in Modules \cup {"error"}
      /\ m = "error" => Len(fs) = 1
      /\ Placed(fs)
  <2>1. TypeOK /\ Standing(t) /\ Placed(fs) /\ m \in initialized \ {"sync"}
    BY DEF Typed, Enter
  <2>2. fs \in Seq(Frames) /\ resval[t] \in Values /\ m \in Modules \cup {"error"}
    BY <2>1 DEF TypeOK, Library
  <2>3. m = "error" => Len(fs) = 1
    BY <2>1 DEF Standing
  <2> QED BY <2>1, <2>2, <2>3
<1>2. /\ frames' = [frames EXCEPT ![t] = Append(fs, f)]
      /\ calling' = [calling EXCEPT ![t] = None]
      /\ UNCHANGED << prog, loops, resval >>
  BY DEF Enter, Entered
<1>3. /\ f \in Frames /\ f.kind = "fn" /\ f.mod = m /\ f.arg = resval[t]
  <2>1. "fn" \in Kinds
    BY DEF Kinds
  <2>2. f.arg = resval[t]
    BY DEF Frame
  <2> QED BY <1>1, <2>1, <2>2, FrameType
<1>4. Kept(fs) /\ Waiting(fs, loops[t]) /\ About(fs, m, resval[t])
  BY DEF ArgumentsWait, Argued
<1>5. /\ frames'[t] = Append(fs, f) /\ calling'[t] = None
      /\ \A u \in Threads \ {t} : frames'[u] = frames[u] /\ calling'[u] = calling[u]
  BY <1>2 DEF Typed, TypeOK
<1> HIDE DEF fs, m, f
<1>6. fs # << >> /\ Last(fs).kind # "base" => m \in Modules
  <2> SUFFICES ASSUME fs # << >>, m = "error" PROVE Last(fs).kind = "base"
    BY <1>1
  <2>1. fs \in Seq(Frames) /\ Len(fs) = 1
    BY <1>1
  <2>2. Last(fs) = fs[1]
    BY <2>1 DEF Last
  <2>3. 1 \in DOMAIN fs
    BY <2>1
  <2> QED BY <1>1, <2>2, <2>3 DEF Placed
<1>7. Kept(Append(fs, f))
  BY <1>1, <1>3, <1>4, <1>6, AppendKept DEF About
<1>8. Waiting(Append(fs, f), loops[t])
  <2>1. ~IsBody(f)
    BY <1>3 DEF IsBody
  <2> QED BY <1>1, <1>3, <1>4, <2>1, AppendWaiting
<1>9. About(frames'[t], calling'[t], resval'[t])
  BY <1>5, NoModules DEF About
<1> QED BY <1>2, <1>5, <1>7, <1>8, <1>9, OthersArgued DEF Argued

(* A body begins above the call, its loop with the register.               *)
LEMMA BeginBodyArgued ==
  ASSUME Typed, Ordered, ArgumentsWait, NEW t \in Threads, BeginBody(t)
  PROVE  ArgumentsWait'
<1> DEFINE fs == frames[t]
           ls == loops[t]
           m == calling[t]
           f == Frame("body", m, None)
           l == Loop(m, resval[t])
           ks == Append(ls, l)
<1>1. /\ fs \in Seq(Frames) /\ ls \in Seq(Loops) /\ resval[t] \in Values
      /\ m \in Modules /\ m \notin initialized
      /\ EachHasLoop(fs, ls) /\ Marked(fs, ls, initialized)
  BY DEF Typed, TypeOK, Ordered, BeginBody
<1>2. /\ frames' = [frames EXCEPT ![t] = Append(fs, f)]
      /\ loops' = [loops EXCEPT ![t] = ks]
      /\ calling' = [calling EXCEPT ![t] = None]
      /\ UNCHANGED << prog, resval >>
  BY DEF BeginBody
<1>3. f \in Frames /\ f.kind = "body" /\ f.mod = m
  BY <1>1, FrameType DEF Kinds, Values
<1>4. l \in Loops /\ l.mod = m /\ l.saved = resval[t]
  BY <1>1 DEF Loop, Loops
<1>5. Kept(fs) /\ Waiting(fs, ls) /\ About(fs, m, resval[t])
  BY DEF ArgumentsWait, Argued
<1>6. /\ frames'[t] = Append(fs, f) /\ loops'[t] = ks /\ calling'[t] = None
      /\ \A u \in Threads \ {t} :
           frames'[u] = frames[u] /\ loops'[u] = loops[u] /\ calling'[u] = calling[u]
  BY <1>2 DEF Typed, TypeOK
<1>7. \A k \in DOMAIN ks : ks[k].mod = m => ks[k].saved = resval[t]
  <2> DEFINE n == Len(ls)
  <2> HIDE DEF m, l, ls
  <2>1. /\ n \in Nat /\ DOMAIN ls = 1 .. n /\ DOMAIN ks = 1 .. n + 1
        /\ ks[n + 1] = l /\ \A k \in 1 .. n : ks[k] = ls[k]
    BY <1>1, <1>4, AppendProperties
  <2> HIDE DEF n, ks
  <2>2. \A k \in 1 .. n + 1 : k \in 1 .. n \/ k = n + 1
    BY <2>1
  <2>3. \A k \in 1 .. n : ls[k].mod # m
    BY <1>1, <2>1 DEF Marked
  <2> QED BY <1>4, <2>1, <2>2, <2>3
<1> HIDE DEF fs, ls, m, f, l
<1>8. Waiting(fs, ks)
  BY <1>1, <1>4, <1>5, BegunWaiting
<1> HIDE DEF ks
<1>9. Waiting(Append(fs, f), ks)
  BY <1>1, <1>3, <1>5, <1>7, <1>8, AppendWaiting DEF About
<1>10. Kept(Append(fs, f))
  BY <1>1, <1>3, <1>5, AppendKept
<1>11. About(frames'[t], calling'[t], resval'[t])
  BY <1>6, NoModules DEF About
<1> QED BY <1>2, <1>6, <1>9, <1>10, <1>11, OthersArgued DEF Argued

(* A loop ends: the block that goes is a body with the same caller as the  *)
(* function that comes, or stands on the base.                             *)
LEMMA EndLoopArgued ==
  ASSUME Typed, ArgumentsWait, NEW t \in Threads, EndLoop(t)
  PROVE  ArgumentsWait'
<1> DEFINE fs == frames[t]
           n == Len(fs)
           ps == Popped(fs)
           ls == loops[t]
           ks == Front(ls)
           l == Last(ls)
           f == Frame("fn", l.mod, l.saved)
<1>1. /\ TypeOK /\ fs \in Seq(Frames) /\ fs # << >> /\ ls \in Seq(Loops) /\ ls # << >>
      /\ n \in Nat /\ n > 1 /\ Placed(fs) /\ calling[t] = None
      /\ Top(t).kind = "fn" => Top(t).mod = "error"
  BY DEF Typed, TypeOK, EndLoop, Exits, EndsWithRet, Ready
<1>2. /\ frames' = [frames EXCEPT ![t] = Append(ps, f)]
      /\ loops' = [loops EXCEPT ![t] = ks]
      /\ resval' = [resval EXCEPT ![t] = l.saved]
      /\ UNCHANGED << prog, calling >>
  BY DEF EndLoop, Entered
<1>3. /\ l \in Loops /\ l = ls[Len(ls)] /\ Len(ls) \in DOMAIN ls
      /\ \A k \in DOMAIN ks : k \in DOMAIN ls /\ ks[k] = ls[k]
  BY <1>1, LastLoop
<1>4. /\ f \in Frames /\ f.kind = "fn" /\ f.mod = l.mod /\ f.arg = l.saved
  <2>1. "fn" \in Kinds /\ l.mod \in Modules /\ l.saved \in Values
    BY <1>3 DEF Kinds, Loops
  <2>2. f.arg = l.saved
    BY DEF Frame
  <2> QED BY <2>1, <2>2, FrameType
<1>5. Kept(fs) /\ Waiting(fs, ls)
  BY DEF ArgumentsWait, Argued
<1>6. /\ ps \in Seq(Frames) /\ Len(ps) = n - 1 /\ Cut(ps, fs)
      /\ \A i \in DOMAIN ps : ps[i] = fs[i]
  BY <1>1, PoppedType, CutPopped
<1>7. /\ frames'[t] = Append(ps, f) /\ loops'[t] = ks /\ calling'[t] = None
      /\ \A u \in Threads \ {t} :
           /\ frames'[u] = frames[u] /\ loops'[u] = loops[u]
           /\ calling'[u] = calling[u] /\ resval'[u] = resval[u]
  BY <1>1, <1>2 DEF TypeOK
<1>8. Top(t) = fs[n]
  BY <1>1, TopType
<1> HIDE DEF fs, n, ps, ls, ks, l, f
<1>9. Kept(ps) /\ Waiting(ps, ks)
  BY <1>1, <1>3, <1>5, <1>6, CutArgued
<1>10. ASSUME Last(ps).kind # "base", StandsAtCall(Last(ps), l.mod)
       PROVE  l.saved = Site(Last(ps))
  <2> DEFINE i == n - 1
  <2>1. i \in Nat \ {0} /\ i + 1 = n
    BY <1>1
  <2>2. i \in 1 .. n - 1 /\ n \in 1 .. n
    BY <1>1
  <2> HIDE DEF i
  <2>3. Last(ps) = fs[i] /\ i \in DOMAIN fs /\ n \in DOMAIN fs
    BY <1>1, <1>6, <2>1, <2>2 DEF Last, i, n
  <2>4. i # 1
    BY <1>1, <1>10, <2>3 DEF Placed
  <2>5. n # 1 /\ n # 2
    BY <1>1, <2>1, <2>4
  <2>6. fs[n] \in Frames
    BY <1>1, <2>3
  <2>7. IsBody(fs[n])
    BY <1>1, <1>8, <2>3, <2>5, <2>6 DEF Placed, IsBody, Frames, Kinds
  <2>8. /\ StandsAtCall(fs[i], fs[n].mod)
        /\ \A k \in DOMAIN ls : ls[k].mod = fs[n].mod => ls[k].saved = Site(fs[i])
    BY <1>5, <1>10, <2>1, <2>2, <2>3, <2>7 DEF Waiting, n
  <2>9. fs[n].mod = l.mod
    BY <1>10, <2>3, <2>8 DEF StandsAtCall
  <2> QED BY <1>3, <2>3, <2>8, <2>9
<1>11. Kept(Append(ps, f))
  BY <1>4, <1>6, <1>9, <1>10, AppendKept
<1>12. Waiting(Append(ps, f), ks)
  <2>1. ~IsBody(f)
    BY <1>4 DEF IsBody
  <2> QED BY <1>4, <1>6, <1>9, <2>1, AppendWaiting
<1>13. About(frames'[t], calling'[t], resval'[t])
  BY <1>7, NoModules DEF About
<1> QED BY <1>2, <1>7, <1>11, <1>12, <1>13, OthersArgued DEF Argued

(* A new thread calls from its base.                                       *)
LEMMA StartArgued ==
  ASSUME Typed, ArgumentsWait, NEW t \in Threads, Start(t)
  PROVE  ArgumentsWait'
<1>1. PICK u \in Threads, m \in Modules :
        /\ u # t /\ frames[t] # << >>
        /\ frames' = [frames EXCEPT ![t] = Advanced(@), ![u] = << Base(m) >>]
        /\ calling' = [calling EXCEPT ![t] = None, ![u] = m]
        /\ resval' = [resval EXCEPT ![u] = Site(Top(t))]
  BY StartFrames
<1> DEFINE fs == frames[t]
           gs == Advanced(fs)
           hs == << Base(m) >>
<1>2. prog' = prog /\ loops' = loops /\ TypeOK /\ fs \in Seq(Frames) /\ fs # << >>
  BY <1>1 DEF Start, Typed, TypeOK
<1>3. gs \in Seq(Frames) /\ Cut(gs, fs)
  BY <1>2, AdvancedType, CutSelf, CutAdvanced
<1>4. Len(hs) = 1 /\ Last(hs).kind = "base"
  BY BaseType DEF Last
<1> HIDE DEF gs, hs
<1>5. /\ frames'[t] = gs /\ calling'[t] = None /\ frames'[u] = hs
      /\ \A v \in Threads \ {t, u} :
           frames'[v] = frames[v] /\ calling'[v] = calling[v] /\ resval'[v] = resval[v]
  BY <1>1, <1>2 DEF TypeOK, gs, hs
<1> HIDE DEF fs
<1>6. Kept(fs) /\ Waiting(fs, loops[t])
  BY DEF ArgumentsWait, Argued, fs
<1>7. Kept(gs) /\ Waiting(gs, loops[t])
  BY <1>2, <1>3, <1>6, CutArgued
<1>8. Kept(hs) /\ Waiting(hs, loops[u])
  BY <1>4 DEF Kept, Waiting
<1>9. About(gs, calling'[t], resval'[t]) /\ About(hs, calling'[u], resval'[u])
  BY <1>4, <1>5, NoModules DEF About
<1>10. ASSUME NEW v \in Threads
       PROVE  Argued(frames'[v], loops'[v], calling'[v], resval'[v])
  <2>1. CASE v = t
    BY <1>2, <1>5, <1>7, <1>9, <2>1 DEF Argued
  <2>2. CASE v = u
    BY <1>2, <1>5, <1>8, <1>9, <2>2 DEF Argued
  <2>3. CASE v \notin {t, u}
    BY <1>2, <1>5, <2>3 DEF ArgumentsWait
  <2> QED BY <2>1, <2>2, <2>3
<1> QED BY <1>2, <1>10, ArgumentsWaitNext

(* Every step keeps the arguments.                                         *)
LEMMA NextArgued == Typed /\ Ordered /\ ArgumentsWait /\ [Next]_vars => ArgumentsWait'
<1> SUFFICES ASSUME Typed, Ordered, ArgumentsWait, [Next]_vars PROVE ArgumentsWait'
  OBVIOUS
<1>1. CASE \E t \in Threads : Act(t)
  <2>1. PICK t \in Threads : Act(t)
    BY <1>1
  <2>2. CASE \/ CallMethod(t) \/ Wait(t) \/ Waited(t) \/ StartNone(t)
             \/ Exit(t) \/ Abort(t) \/ Return(t) \/ Raise(t)
    BY <2>2, CutsArgued
  <2>3. CASE Call(t) \/ Enter(t) \/ BeginBody(t) \/ EndLoop(t) \/ Start(t)
    BY <2>3, CallArgued, EnterArgued, BeginBodyArgued, EndLoopArgued, StartArgued
  <2> QED BY <2>1, <2>2, <2>3 DEF Act
<1>2. CASE UNCHANGED vars
  <2>1. UNCHANGED << prog, frames, loops, calling, resval >>
    BY <1>2 DEF vars, thread
  <2> QED BY <2>1, ArgumentsWaitNext DEF ArgumentsWait
<1> QED BY <1>1, <1>2 DEF Next, AtRest

-----------------------------------------------------------------------------
(* Who waits for whom.                                                     *)

(* Threads do not wait for each other in a circle: of any threads one      *)
(* started its last Thread outside of them, or none.                       *)
Acyclic == \A S \in SUBSET Threads : S # {} => \E t \in S : child[t] \notin S

(* A thread that was started has a code, one that was not has no Thread of *)
(* its own; one with a nested loop has not come to its end.                *)
Settled ==
  /\ Acyclic
  /\ \A t \in Threads :
       /\ state[t] = "idle" => child[t] = None
       /\ child[t] # None => state[child[t]] # "idle"
       /\ loops[t] # << >> => state[t] \in {"running", "aborted"}

(* Steps that start no Thread: no thread becomes idle, none has another    *)
(* child, and loops begin and end in a running thread.                     *)
LEMMA NoStartSettled ==
  ASSUME TypeOK, Settled, child' = child,
         \A t \in Threads : state[t] = "idle" <=> state'[t] = "idle",
         \A t \in Threads : loops'[t] # << >> => state'[t] \in {"running", "aborted"}
  PROVE  Settled'
<1>1. Acyclic'
  BY DEF Settled, Acyclic
<1>2. ASSUME NEW t \in Threads
      PROVE  /\ state'[t] = "idle" => child'[t] = None
             /\ child'[t] # None => state'[child'[t]] # "idle"
  <2>1. child[t] \in Threads \cup {None}
    BY DEF TypeOK
  <2> QED BY <2>1 DEF Settled
<1> QED BY <1>1, <1>2 DEF Settled

(* A loop begins or ends in a thread that runs and goes on.                *)
LEMMA LoopSettled ==
  ASSUME TypeOK, Settled, NEW t \in Threads, BeginBody(t) \/ EndLoop(t)
  PROVE  Settled'
<1>1. /\ state[t] = "running" /\ UNCHANGED << state, child >>
      /\ \A u \in Threads \ {t} : loops'[u] = loops[u]
  BY DEF BeginBody, EndLoop, MayLock, Exits, Ready, Runs, TypeOK
<1>2. \A u \in Threads : loops'[u] # << >> => state'[u] \in {"running", "aborted"}
  BY <1>1 DEF Settled
<1> QED BY <1>1, <1>2, NoStartSettled

(* The thread that ends has no loop; the one that fails an ASSERT keeps it.*)
LEMMA EndSettled ==
  ASSUME TypeOK, Settled, NEW t \in Threads, Exit(t) \/ Abort(t) \/ Return(t)
  PROVE  Settled'
<1>1. state[t] = "running" /\ UNCHANGED << loops, child >>
  BY DEF Exit, Abort, Return, Ended, Exits, Ready, Runs
<1>2. \/ state' = state
      \/ state' = [state EXCEPT ![t] = "aborted"]
      \/ state' = [state EXCEPT ![t] = "ended"] /\ loops[t] = << >>
  BY DEF Exit, Abort, Return, Ended
<1>3. \A u \in Threads : u # t => state'[u] = state[u]
  BY <1>2 DEF TypeOK
<1>4. \/ state'[t] \in {"running", "aborted"}
      \/ state'[t] = "ended" /\ loops[t] = << >>
  BY <1>1, <1>2 DEF TypeOK
<1> QED BY <1>1, <1>3, <1>4, NoStartSettled DEF Settled

(* The new Thread has started none itself, so it closes no circle.         *)
LEMMA StartSettled ==
  ASSUME TypeOK, Settled, NEW t \in Threads, Start(t)
  PROVE  Settled'
<1>1. PICK u \in Fresh :
        /\ state' = [state EXCEPT ![u] = "running"]
        /\ child' = [child EXCEPT ![t] = u]
  BY DEF Start
<1>2. /\ u \in Threads /\ u # t /\ u # None /\ state[u] = "idle"
      /\ loops' = loops /\ state[t] = "running"
  BY <1>1, ModuleInitAssumption DEF Fresh, Start, InMethod, MayLock, Runs
<1>3. /\ child'[t] = u /\ state'[u] = "running"
      /\ \A v \in Threads : v # t => child'[v] = child[v]
      /\ \A v \in Threads : v # u => state'[v] = state[v]
  BY <1>1, <1>2 DEF TypeOK
<1>4. child'[u] = None
  BY <1>2, <1>3 DEF Settled
<1>5. ASSUME NEW S \in SUBSET Threads, S # {}
      PROVE  \E v \in S : child'[v] \notin S
  <2>1. CASE u \in S
    BY <1>4, <2>1, ModuleInitAssumption
  <2>2. CASE u \notin S
    <3>1. PICK v \in S : child[v] \notin S
      BY <1>5 DEF Settled, Acyclic
    <3>2. child'[v] = child[v] \/ child'[v] = u
      BY <1>3, <3>1
    <3> QED BY <2>2, <3>1, <3>2
  <2> QED BY <2>1, <2>2
<1>6. ASSUME NEW v \in Threads
      PROVE  /\ state'[v] = "idle" => child'[v] = None
             /\ child'[v] # None => state'[child'[v]] # "idle"
             /\ loops'[v] # << >> => state'[v] \in {"running", "aborted"}
  <2>1. child[v] \in Threads \cup {None}
    BY DEF TypeOK
  <2>2. CASE v = t
    BY <1>2, <1>3, <2>2 DEF Settled
  <2>3. CASE v # t
    <3>1. state'[v] = "idle" => child'[v] = None
      BY <1>2, <1>3, <2>3 DEF Settled
    <3>2. child'[v] # None => state'[child'[v]] # "idle"
      BY <1>2, <1>3, <2>1, <2>3 DEF Settled
    <3>3. loops'[v] # << >> => state'[v] \in {"running", "aborted"}
      BY <1>2, <1>3, <2>3 DEF Settled
    <3> QED BY <3>1, <3>2, <3>3
  <2> QED BY <2>2, <2>3
<1> QED BY <1>5, <1>6 DEF Settled, Acyclic

(* Every step keeps who waits for whom free of circles.                    *)
LEMMA NextSettled == TypeOK /\ Settled /\ [Next]_vars => Settled'
<1> SUFFICES ASSUME TypeOK, Settled, [Next]_vars PROVE Settled'
  OBVIOUS
<1>1. ASSUME UNCHANGED << state, loops, child >>
      PROVE  Settled'
  BY <1>1, NoStartSettled DEF Settled
<1>2. CASE \E t \in Threads : Act(t)
  <2>1. PICK t \in Threads : Act(t)
    BY <1>2
  <2>2. CASE Call(t) \/ Enter(t) \/ Raise(t) \/ CallMethod(t) \/ StartNone(t) \/ Wait(t) \/ Waited(t)
    BY <1>1, <2>2 DEF Call, Enter, Raise, CallMethod, StartNone, Wait, Waited
  <2> QED BY <2>1, <2>2, LoopSettled, EndSettled, StartSettled DEF Act
<1>3. CASE UNCHANGED vars
  BY <1>1, <1>3 DEF vars, thread
<1> QED BY <1>2, <1>3 DEF Next, AtRest

(* At first no Thread has been started by another.                         *)
LEMMA InitSettled == Init => Settled
<1> SUFFICES ASSUME Init PROVE Settled
  OBVIOUS
<1>1. /\ \A t \in Threads : child[t] = None /\ loops[t] = << >>
      /\ None \notin Threads
  BY ModuleInitAssumption DEF Init
<1> QED BY <1>1 DEF Settled, Acyclic

(* When every running thread waits, the owner of the mutex waits for a     *)
(* Thread: without an owner only Threads are waited for, which run and     *)
(* wait in their turn, in a circle.                                        *)
LEMMA StuckBehindOwner ==
  ASSUME TypeOK, HeldByLoops, Settled
  PROVE  StuckOnlyBehindABody
<1> SUFFICES ASSUME \A t \in Threads : Runs(t) => Blocked(t),
                    NEW r \in Threads, Runs(r)
             PROVE  owner # None /\ calling[owner] = "await"
  BY DEF StuckOnlyBehindABody, AllBlocked
<1>1. \A t \in Threads : state[t] = "running" => Runs(t)
  BY DEF Runs
<1>2. CASE owner # None
  <2>1. owner \in Threads
    BY <1>2 DEF TypeOK
  <2>2. state[owner] = "running"
    BY <2>1 DEF Settled, HeldByLoops, Runs
  <2> QED BY <1>1, <1>2, <2>1, <2>2 DEF Blocked, WaitsForMutex, WaitsForThread
<1>3. CASE owner = None
  <2> DEFINE S == {t \in Threads : state[t] = "running"}
  <2>1. r \in S
    BY DEF Runs
  <2>2. PICK t \in S : child[t] \notin S
    BY <2>1 DEF Settled, Acyclic
  <2>3. WaitsForThread(t)
    BY <1>1, <1>3, <2>2 DEF Blocked, WaitsForMutex
  <2>4. child[t] \in Threads /\ state[child[t]] # "idle"
    BY <2>2, <2>3 DEF WaitsForThread, TypeOK, Settled
  <2>5. state[child[t]] = "running"
    BY <2>3, <2>4 DEF WaitsForThread, Runs, TypeOK
  <2> QED BY <2>2, <2>4, <2>5
<1> QED BY <1>2, <1>3

-----------------------------------------------------------------------------
(* The theorems.                                                           *)

(* The main thread starts in its body, which is no body of a loop.         *)
LEMMA InitIInv == Init => IInv
<1> SUFFICES ASSUME Init PROVE IInv
  OBVIOUS
<1>1. Typed
  BY InitTyped
<1>2. HeldByLoops
  BY ModuleInitAssumption DEF Init, HeldByLoops
<1>3. ASSUME NEW t \in Threads
      PROVE  \A i \in DOMAIN frames[t] : ~IsBody(frames[t][i]) /\ frames[t][i].kind # "fn"
  <2>1. frames[t] \in {<< >>, << Base("main"), Frame("body", "main", None) >>}
    BY DEF Init
  <2>2. /\ Base("main").kind = "base"
        /\ Frame("body", "main", None).kind = "body"
        /\ Frame("body", "main", None).mod = "main"
    BY DEF Base, Frame
  <2> QED BY <2>1, <2>2 DEF IsBody
<1>4. Ordered
  <2>1. \A t \in Threads : loops[t] = << >>
    BY DEF Init
  <2> QED BY <1>3, <2>1 DEF Ordered, EachHasLoop, InOrder, Marked
<1>5. Prepared
  BY <1>3 DEF Prepared
<1>6. ArgumentsWait
  <2> SUFFICES ASSUME NEW t \in Threads
               PROVE  Argued(frames[t], loops[t], calling[t], resval[t])
    BY DEF ArgumentsWait
  <2>1. frames[t] \in Seq(Frames) /\ calling[t] = None
    BY <1>1 DEF Typed, TypeOK, Init
  <2>2. \A i \in 1 .. Len(frames[t]) - 1 : i + 1 \in DOMAIN frames[t]
    BY <2>1
  <2>3. Kept(frames[t]) /\ Waiting(frames[t], loops[t])
    BY <1>3, <2>2 DEF Kept, Waiting
  <2> QED BY <2>1, <2>3, NoModules DEF Argued, About
<1> QED BY <1>1, <1>2, <1>4, <1>5, <1>6 DEF IInv

(* IInv holds in every reachable state: types, who holds the mutex, the    *)
(* order of bodies and loops, that bodies are left undisturbed, and which  *)
(* arguments the waiting calls get.                                        *)
THEOREM Invariance == Spec => []IInv
<1>1. IInv /\ [Next]_vars => IInv'
  <2> SUFFICES ASSUME IInv, [Next]_vars PROVE IInv'
    OBVIOUS
  <2>1. Typed /\ HeldByLoops /\ Ordered
    BY DEF IInv
  <2>2. Typed'
    BY <2>1, NextTyped
  <2>3. HeldByLoops'
    BY <2>1, NextHeld
  <2>4. Ordered'
    BY <2>1, <2>2, NextOrdered
  <2>5. Prepared'
    BY <2>2, <2>3, NextPrepared
  <2>6. ArgumentsWait'
    BY <2>1, NextArgued DEF IInv
  <2> QED BY <2>2, <2>3, <2>4, <2>5, <2>6 DEF IInv
<1> QED BY <1>1, InitIInv, PTL DEF Spec

(* The variables keep their types.                                         *)
THEOREM TypeCorrect == Spec => []TypeOK
<1>1. IInv => TypeOK
  BY DEF IInv, Typed
<1> QED BY <1>1, Invariance, PTL

(* module_init_mutex is held by the thread that runs nested loops, once    *)
(* for each, whatever errors did to the frames.                            *)
THEOREM MutexHeldByLoops == Spec => []HeldByLoops
<1>1. IInv => HeldByLoops
  BY DEF IInv
<1> QED BY <1>1, Invariance, PTL

(* No function of a module runs in one thread while another runs its body. *)
THEOREM BodiesUndisturbed == Spec => []Prepared
<1>1. IInv => Prepared
  BY DEF IInv
<1> QED BY <1>1, Invariance, PTL

(* A function gets the argument of the call that waits for it, whatever    *)
(* bodies ran in between and however they ended.                           *)
THEOREM ArgumentsKept == Spec => []ArgumentKept
<1>1. IInv => ArgumentKept
  <2> SUFFICES ASSUME IInv, NEW t \in Threads PROVE Kept(frames[t])
    BY DEF ArgumentKept, Kept
  <2> QED BY DEF IInv, ArgumentsWait, Argued
<1> QED BY <1>1, Invariance, PTL

(* When no thread can move, the thread that owns the mutex awaits a Thread *)
(* in the body of a module: threads do not wait for the mutex without an   *)
(* owner that runs, and never for each other in a circle.                  *)
THEOREM NoDeadlockElsewhere == Spec => []StuckOnlyBehindABody
<1>1. Init => Settled
  BY InitSettled
<1>2. IInv /\ Settled /\ [Next]_vars => Settled'
  BY NextSettled DEF IInv, Typed
<1>3. IInv /\ Settled => StuckOnlyBehindABody
  BY StuckBehindOwner DEF IInv, Typed
<1> QED BY <1>1, <1>2, <1>3, Invariance, PTL DEF Spec
=============================================================================
