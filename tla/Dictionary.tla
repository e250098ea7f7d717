----------------------------- MODULE Dictionary -----------------------------
(***************************************************************************)
(* What the map and the set promise (datastructure/set.h): insert answers  *)
(* whether the key was not there yet, lookup and remove whether it was,    *)
(* and the content changes accordingly at one moment of the call.          *)
(***************************************************************************)
CONSTANTS Keys, NoKey

VARIABLES
  content,    \* the keys that are in the map
  call,       \* the operation under way, "none" between calls
  arg,        \* its key
  answer      \* its answer once it has taken effect, else "none"

vars == << content, call, arg, answer >>

Init ==
  /\ content = {}
  /\ call = "none"
  /\ arg = NoKey
  /\ answer = "none"

Invoke ==
  /\ call = "none"
  /\ call' \in {"insert", "lookup", "remove"}
  /\ arg' \in Keys
  /\ UNCHANGED << content, answer >>

YesNo(b) == IF b THEN "yes" ELSE "no"

TakeEffect ==
  /\ call # "none"
  /\ answer = "none"
  /\ \/ /\ call = "insert"
        /\ content' = content \cup {arg}
        /\ answer' = YesNo(arg \notin content)
     \/ /\ call = "lookup"
        /\ content' = content
        /\ answer' = YesNo(arg \in content)
     \/ /\ call = "remove"
        /\ content' = content \ {arg}
        /\ answer' = YesNo(arg \in content)
  /\ UNCHANGED << call, arg >>

Return ==
  /\ answer # "none"
  /\ call' = "none"
  /\ arg' = NoKey
  /\ answer' = "none"
  /\ UNCHANGED content

Next == Invoke \/ TakeEffect \/ Return

Spec == Init /\ [][Next]_vars
=============================================================================
