------------------------------ MODULE EvidenceLog ------------------------------
(***************************************************************************)
(* What an evidence store promises: a set of contents that only grows.     *)
(* Each publish is told, once, whether its content was added, was there    *)
(* already, cannot be kept because its address is occupied by other bytes, *)
(* or was not kept for want of a working file system.                      *)
(***************************************************************************)
CONSTANTS
  Calls,      \* the calls of publish()
  Content,    \* the content each of them publishes
  Damaged,    \* contents whose address is occupied by other bytes
  None        \* not told yet

VARIABLES
  held,       \* the contents that are kept
  told        \* what each call was told

logVars == <<held, told>>

Init ==
  /\ held = {}
  /\ told = [c \in Calls |-> None]

Tell(c, answer) ==
  /\ told[c] = None
  /\ told' = [told EXCEPT ![c] = answer]

Keep(c) ==
  /\ Content[c] \notin held \union Damaged
  /\ held' = held \union {Content[c]}
  /\ Tell(c, "CREATED")

Repeat(c) ==
  /\ Content[c] \in held
  /\ held' = held
  /\ Tell(c, "REPLAYED")

Refuse(c) ==
  /\ Content[c] \in Damaged
  /\ held' = held
  /\ Tell(c, "CONFLICT")

Fail(c) ==
  /\ held' = held
  /\ Tell(c, "FAILED")

Next == \E c \in Calls : Keep(c) \/ Repeat(c) \/ Refuse(c) \/ Fail(c)

Spec == Init /\ [][Next]_logVars
=============================================================================
