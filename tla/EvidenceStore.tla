----------------------------- MODULE EvidenceStore -----------------------------
(***************************************************************************)
(* OperationalRawEvidenceStore.publish(), on a root that several processes *)
(* share: the prematch, outcome, daily and settlement commands are started *)
(* by hand and by timers.  A process has one store; it may die at any      *)
(* await, and its pid may come back in a later process.                    *)
(*                                                                         *)
(*   idle --Start--> looking --Look--> opening --Open--> writing --Write-->*)
(*   linking --Link--> cleaning --Clean--> done                            *)
(*                                                                         *)
(* An inode is named after the call that created it, and a hard link is a  *)
(* second name of it.  Contents stand for their own hash and address.      *)
(***************************************************************************)
EXTENDS Integers

CONSTANTS
  Calls,         \* calls of publish()
  Processes,     \* their pids
  Content,       \* the content each call publishes
  Process,       \* the process each call is made by
  Unacceptable,  \* calls whose candidate fails the checks
  Damaged,       \* contents whose address is occupied by other bytes
  IOMayFail,     \* whether a call of the file system may fail
  MaxCrashes,    \* bound: processes that die
  None           \* no answer, no file

Contents == {Content[c] : c \in Calls}
Foreign  == "foreign bytes"

Dispositions == {"CREATED", "REPLAYED", "CONFLICT", "FAILED"}

ASSUME EvidenceAssumption ==
  /\ Content \in [Calls -> Contents]
  /\ Process \in [Calls -> Processes]
  /\ Unacceptable \subseteq Calls
  /\ Damaged \subseteq Contents
  /\ IOMayFail \in BOOLEAN
  /\ MaxCrashes \in Nat
  /\ Foreign \notin Calls
  /\ None \notin Calls \union Dispositions \union {Foreign}

VARIABLES
  pc,         \* where each call is awaiting
  answer,     \* what each call answers
  ticket,     \* the #temporarySequence in the name of each call's file
  sequence,   \* #temporarySequence of each process's store
  temporary,  \* the directory .temporary: the inodes that have a name in it
  published,  \* the directory sha256: the inode at each address
  file,       \* what each inode holds: None, "part" or "whole"
  crashes     \* processes that died

vars == <<pc, answer, ticket, sequence, temporary, published, file, crashes>>

Init ==
  /\ pc = [c \in Calls |-> "idle"]
  /\ answer = [c \in Calls |-> None]
  /\ ticket = [c \in Calls |-> 0]
  /\ sequence = [p \in Processes |-> 0]
  /\ temporary = {}
  /\ published = [h \in Contents |-> IF h \in Damaged THEN Foreign ELSE None]
  /\ file = [c \in Calls |-> None]
  /\ crashes = 0

(* `${contentHash}.${process.pid}.${this.#temporarySequence}.tmp`          *)
Name(c) == <<Content[c], Process[c], ticket[c]>>

(* The inode that the name of a call leads to, if there is one.            *)
Named(c) == {i \in temporary : Name(i) = Name(c)}

Go(c, from, to) ==
  /\ pc[c] = from
  /\ pc' = [pc EXCEPT ![c] = to]

Reply(c, disposition) == answer' = [answer EXCEPT ![c] = disposition]

Start(c) ==
  \/ /\ c \in Unacceptable
     /\ Go(c, "idle", "done")
     /\ Reply(c, "FAILED")
     /\ UNCHANGED <<ticket, sequence, temporary, published, file, crashes>>
  \/ /\ c \notin Unacceptable
     /\ Go(c, "idle", "looking")
     /\ UNCHANGED <<answer, ticket, sequence, temporary, published, file, crashes>>

(* Mutant of Found: what is at the address is taken for the content.       *)
FoundUnread(c) == "REPLAYED"

(* The bytes at the address are read again and compared.                   *)
Found(c) == IF published[Content[c]] = Foreign THEN "CONFLICT" ELSE "REPLAYED"

(* #readPublished, and on ENOENT the name for a new file.                  *)
Look(c) ==
  \/ /\ published[Content[c]] # None
     /\ Go(c, "looking", "done")
     /\ Reply(c, Found(c))
     /\ UNCHANGED <<ticket, sequence, temporary, published, file, crashes>>
  \/ /\ published[Content[c]] = None
     /\ Go(c, "looking", "opening")
     /\ sequence' = [sequence EXCEPT ![Process[c]] = @ + 1]
     /\ ticket' = [ticket EXCEPT ![c] = sequence'[Process[c]]]
     /\ UNCHANGED <<answer, temporary, published, file, crashes>>
  \/ /\ IOMayFail
     /\ Go(c, "looking", "done")
     /\ Reply(c, "FAILED")
     /\ UNCHANGED <<ticket, sequence, temporary, published, file, crashes>>

(* A failure after the name was taken: the file is removed by its name.    *)
FailWhen(c, stage) ==
  /\ Go(c, stage, "cleaning")
  /\ Reply(c, "FAILED")
  /\ UNCHANGED <<ticket, sequence, temporary, published, file, crashes>>

(* Mutant of Open: the file is linked before its bytes were awaited.       *)
OpenUnawaited(c) ==
  /\ Go(c, "opening", "linking")
  /\ temporary' = temporary \union {c}
  /\ file' = [file EXCEPT ![c] = "part"]
  /\ UNCHANGED <<answer, ticket, sequence, published, crashes>>

(* Mutant of Open: a name that is taken is waited for.                     *)
OpenWaiting(c) ==
  \/ /\ Go(c, "opening", "writing")
     /\ Named(c) = {}
     /\ temporary' = temporary \union {c}
     /\ file' = [file EXCEPT ![c] = "part"]
     /\ UNCHANGED <<answer, ticket, sequence, published, crashes>>
  \/ /\ pc[c] = "opening"
     /\ Named(c) # {}
     /\ UNCHANGED vars

(* open with O_EXCL: a name that is taken is an error.                     *)
Open(c) ==
  \/ /\ Go(c, "opening", "writing")
     /\ Named(c) = {}
     /\ temporary' = temporary \union {c}
     /\ file' = [file EXCEPT ![c] = "part"]
     /\ UNCHANGED <<answer, ticket, sequence, published, crashes>>
  \/ FailWhen(c, "opening") /\ Named(c) # {}
  \/ IOMayFail /\ FailWhen(c, "opening")

(* writeFile, sync, close.                                                 *)
Write(c) ==
  \/ /\ Go(c, "writing", "linking")
     /\ file' = [file EXCEPT ![c] = "whole"]
     /\ UNCHANGED <<answer, ticket, sequence, temporary, published, crashes>>
  \/ IOMayFail /\ FailWhen(c, "writing")

(* Mutant of Link: a rename, which replaces what is at the address.        *)
LinkReplacing(c) ==
  /\ Go(c, "linking", "cleaning")
  /\ \E i \in Named(c) : published' = [published EXCEPT ![Content[c]] = i]
  /\ Reply(c, "CREATED")
  /\ UNCHANGED <<ticket, sequence, temporary, file, crashes>>

(* chmod, then link: the one step that publishes, if nobody was faster.    *)
(* The name is there: only a later process with this pid could remove it.  *)
Link(c) ==
  \/ /\ Go(c, "linking", "cleaning")
     /\ published[Content[c]] = None
     /\ \E i \in Named(c) : published' = [published EXCEPT ![Content[c]] = i]
     /\ Reply(c, "CREATED")
     /\ UNCHANGED <<ticket, sequence, temporary, file, crashes>>
  \/ /\ Go(c, "linking", "cleaning")
     /\ published[Content[c]] # None
     /\ Reply(c, Found(c))
     /\ UNCHANGED <<ticket, sequence, temporary, published, file, crashes>>
  \/ IOMayFail /\ FailWhen(c, "linking")

(* finally: rm with force; its own failure is ignored.                     *)
Clean(c) ==
  /\ Go(c, "cleaning", "done")
  /\ \/ temporary' = temporary \ Named(c)
     \/ IOMayFail /\ temporary' = temporary
  /\ UNCHANGED <<answer, ticket, sequence, published, file, crashes>>

Underway(c) == pc[c] \notin {"idle", "done", "dead"}

(* A process dies and leaves its files.  The pid may be used again, by a   *)
(* store that counts from the start.                                       *)
Crash(p) ==
  /\ crashes < MaxCrashes
  /\ \E c \in Calls : Process[c] = p /\ Underway(c)
  /\ crashes' = crashes + 1
  /\ pc' = [c \in Calls |-> IF Process[c] = p /\ Underway(c) THEN "dead" ELSE pc[c]]
  /\ sequence' = [sequence EXCEPT ![p] = 0]
  /\ UNCHANGED <<answer, ticket, temporary, published, file>>

CallStep(c) == Start(c) \/ Look(c) \/ Open(c) \/ Write(c) \/ Link(c) \/ Clean(c)

Finished ==
  /\ \A c \in Calls : pc[c] \in {"done", "dead"}
  /\ UNCHANGED vars

Next ==
  \/ \E c \in Calls : CallStep(c)
  \/ \E p \in Processes : Crash(p)
  \/ Finished

Spec == Init /\ [][Next]_vars

(* The file system answers: every await of publish settles.                *)
FairSpec == Spec /\ \A c \in Calls : WF_vars(CallStep(c))

-----------------------------------------------------------------------------
(* Properties                                                              *)

Stages == {"idle", "looking", "opening", "writing", "linking", "cleaning", "done", "dead"}

(* The shape of the state.                                                 *)
TypeOK ==
  /\ pc \in [Calls -> Stages]
  /\ answer \in [Calls -> Dispositions \union {None}]
  /\ ticket \in [Calls -> Nat]
  /\ sequence \in [Processes -> Nat]
  /\ temporary \subseteq Calls
  /\ published \in [Contents -> Calls \union {Foreign, None}]
  /\ file \in [Calls -> {None, "part", "whole"}]
  /\ crashes \in 0..MaxCrashes

(* Whatever is at an address is the whole content of that address, at any  *)
(* moment and wherever a process died                                      *)
(* (api-football-r0-operations.md:69).                                     *)
PublishedIsWhole ==
  \A h \in Contents : published[h] \in Calls =>
    Content[published[h]] = h /\ file[published[h]] = "whole"

(* A call that was told its content is kept finds it at its address.       *)
Told(c, dispositions) == pc[c] \in {"cleaning", "done", "dead"} /\ answer[c] \in dispositions

AnsweredIsPublished ==
  \A c \in Calls : Told(c, {"CREATED", "REPLAYED"}) => published[Content[c]] \in Calls

(* Of all the calls that race for an address one is told it created it.    *)
CreatedOnce ==
  \A c, d \in Calls :
    Told(c, {"CREATED"}) /\ Told(d, {"CREATED"}) /\ Content[c] = Content[d] => c = d

(* What is published is never replaced, removed or written to              *)
(* (api-football-r0-operations.md:70).                                     *)
Immutable ==
  [][\A h \in Contents : published[h] # None =>
       /\ published'[h] = published[h]
       /\ published[h] \in Calls => file'[published[h]] = file[published[h]]]_vars

(* Every publish answers, or its process dies.                             *)
EveryPublishAnswers ==
  \A c \in Calls : pc[c] = "looking" ~> pc[c] \in {"done", "dead"}

(* The store is the promised log.                                          *)
Log == INSTANCE EvidenceLog WITH
  held <- {h \in Contents : published[h] \in Calls},
  told <- answer

LogKept == Log!Spec
=============================================================================
