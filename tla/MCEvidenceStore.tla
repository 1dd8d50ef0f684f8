---------------------------- MODULE MCEvidenceStore ----------------------------
(***************************************************************************)
(* Instances of EvidenceStore for TLC: five calls of two processes, three  *)
(* of them for one content.                                                *)
(***************************************************************************)
EXTENDS EvidenceStore, TLC

CONSTANTS a1, a2, b1, b2, x1

FiveCalls == {a1, a2, b1, b2, x1}
ContentOf == a1 :> "h" @@ a2 :> "h" @@ b1 :> "h" @@ b2 :> "g" @@ x1 :> "z"
ProcessOf == a1 :> "A" @@ a2 :> "A" @@ b1 :> "B" @@ b2 :> "B" @@ x1 :> "B"
NotAccepted == {x1}
=============================================================================
