---------------------------- MODULE MCRestWorker ----------------------------
(* Instances of RestWorker for TLC.  The dimensions of a declaration are   *)
(* independent of each other except where a run says otherwise, so each    *)
(* run posts the declarations that its question needs.                     *)
EXTENDS RestWorker, TLC

Plain    == NoDeclaration
Asynch   == [NoDeclaration EXCEPT !.async = TRUE]
Revoking == [NoDeclaration EXCEPT !.revoke = TRUE]

EveryDeclaration == Declaration
PlainOrAsync == {Plain, Asynch}
NoResize == {d \in Declaration : ~d.disk}
OnlyRevoking == {Revoking}

TaskSymmetry == Permutations(Task)
=============================================================================
