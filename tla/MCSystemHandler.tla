--------------------------- MODULE MCSystemHandler ---------------------------
(* Instances of SystemHandler for TLC.  Each post exercises the            *)
(* certificate, the license or the disk, or two of them.                   *)
EXTENDS SystemHandler, TLC

CONSTANTS p1, p2

Nothing == [pair |-> NoPair, updateTrustCerts |-> FALSE, skipDeviceCertificates |-> FALSE,
            license |-> "none", disk |-> FALSE]
First   == [Nothing EXCEPT !.pair = p1]
Trusting == [First EXCEPT !.updateTrustCerts = TRUE]
Second  == [Trusting EXCEPT !.pair = p2]
Skipped == [Second EXCEPT !.skipDeviceCertificates = TRUE]

Pool    == [Nothing EXCEPT !.license = "pool"]
From    == [Nothing EXCEPT !.license = "revokeFrom"]
Current == [Nothing EXCEPT !.license = "revokeCurrent"]

Both    == [First EXCEPT !.license = "revokeFrom"]
Resized == [First EXCEPT !.disk = TRUE]
PoolAndDisk == [Pool EXCEPT !.disk = TRUE]

MCPosts == {<<First, Second>>, <<Trusting, Nothing>>, <<First, Trusting>>, <<Skipped, First>>,
            <<First, Skipped>>,
            <<From, From>>, <<Current, From>>, <<Pool, PoolAndDisk>>, <<Both>>, <<Resized>>}
=============================================================================
