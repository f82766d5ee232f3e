------------------------ MODULE MCPhase16Idempotency ------------------------
(***************************************************************************)
(* Six requests: a key and its retry, a source record named with that key, *)
(* the same record named otherwise twice, and a request without a name.    *)
(***************************************************************************)
EXTENDS Phase16Idempotency, TLC

CONSTANTS a, retry, aWithId, idOnly, bWithId, plain, k1, k2, x

MCGivenKey == (a :> k1) @@ (retry :> k1) @@ (aWithId :> k1) @@ (idOnly :> NoName)
                  @@ (bWithId :> k2) @@ (plain :> NoName)
MCIdentity == (a :> NoName) @@ (retry :> NoName) @@ (aWithId :> x) @@ (idOnly :> x)
                  @@ (bWithId :> x) @@ (plain :> NoName)
=============================================================================
