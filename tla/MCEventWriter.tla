--------------------------- MODULE MCEventWriter ----------------------------
(***************************************************************************)
(* EventWriter with three calls, two of them for one key and one whose     *)
(* document is larger than max_bytes: enough for a batch, a carried        *)
(* command and one in the channel at the same time.                        *)
(***************************************************************************)
EXTENDS EventWriter

CONSTANTS r1, r2, r3, k1, k2

MCRequests == {r1, r2, r3}
MCKeys == {k1, k2}
MCKeyOf == (r1 :> k1) @@ (r2 :> k1) @@ (r3 :> k2)
MCSizeOf == (r1 :> 1) @@ (r2 :> 1) @@ (r3 :> 3)

=============================================================================
