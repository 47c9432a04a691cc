---------------------------- MODULE MCCloudClient ----------------------------
(***************************************************************************)
(* Two clients with the key of one account.                                *)
(***************************************************************************)
EXTENDS CloudClient, TLC

CONSTANTS c1, c2, k1

OneKey == c1 :> k1 @@ c2 :> k1
=============================================================================
