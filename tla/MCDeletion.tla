----------------------------- MODULE MCDeletion -----------------------------
EXTENDS Deletion, TLC

CONSTANTS photo, result

\* A photo and an image made from it.
PhotoAndResult == (photo :> NoAsset) @@ (result :> photo)
=============================================================================
