----------------------------- MODULE MCLruCache -----------------------------
(* Four keys where three entries fit, and fewer if they are large; entries *)
(* of two folders, those of one of them large.                             *)
EXTENDS LruCache

CONSTANTS k1, k2, k3, k4, media, assets

MCKeys == {k1, k2, k3, k4}
MCValues == {[folder |-> media, size |-> 2], [folder |-> assets, size |-> 1]}
==============================================================================
