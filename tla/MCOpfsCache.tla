----------------------------- MODULE MCOpfsCache -----------------------------
(* Two resources that do not fit in the cache together: film, which may be *)
(* evicted for pinned, and pinned, for which nothing may be evicted.  The  *)
(* response with film has no Content-Length at times.                      *)
EXTENDS OpfsCache, TLC

CONSTANTS film, pinned, media, assets

MCKeys == {film, pinned}
MCFolders == {media, assets}

Film(op, known) == [op |-> op, key |-> film, folder |-> media, body |-> 2,
                    evictable |-> TRUE, known |-> known, spare |-> TRUE]
Pinned(op) == [op |-> op, key |-> pinned, folder |-> assets, body |-> 1,
               evictable |-> FALSE, known |-> TRUE, spare |-> FALSE]

MCRequests == {Film("write", FALSE), Pinned("write")}
                \cup {Film(op, TRUE) : op \in Ops}

Symmetric == Permutations(Tasks)
==============================================================================
