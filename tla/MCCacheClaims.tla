---------------------------- MODULE MCCacheClaims ----------------------------
(* What the documentation says of the cache, each checked on two writes at *)
(* most.  The responses have a Content-Length, but for that with pinned.   *)
EXTENDS OpfsCache

CONSTANTS film, clip, pinned, media

MCKeys == {film, clip, pinned}
MCFolders == {media}

Write(k, bytes) == [op |-> "write", key |-> k, folder |-> media, body |-> bytes,
                    evictable |-> k # pinned, known |-> k # pinned, spare |-> FALSE]

FilmOnly == {Write(film, 3)}
FilmAndClip == {Write(film, 3), Write(clip, 3)}
WithPinned == FilmAndClip \cup {Write(pinned, 1)}

(* docs/opfs-cache-behavior.md, 5 and 9: the partial file of a write that  *)
(* failed is always removed.  Behind the clean-up of a failed write there  *)
(* is no file without content.                                             *)
PartialIsRemoved ==
  [][\A t \in Tasks :
       pc[t] = "cleanup" /\ pc'[t] # "cleanup" =>
         disk'[key(t)] = None \/ disk'[key(t)].written]_vars

PinnedFile(k) == disk[k] # None /\ disk[k].written /\ ~disk[k].evictable

(* README.md: a pinned resource is not evicted when space is low.  An      *)
(* eviction removes no pinned file that was written whole.                 *)
PinnedStays ==
  [][\A t \in Tasks, k \in Keys :
       pc[t] = "evict" /\ pc'[t] # "evict" /\ PinnedFile(k) => disk'[k] # None]_vars
==============================================================================
