-------------------------- MODULE MCBackgroundFetch --------------------------
(* Two folders with a plugin for background fetches, video and music, and  *)
(* one without, cache; clip passes the filter of both, film that of video. *)
(* A folder is the sequence of its characters, all plain but "-".          *)
EXTENDS DownloadHook

CONSTANTS film, clip

video == <<"v", "-", "a">>
music == <<"m", "-", "a">>
cache == <<"c">>
MCPlain == {"a", "c", "m", "v", "_"}
MCHandled == {video, music}
MCFolders == {video, music, cache}
MCInclude(f) == IF f = video THEN Assets ELSE Assets \ {film}

Ask(f, S, byHook) == [folder |-> f, assets |-> S, hook |-> byHook]
MCAsks == {Ask(video, Assets, FALSE), Ask(music, {film}, TRUE),
           Ask(cache, {clip}, FALSE)}
MCAsksForClip == {Ask(video, {clip}, TRUE), Ask(music, {clip}, TRUE),
                  Ask(cache, {clip}, FALSE)}
MCStores == {[a \in Assets |-> IF a = film THEN [folder |-> video, whole |-> TRUE]
                               ELSE None]}

(* README.md: a download with the same set may be in progress; the call    *)
(* then attaches to it and its promise resolves when that download         *)
(* completes.  No call finds nothing to do while the download of just the  *)
(* assets it is to use is under way.                                       *)
SameSetAttaches ==
  [][\A c \in Calls :
       ~At(c, "nothing") /\ pc'[c] = "nothing" =>
         [folder |-> ask[c].folder, assets |-> local[c].use] \notin ActiveIds]_allVars
==============================================================================
