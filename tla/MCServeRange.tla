---------------------------- MODULE MCServeRange ----------------------------
(* A resource with two versions, in the folders of two plugins, asked for  *)
(* with and without If-Range.                                              *)
EXTENDS ServeRange, TLC

CONSTANTS r1, r2, tab, film, song, media, assets, one, two

MCFiles == {[etag |-> one, body |-> 2, folder |-> media],
            [etag |-> two, body |-> 1, folder |-> assets]}

Ask(k, fo, ifRange, header) ==
  [tab |-> tab, key |-> k, folder |-> fo, ifRange |-> ifRange, header |-> header]
Rest(n) == [first |-> n, last |-> Open]

MCRequestTypes == {Ask(film, media, one, Rest(1)), Ask(film, assets, None, Rest(0))}

(* README.md:550 "the footer is never exposed": the range of a 206 ends in *)
(* the body of the file.                                                   *)
FooterIsHidden ==
  \A r \in Requests :
    pc[r] = "served" /\ req[r].key \notin mixed =>
      answer[r].range.end < answer[r].file.body
==============================================================================
