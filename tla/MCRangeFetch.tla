---------------------------- MODULE MCRangeFetch ----------------------------
(* Three requests for two URLs: two GETs of one URL would overlap, and so  *)
(* do the GETs of different URLs.  The worker is stopped once, anywhere.   *)
EXTENDS RangeFetch
=============================================================================
