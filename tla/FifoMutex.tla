------------------------------ MODULE FifoMutex ------------------------------
(***************************************************************************)
(* What runWithLock of opfsEvictionIndex.ts promises its callers: the      *)
(* functions passed to it run one at a time, in the order in which         *)
(* runWithLock was called, and a function that throws gives the lock up    *)
(* just as one that returns does.                                          *)
(*                                                                         *)
(* `line` holds the calls that were made and whose function has not ended, *)
(* oldest first; `inside` says whether the function of the oldest has      *)
(* begun.  Module IndexLock implements this with a chain of promises, and  *)
(* module OpfsCache uses the lock in this abstract form.                   *)
(***************************************************************************)
EXTENDS Sequences

CONSTANT Calls            \* the calls of runWithLock, each made at most once

VARIABLES line, inside, made

vars == <<line, inside, made>>

Init == line = <<>> /\ inside = FALSE /\ made = {}

Join(c) == /\ c \notin made
           /\ made' = made \cup {c}
           /\ line' = Append(line, c)
           /\ UNCHANGED inside

Begin(c) == /\ line # <<>> /\ Head(line) = c
            /\ ~inside
            /\ inside' = TRUE
            /\ UNCHANGED <<line, made>>

End(c) == /\ line # <<>> /\ Head(line) = c
          /\ inside
          /\ inside' = FALSE
          /\ line' = Tail(line)
          /\ UNCHANGED made

Next == \E c \in Calls : Join(c) \/ Begin(c) \/ End(c)

Spec == Init /\ [][Next]_vars
==============================================================================
