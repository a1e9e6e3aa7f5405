------------------------------- MODULE DumpCopy -------------------------------
(***************************************************************************)
(* What copying a dump promises: the blocks of the dumped memory are       *)
(* written one after the other, in order, and the copy is declared done   *)
(* only when all of them have been written.                                *)
(***************************************************************************)
EXTENDS Naturals, Sequences

VARIABLES
  memory,    \* the dumped memory, a sequence of blocks
  copied,    \* the blocks written so far
  finished   \* the copy has been declared complete

vars == <<memory, copied, finished>>

Init == copied = <<>> /\ finished = FALSE

CopyBlock ==
  /\ ~finished /\ Len(copied) < Len(memory)
  /\ copied' = Append(copied, memory[Len(copied) + 1])
  /\ UNCHANGED <<memory, finished>>

Finish ==
  /\ ~finished /\ copied = memory
  /\ finished' = TRUE
  /\ UNCHANGED <<memory, copied>>

Spec == Init /\ [][CopyBlock \/ Finish]_vars
=============================================================================
