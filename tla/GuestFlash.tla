----------------------------- MODULE GuestFlash -----------------------------
(***************************************************************************)
(* The page of flash that guests keep 1 KB in,                             *)
(* drivers/pic32mz-puf-flash.c: a write erases the page and then programs  *)
(* it four words at a time.  The page survives a reset of the board, which *)
(* may come at any time and cut a write, even in the middle of one of the  *)
(* operations of the flash.  Those that are not cut succeed, since the     *)
(* driver does not look at their result.                                   *)
(***************************************************************************)
EXTENDS Integers

CONSTANTS
  QUADS,        \* quad words in the buffer of a guest
  Payloads,     \* what guests write
  ERASED,       \* a quad word that was erased
  SPOILED       \* a quad word whose erase or programming was cut

ASSUME FlashAssumption ==
  /\ QUADS \in Nat \ {0}
  /\ ERASED \notin Payloads \cup {SPOILED}

Quad == 0..(QUADS - 1)

(* Quad word i of a buffer that holds c.                                   *)
Word(c, i) == <<c, i>>
Blank == [i \in Quad |-> ERASED]

VARIABLES
  page,      \* the quad words of the flash
  step,      \* where flash_write1Kbuffer() is
  source,    \* what it writes
  done,      \* quad words it has programmed
  before,    \* the page when the last write began
  stored,    \* what the last complete write wrote, ERASED before the first
  cut        \* what a reset has cut since

flashVars == <<page, step, source, done, before, stored, cut>>

(* Programming a quad word that is not erased clears bits of what it holds.*)
Programmed(i, word) ==
  [page EXCEPT ![i] = IF page[i] = ERASED THEN word ELSE SPOILED]

-----------------------------------------------------------------------------
(* flash_write(): the buffer of the guest is mapped.                       *)
FlashWrite(c) ==
  /\ step = "idle"
  /\ step' = "erase"
  /\ source' = c
  /\ before' = page
  /\ UNCHANGED <<page, done, stored, cut>>

(* The page is taken to be erased already.                                 *)
ErasePage_MutantSkipped ==
  /\ step = "erase"
  /\ step' = "program"
  /\ done' = 0
  /\ UNCHANGED <<page, source, before, stored, cut>>

(* NVMErasePage()                                                          *)
ErasePage ==
  /\ step = "erase"
  /\ page' = Blank
  /\ step' = "program"
  /\ done' = 0
  /\ UNCHANGED <<source, before, stored, cut>>

(* NVMWriteQuad(): one turn of the loop of flash_write1Kbuffer().          *)
WriteQuad ==
  /\ step = "program" /\ done < QUADS
  /\ page' = Programmed(done, Word(source, done))
  /\ done' = done + 1
  /\ UNCHANGED <<step, source, before, stored, cut>>

EndOfWrite ==
  /\ step = "program" /\ done = QUADS
  /\ step' = "idle"
  /\ stored' = source
  /\ cut' = "nothing"
  /\ UNCHANGED <<page, source, done, before>>

(* What flash_read() copies to a guest that calls it between writes.       *)
FlashRead == [i \in Quad |-> page[i]]

(* The board is reset: what the operation under way was changing is left   *)
(* as it was, as it was to be, or neither.                                 *)
Reset ==
  /\ step' = "idle"
  /\ cut' = IF step = "idle" THEN cut ELSE step
  /\ CASE step = "erase" ->
            \E left \in [Quad -> {"old", "new", "neither"}] :
              page' = [i \in Quad |-> CASE left[i] = "old" -> page[i]
                                        [] left[i] = "new" -> ERASED
                                        [] OTHER -> SPOILED]
       [] step = "program" /\ done < QUADS ->
            page' \in {page, Programmed(done, Word(source, done)),
                       [page EXCEPT ![done] = SPOILED]}
       [] OTHER -> UNCHANGED page
  /\ UNCHANGED <<source, done, before, stored>>

-----------------------------------------------------------------------------
(* The page was never written.                                             *)
FlashInit ==
  /\ page = Blank
  /\ step = "idle" /\ source = ERASED /\ done = 0
  /\ before = Blank
  /\ stored = ERASED
  /\ cut = "nothing"

FlashNext ==
  \/ \E c \in Payloads : FlashWrite(c)
  \/ ErasePage
  \/ WriteQuad
  \/ EndOfWrite
  \/ Reset

FlashSpec == FlashInit /\ [][FlashNext]_flashVars

-----------------------------------------------------------------------------
Whole(c) == IF c = ERASED THEN Blank ELSE [i \in Quad |-> Word(c, i)]

(* The first n quad words of c, one that may be spoiled, and erased ones.  *)
IsPartial(read, c, n) ==
  /\ \A i \in Quad : i < n => read[i] = Word(c, i)
  /\ \A i \in Quad : i > n => read[i] = ERASED
  /\ n \in Quad => read[n] \in {ERASED, SPOILED}

(* A guest that reads the page gets what the last complete write wrote,    *)
(* unless a reset has cut a write since.  If it was cut while programming, *)
(* the guest gets a part of the new contents and erased words after them;  *)
(* if it was cut while erasing, each word is as before or is lost.         *)
(* Words of two writes are never mixed.                                    *)
FlashHoldsOneWrite ==
  /\ step = "idle" =>
       CASE cut = "nothing" -> FlashRead = Whole(stored)
         [] cut = "program" -> \E n \in 0..QUADS : IsPartial(FlashRead, source, n)
         [] OTHER -> \A i \in Quad : FlashRead[i] \in {ERASED, SPOILED, before[i]}
  /\ \A i, j \in Quad :
       {page[i], page[j]} \cap {ERASED, SPOILED} = {} => page[i][1] = page[j][1]
=============================================================================
