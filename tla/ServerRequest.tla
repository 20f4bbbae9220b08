---------------------------- MODULE ServerRequest ---------------------------
(***************************************************************************)
(* CServerRequest::InputBuffer of the directory service: a request's bytes *)
(* are appended to a buffer that grows by blocks.  The new capacity is     *)
(* rounded with & ~BUFFER_BLOCK * BUFFER_BLOCK, which is the product       *)
(* (~BUFFER_BLOCK) * BUFFER_BLOCK: for a power of two it clears the bits   *)
(* below BUFFER_BLOCK and also the bit of BUFFER_BLOCK * BUFFER_BLOCK.     *)
(***************************************************************************)
EXTENDS Integers

CONSTANTS BUFFER_BLOCK,   \* 1024 in the code
          MaxLength       \* bound: the bytes a request may hold, 8024 in the code

\* what the theorem assumes of the block and of the bytes of one request
ServerRequestAssumption ==
  /\ BUFFER_BLOCK \in Nat \ {0}
  /\ MaxLength \in Nat
  /\ MaxLength + BUFFER_BLOCK < BUFFER_BLOCK * BUFFER_BLOCK

VARIABLES BufferCap, BuffernLength

vars == <<BufferCap, BuffernLength>>

\* n & ~BUFFER_BLOCK * BUFFER_BLOCK
Masked(n) ==
  LET low == n - (n % BUFFER_BLOCK)
  IN  IF (low \div (BUFFER_BLOCK * BUFFER_BLOCK)) % 2 = 1
      THEN low - BUFFER_BLOCK * BUFFER_BLOCK ELSE low

Init == BufferCap = 0 /\ BuffernLength = 0

\* The first call makes one block; a buffer that would be full is replaced.  A
\* failed recv's length, -1, ends the process in memcpy (DirService's ReadFails).
InputBuffer(length) ==
  LET cap == IF BufferCap = 0 THEN BUFFER_BLOCK ELSE BufferCap
      total == BuffernLength + length
  IN  /\ total <= MaxLength
      /\ BufferCap' = IF total >= cap THEN Masked(total + BUFFER_BLOCK) ELSE cap
      /\ BuffernLength' = total

Next == \E length \in 0..MaxLength : InputBuffer(length)

Spec == Init /\ [][Next]_vars

-----------------------------------------------------------------------------

\* The capacity is a size, and the length stays below the bound.
TypeOK == BufferCap \in Nat /\ BuffernLength \in 0..MaxLength

\* The bytes copied into the buffer fit, and a byte is left over: true below
\* BUFFER_BLOCK * BUFFER_BLOCK bytes only, where the mask clears nothing else.
Fits == BufferCap = 0 \/ BuffernLength < BufferCap
=============================================================================
