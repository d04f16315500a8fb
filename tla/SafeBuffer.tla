------------------------------ MODULE SafeBuffer ------------------------------
(***************************************************************************)
(* The growable send buffer of buffer.c.  A buffer is described by what   *)
(* the code keeps of it: the bytes allocated and the bytes used; its      *)
(* contents are left out.  Two outcomes that end the daemon are recorded  *)
(* instead of the buffer: exit(1) for a request over 64 KiB, and a copy   *)
(* past the allocated block (overrun), which the code does not detect.    *)
(*                                                                         *)
(* Builders append a sequence of struct sizes; SafeBufferBuild is the     *)
(* buffer they leave.                                                     *)
(***************************************************************************)
EXTENDS Naturals, Sequences, SequencesExt

BlockSize == 64             \* 1 << 6
MaxBuffer == 64 * 1024

\* SAFE_BUFFER_INIT, as safe_buffer_new sets it (should_free is not read).
SafeBufferNew == [allocated |-> 0, used |-> 0, exited |-> FALSE, overrun |-> FALSE]

\* Mutant: the request is rounded down to a whole block.
RoundDown(n) == n - (n % BlockSize)

\* n |= (blocksize - 1); n++ when n is not a whole number of blocks.
RoundUp(n) == IF n % BlockSize > 0 THEN (n - (n % BlockSize) + (BlockSize - 1)) + 1 ELSE n

\* safe_buffer_resize: grow to n rounded up to a whole block, or exit.
SafeBufferResize(sb, n) ==
    CASE sb.allocated >= n        -> sb
      [] RoundUp(n) > MaxBuffer   -> [sb EXCEPT !.exited = TRUE]
      [] OTHER                    -> [sb EXCEPT !.allocated = RoundUp(n)]

\* safe_buffer_append: resize for used + count, copy count bytes at used.
SafeBufferAppend(sb, count) ==
    IF sb.exited THEN sb
    ELSE LET r == SafeBufferResize(sb, sb.used + count)
         IN IF r.exited THEN r
            ELSE [r EXCEPT !.used = @ + count,
                           !.overrun = @ \/ sb.used + count > r.allocated]

\* The buffer after appending structs of the given sizes in order.
SafeBufferBuild(sizes) == FoldLeft(SafeBufferAppend, SafeBufferNew, sizes)
=============================================================================
