------------------------------- MODULE LineLoop -------------------------------
(***************************************************************************)
(* A loop over the lines of a file, as every parser of the program has it: *)
(* Start before the first line, and Read for each one after it.            *)
(***************************************************************************)
EXTENDS Naturals, Sequences

CONSTANTS
  Read(_, _),  \* what a line makes of what was read before it
  Start

\* What has been read when the loop ends.
After(file) ==
  LET read[n \in 0..Len(file)] ==
        IF n = 0 THEN Start ELSE Read(read[n - 1], file[n])
  IN  read[Len(file)]
===============================================================================
