----------------------------- MODULE JsonLines -----------------------------
(***************************************************************************)
(* A file of JSON objects, one per line, read from a byte offset while     *)
(* another process appends to it.                                          *)
(*                                                                         *)
(* A line takes three units of its file: a fragment of the object, the     *)
(* rest of it, the newline.  Line i therefore ends at 3 * i, and a file of *)
(* size n holds line i in full once n >= 3 * i - 1.                        *)
(***************************************************************************)
EXTENDS Integers, Sequences

LineAt(o) == o \div 3 + 1

\* Faulty variant: whatever ReadBytes returned is committed.
ReadLineEagerly(txt, size, o) ==
  LET i == LineAt(o)
  IN [to |-> IF size >= 3 * i THEN 3 * i ELSE size,
      parsed |-> o % 3 = 0 /\ size >= 3 * i - 1 /\ txt[i].kind # "garbage",
      line |-> txt[i],
      eof |-> size < 3 * i]

\* ReadBytes('\n') at offset o < size of the file whose lines are txt: the
\* offset committed to, and whether the line parses.  An object at the end
\* of the file counts although its newline is missing; a fragment does not.
ReadLine(txt, size, o) ==
  LET i == LineAt(o)
      terminated == size >= 3 * i
      parsed == o % 3 = 0 /\ size >= 3 * i - 1 /\ txt[i].kind # "garbage"
  IN [to |-> IF terminated THEN 3 * i ELSE IF parsed THEN 3 * i - 1 ELSE o,
      parsed |-> parsed,
      line |-> txt[i],
      eof |-> ~terminated]

=============================================================================
