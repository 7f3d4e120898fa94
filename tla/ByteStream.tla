----------------------------- MODULE ByteStream -----------------------------
(***************************************************************************)
(* What a forward-only stream of a payload promises: the bytes it has      *)
(* passed are those the payload begins with, and it ends only when it has  *)
(* passed them all.  It may fail at any time; bytes it had by then may     *)
(* still be read.                                                          *)
(***************************************************************************)
EXTENDS Naturals, Sequences

VARIABLES
  content,  \* the bytes of the payload
  passed,   \* those read or skipped
  status    \* "open", "ended" or "failed"

streamVars == <<content, passed, status>>

StreamInit == passed = <<>> /\ status = "open"

\* A payload is begun again for every pass over it.
Restart == passed' = <<>> /\ status' = "open"

Pass ==
  /\ status # "ended"
  /\ \E n \in Len(passed)..Len(content) : passed' = SubSeq(content, 1, n)
  /\ \/ status' = status
     \/ status = "open" /\ passed' = content /\ status' = "ended"
  /\ UNCHANGED content

Break == status = "open" /\ status' = "failed" /\ UNCHANGED <<content, passed>>

StreamNext == Restart \/ Pass \/ Break

StreamSpec == StreamInit /\ [][StreamNext]_streamVars
=============================================================================
