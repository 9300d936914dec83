--------------------------- MODULE MCPublicIntake ---------------------------
(* TLC instances of PublicIntake. *)
EXTENDS PublicIntake

CONSTANTS r1, r2, k1, k2, b1

\* Keys and bodies are interchangeable, and so are bodies of different keys:
\* the first call fixes them.  One call in two may be spam, on a key of its own.
FirstCall ==
  /\ key[r1] = k1 /\ body[r1] = b1 /\ ~spam[r1]
  /\ key[r2] = k2 => body[r2] = b1
  /\ spam[r2] => key[r2] = k2

IntakeInit == Init /\ FirstCall
IntakeSpec == IntakeInit /\ [][Next]_vars

=============================================================================
