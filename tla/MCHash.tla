------------------------------- MODULE MCHash -------------------------------
(* Instances of Hash for TLC. *)
EXTENDS Hash

\* Both digits at 0, 9, 10 and 15, alone and together.
EdgeBytes == {0, 9, 10, 15, 16, 144, 159, 160, 255}
\* The first and last characters of the three ranges of digits, their
\* neighbours, a NUL and a character above 127.
EdgeChars == {0, 47, 48, 57, 58, 64, 65, 70, 71, 96, 97, 102, 103, 200}
=============================================================================
