----------------------------- MODULE MCFraming ------------------------------
(***************************************************************************)
(* The messages the server may send: nothing after the length, a code      *)
(* alone as in a PUT response, a body that looks like the length of        *)
(* another message, and one whose length takes two bytes.                  *)
(***************************************************************************)
EXTENDS Framing

Long == [i \in 1..257 |-> i % 256]

Replies == {<<>>, <<12>>, <<10, 0, 0, 0, 1, 12>>, Long}
=============================================================================
