--------------------------- MODULE MCFrameStream ---------------------------
(* A small instance of FrameStream for TLC.                                *)
EXTENDS FrameStream

\* The shortest frame, one between, one of exactly MAX_FRAME bytes, and one more.
MCBodies == {<<4>>, <<0, 1>>, <<0, 0, 2>>, <<1, 2, 3, 4>>}
=============================================================================
