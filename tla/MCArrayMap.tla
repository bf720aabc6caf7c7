----------------------------- MODULE MCArrayMap -----------------------------
(* A small instance of ArrayMap for TLC: bytes of two values, a uint32_t of *)
(* 16, elements aligned to 2 and a header of 2.                             *)
EXTENDS ArrayMap

\* Values shorter than an element, as long as one, and a single element; then
\* sizes that do not fit: all elements would be 18 bytes (2, once wrapped) and
\* 16 (0).  The last two are refused.
MCSizes == {<<2, 1>>, <<2, 2>>, <<1, 1>>, <<9, 1>>, <<8, 1>>, <<0, 2>>, <<2, 0>>}

MCIndex == 0 .. 2
=============================================================================
