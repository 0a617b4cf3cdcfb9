------------------------------- MODULE MCBlob -------------------------------
(* Model checking EfBlob: two slots, a buffer with room for two more, and  *)
(* blobs of up to three pieces.                                            *)
EXTENDS EfBlob
=============================================================================
