------------------------------ MODULE MCRatePyth ----------------------------
(* Two price accounts; prices below zero, with exponents of both signs; vectors of two. *)
EXTENDS RatePyth

MCExpos == {-1, 1}
MCMantissas == {-5, 30}
=============================================================================
