--------------------------- MODULE MCFmvTransport ---------------------------
(* Small instances of FmvTransport for TLC.                                 *)
EXTENDS FmvTransport

MCRates == {1, -4}
MCOneRate == {1}
=============================================================================
