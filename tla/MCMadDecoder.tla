---------------------------- MODULE MCMadDecoder ----------------------------
(* The decoder loop on frames of MPEG-1 in mono and of LSF in stereo.      *)
EXTENDS MadDecoder

MCFormats == {[nch |-> 1, ngr |-> 2], [nch |-> 2, ngr |-> 1]}

MCClients == {{}, {"error"}, {"filter", "output"}, {"header", "error"}}
=============================================================================
