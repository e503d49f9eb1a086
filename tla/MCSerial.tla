------------------------------ MODULE MCSerial ------------------------------
(* One writer; the four ways to open the device that use an interrupt or a *)
(* DMA channel, one direction at a time.                                   *)
EXTENDS Serial

MCModes == {<<"INT", "none">>, <<"DMA", "none">>, <<"none", "INT">>, <<"none", "DMA">>}
=============================================================================
