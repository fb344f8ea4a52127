---------------------------- MODULE MCSpiRamFifo ----------------------------
(***************************************************************************)
(* The FIFO of spiram_fifo.c against the channel it stands for.            *)
(***************************************************************************)
EXTENDS SpiRamFifo, Sequences

(* The bytes between the read and the write index, as they will be in the  *)
(* chip, are the bytes in transit; the filled part of the caller's buffer  *)
(* is what the request has been given.                                     *)
Channel == INSTANCE ByteChannel WITH
    Capacity <- SPIRAMSIZE,
    pipe <- [k \in 1 .. fifoFill |-> Settled[Wrap(fifoRpos + k - 1)]],
    want <- rdLen,
    out <- [k \in 1 .. rdGot |-> buf[k - 1]]

(* Every step of the two tasks and of the SPI engine is a step of the      *)
(* channel or leaves it alone.                                             *)
IsChannel == Channel!ChanSpec
=============================================================================
