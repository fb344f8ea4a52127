------------------------------- MODULE SpiRam -------------------------------
(***************************************************************************)
(* The driver of the 23LC1024 chip, mp3/driver/spiram.c: a memory of       *)
(* SPIRAMSIZE bytes behind the HSPI engine.                                *)
(*                                                                         *)
(* spiRamWrite loads the W registers and starts the transfer, but does not *)
(* wait for it: the bytes reach the chip later, while the caller already   *)
(* runs on.  The next call of either routine begins with a busy wait on    *)
(* SPI_USR.  spiRamRead also waits at its end, so its bytes are there when *)
(* it returns.                                                             *)
(*                                                                         *)
(* The variable spi is the write that is still under way, as a function    *)
(* from the addresses it will change to the bytes it carries.              *)
(***************************************************************************)
EXTENDS Integers

CONSTANTS SPIRAMSIZE,   \* bytes in the chip: 128*1024, or 1850 with FAKE_SPI_BUFF
          WordBytes     \* bytes of one W register: 4

ASSUME SpiRamAssumption ==
    /\ SPIRAMSIZE \in Nat \ {0}
    /\ WordBytes \in Nat \ {0}

VARIABLES ram, spi

Address == 0 .. SPIRAMSIZE - 1

NoTransfer == [a \in {} |-> 0]

(* SPI_USR of the command register is clear. *)
SpiIdle == DOMAIN spi = {}

(* What the chip will hold once the transfer under way has ended. *)
Settled == [a \in Address |-> IF a \in DOMAIN spi THEN spi[a] ELSE ram[a]]

(* The write routine hands data, a function from addresses to bytes, over  *)
(* to the engine.                                                          *)
SpiRamWrite(data) == spi' = data /\ UNCHANGED ram

(* The engine has shifted out the last bit. *)
SpiTransferEnd == ~SpiIdle /\ ram' = Settled /\ spi' = NoTransfer

(***************************************************************************)
(* The offsets of the destination that spiRamRead(addr, buff, n) stores    *)
(* to.  Of each register it stores byte 0 always, and byte j when at least *)
(* j bytes are left to copy.                                               *)
(***************************************************************************)
SpiRamReadStores(n) ==
    { b \in 0 .. n + WordBytes :
        LET left == n - (b - (b % WordBytes))
        IN  left > 0 /\ left >= (b % WordBytes) }
=============================================================================
