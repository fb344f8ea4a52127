------------------------------- MODULE Player -------------------------------
(***************************************************************************)
(* mp3/user/user_main.c: the tasks of the player and how they depend on    *)
(* each other.  user_init creates tskconnect, which creates tskreader,     *)
(* which fills the FIFO from a socket and creates tskmad, which fills      *)
(* readBuf from the FIFO and decodes it.  The FIFO between them is the     *)
(* ByteChannel that SpiRamFifo is shown to implement.                      *)
(*                                                                         *)
(* FreeRTOS is preemptive and tskmad has the lowest priority: it runs only *)
(* while tskreader is blocked, in a call that waits for the network, in a  *)
(* delay, or in spiRamFifoWrite.                                           *)
(***************************************************************************)
EXTENDS Integers, Sequences

CONSTANTS FifoLen,       \* spiRamFifoLen(), 128*1024
          READBUFSZ,     \* bytes of readBuf, 2106
          WBufSize,      \* bytes of wbuf, 64
          Names,         \* number of byte names
          Silence,       \* silent samples per underrun, 882
          MaxUnderrun,   \* bound of bufUnderrunCt
          OutOfMemory    \* whether allocations and task creations may fail

(* The FIFO holds two buffers and more.  A build with FAKE_SPI_BUFF, whose *)
(* FIFO of 1850 bytes is in the RAM of the processor, does not satisfy this*)
(* and is left out.                                                        *)
ASSUME PlayerAssumption ==
    /\ READBUFSZ \in Nat \ {0} /\ WBufSize \in Nat \ {0}
    /\ FifoLen \in Nat /\ FifoLen >= 2 * READBUFSZ /\ FifoLen >= 2 * WBufSize
    /\ Names \in Nat /\ Names > FifoLen + READBUFSZ
    /\ Silence \in Nat \ {0} /\ MaxUnderrun \in Nat
    /\ OutOfMemory \in BOOLEAN

VARIABLES conPc,                      \* user_init and then tskconnect
          rdrPc, left, madRunning,    \* tskreader: bytes of wbuf to write
          sockets,                    \* open sockets
          pipe, sent,                 \* the FIFO; the next byte from the network
          madPc, madTasks,            \* tskmad; how many were created
          readBuf, want, out,         \* bytes in readBuf, read under way
          silent, bufUnderrunCt,
          played                      \* whether input() has once returned

conVars == conPc
rdrVars == <<rdrPc, left, madRunning, sockets>>
chanVars == <<pipe, sent, want, out>>
madVars == <<madPc, madTasks, readBuf, silent, bufUnderrunCt, played>>
vars == <<conVars, rdrVars, chanVars, madVars>>

Fifo == INSTANCE ByteChannel WITH Capacity <- FifoLen, MaxLen <- READBUFSZ

spiRamFifoFill == Len(pipe)
spiRamFifoFree == FifoLen - spiRamFifoFill

Smaller(a, b) == IF a < b THEN a ELSE b

Outcome == IF OutOfMemory THEN BOOLEAN ELSE {TRUE}

Init ==
    /\ conPc = "init"
    /\ rdrPc = "none" /\ left = 0 /\ madRunning = FALSE /\ sockets = 0
    /\ Fifo!ChanInit
    /\ madPc = "none" /\ madTasks = 0 /\ readBuf = <<>>
    /\ silent = 0 /\ bufUnderrunCt = 0 /\ played = FALSE

-----------------------------------------------------------------------------
(* user_init: hangs for ever when the SPI RAM does not retain its bytes. *)
UserInit ==
    /\ conPc = "init"
    /\ \E chipOk, created \in Outcome :
           conPc' = IF ~chipOk THEN "hang" ELSE IF created THEN "connect" ELSE "none"
    /\ UNCHANGED <<rdrVars, chanVars, madVars>>

(* tskconnect: configures the station, creates tskreader, deletes itself. *)
Connect ==
    /\ conPc = "connect"
    /\ conPc' = "deleted"
    /\ \E created \in Outcome : rdrPc' = IF created THEN "open" ELSE "none"
    /\ UNCHANGED <<left, madRunning, sockets, chanVars, madVars>>

-----------------------------------------------------------------------------
(* tskreader: openConn *)

Reader(from, to) ==
    /\ rdrPc = from /\ rdrPc' = to
    /\ UNCHANGED <<conVars, chanVars, madVars>>

(* The head of the loop that is left with a connection only. *)
OpenConn ==
    /\ Reader("open", "resolve")
    /\ UNCHANGED <<left, madRunning, sockets>>

ResolveOk ==
    /\ Reader("resolve", "socket")
    /\ UNCHANGED <<left, madRunning, sockets>>

(* Mutant: no pause before the name is looked up again. *)
ResolveFails_NoDelay ==
    /\ Reader("resolve", "open")
    /\ UNCHANGED <<left, madRunning, sockets>>

ResolveFails ==
    /\ Reader("resolve", "delay")
    /\ UNCHANGED <<left, madRunning, sockets>>

DelayEnds ==
    /\ Reader("delay", "open")
    /\ UNCHANGED <<left, madRunning, sockets>>

SocketOk ==
    /\ Reader("socket", "connect")
    /\ sockets' = sockets + 1
    /\ UNCHANGED <<left, madRunning>>

(* No socket: try again at once, without a delay. *)
SocketFails ==
    /\ Reader("socket", "open")
    /\ UNCHANGED <<left, madRunning, sockets>>

(* The request is written with five calls whose results are not looked at. *)
ConnectOk ==
    /\ Reader("connect", "read")
    /\ UNCHANGED <<left, madRunning, sockets>>

(* Mutant: the socket of a failed connection is left open. *)
ConnectFails_NoClose ==
    /\ Reader("connect", "delay")
    /\ UNCHANGED <<left, madRunning, sockets>>

ConnectFails ==
    /\ Reader("connect", "delay")
    /\ sockets' = sockets - 1
    /\ UNCHANGED <<left, madRunning>>

-----------------------------------------------------------------------------
(* tskreader: the loop around read *)

ReadData ==
    /\ Reader("read", "write")
    /\ left' \in 1 .. WBufSize
    /\ UNCHANGED <<madRunning, sockets>>

(* read returns 0 or -1: nothing is written, the loop ends after this turn. *)
ReadEnds ==
    /\ Reader("read", "lastCheck")
    /\ UNCHANGED <<left, madRunning, sockets>>

(* spiRamFifoWrite(wbuf, n), piece by piece. *)
Write(n) ==
    /\ rdrPc = "write" /\ n <= left
    /\ Fifo!Put(n)
    /\ left' = left - n
    /\ rdrPc' = IF left' = 0 THEN "check" ELSE "write"
    /\ UNCHANGED <<conVars, madRunning, sockets, madVars>>

(* Mutant: tskmad is started as soon as there is anything to play. *)
NeedMad_Early == ~madRunning /\ spiRamFifoFree < FifoLen

(* The FIFO is more than half full and there is no decoder yet. *)
NeedMad == ~madRunning /\ spiRamFifoFree < FifoLen \div 2

(* xTaskCreate may fail; madRunning is set all the same. *)
StartMad ==
    /\ madRunning' = TRUE
    /\ \E created \in Outcome :
           /\ madTasks' = IF created THEN madTasks + 1 ELSE madTasks
           /\ madPc' = IF created THEN "start" ELSE madPc

Check ==
    /\ rdrPc \in {"check", "lastCheck"}
    /\ rdrPc' = IF rdrPc = "check" THEN "read" ELSE "close"
    /\ \/ NeedMad /\ StartMad
       \/ ~NeedMad /\ UNCHANGED <<madRunning, madTasks, madPc>>
    /\ UNCHANGED <<conVars, left, sockets, chanVars,
                   readBuf, silent, bufUnderrunCt, played>>

Close ==
    /\ Reader("close", "open")
    /\ sockets' = sockets - 1
    /\ UNCHANGED <<left, madRunning>>

-----------------------------------------------------------------------------
(* tskmad *)

(* A call of tskreader that waits: for the network, the clock or the FIFO. *)
ReaderBlocked ==
    \/ rdrPc \in {"none", "delay", "connect", "read"}
    \/ rdrPc = "write" /\ left > spiRamFifoFree

Mad(from, to) ==
    /\ ReaderBlocked
    /\ madPc = from /\ madPc' = to
    /\ UNCHANGED <<conVars, rdrVars, madTasks>>

(* Three structures are allocated; the task returns when one is missing. *)
MadInit ==
    /\ \E allocated \in Outcome : Mad("start", IF allocated THEN "input" ELSE "gone")
    /\ bufUnderrunCt' = IF madPc' = "input" THEN 0 ELSE bufUnderrunCt
    /\ UNCHANGED <<chanVars, readBuf, silent, played>>

(* Mutant: input() asks for all it needs, whatever the FIFO holds. *)
Wanted_All == READBUFSZ - Len(readBuf)

(* input(): as much as fits, or as the FIFO can give. *)
Wanted == Smaller(READBUFSZ - Len(readBuf), spiRamFifoFill)

InputRead ==
    /\ Len(readBuf) < READBUFSZ /\ Wanted > 0
    /\ Mad("input", "read")
    /\ Fifo!Request(Wanted)
    /\ UNCHANGED <<readBuf, silent, bufUnderrunCt, played>>

(* Mutant: an empty FIFO is waited for in spiRamFifoRead, without silence. *)
InputSilence_Waits ==
    /\ Len(readBuf) < READBUFSZ /\ Wanted = 0
    /\ Mad("input", "read")
    /\ Fifo!Request(1)
    /\ UNCHANGED <<readBuf, silent, bufUnderrunCt, played>>

(* The FIFO is empty: count an underrun, play silence. *)
InputSilence ==
    /\ Len(readBuf) < READBUFSZ /\ Wanted = 0
    /\ Mad("input", "silence")
    /\ silent' = Silence
    /\ bufUnderrunCt' = Smaller(bufUnderrunCt + 1, MaxUnderrun)
    /\ UNCHANGED <<chanVars, readBuf, played>>

(* Mutant: the silent samples are not counted. *)
PushSilence_NoCount ==
    /\ Mad("silence", IF silent = 1 THEN "input" ELSE "silence")
    /\ UNCHANGED <<chanVars, readBuf, silent, bufUnderrunCt, played>>

(* i2sPushSample(0); the call returns, as I2sDma shows. *)
PushSilence ==
    /\ Mad("silence", IF silent = 1 THEN "input" ELSE "silence")
    /\ silent' = silent - 1
    /\ UNCHANGED <<chanVars, readBuf, bufUnderrunCt, played>>

(* spiRamFifoRead(&readBuf[rem], n), piece by piece. *)
Read(n) ==
    /\ Mad("read", IF n = want THEN "input" ELSE "read")
    /\ Fifo!Take(n)
    /\ readBuf' = IF n = want THEN readBuf \o out' ELSE readBuf
    /\ UNCHANGED <<silent, bufUnderrunCt, played>>

(* The buffer is full, after a refill or as it came: input() hands it to   *)
(* libmad and returns.                                                     *)
InputReturns ==
    /\ Len(readBuf) = READBUFSZ
    /\ Mad("input", "decode")
    /\ played' = TRUE
    /\ UNCHANGED <<chanVars, readBuf, silent, bufUnderrunCt>>

(* mad_frame_decode finds a frame, whose samples are then pushed, or skips *)
(* what is not one: next_frame moves on by n bytes.                        *)
Decode(n) ==
    /\ n <= Len(readBuf)
    /\ Mad("decode", "decode")
    /\ readBuf' = SubSeq(readBuf, n + 1, Len(readBuf))
    /\ UNCHANGED <<chanVars, silent, bufUnderrunCt, played>>

(* Mutant: input() moves one byte too many to the front. *)
DecodeBuflen_Keeps ==
    /\ Mad("decode", "input")
    /\ readBuf' = IF Len(readBuf) \in {0, READBUFSZ} THEN readBuf
                  ELSE <<Head(readBuf)>> \o readBuf
    /\ UNCHANGED <<chanVars, silent, bufUnderrunCt, played>>

(* MAD_ERROR_BUFLEN: what is left starts a frame that is not complete.  It *)
(* may be a full buffer still; input() then has no room to read into and   *)
(* hands over the same bytes again.                                        *)
DecodeBuflen ==
    /\ Mad("decode", "input")
    /\ UNCHANGED <<chanVars, readBuf, silent, bufUnderrunCt, played>>

-----------------------------------------------------------------------------
ReaderStep == \/ OpenConn \/ ResolveOk \/ ResolveFails \/ DelayEnds \/ SocketOk \/ SocketFails
              \/ ConnectOk \/ ConnectFails \/ Check \/ Close
              \/ \E n \in 1 .. WBufSize : Write(n)

MadStep == \/ MadInit \/ InputRead \/ InputSilence \/ PushSilence
           \/ InputReturns \/ DecodeBuflen
           \/ \E n \in 1 .. READBUFSZ : Read(n) \/ Decode(n)

Next == UserInit \/ Connect \/ ReaderStep \/ ReadData \/ ReadEnds \/ MadStep

Spec == Init /\ [][Next]_vars
-----------------------------------------------------------------------------
(* Correctness *)

TypeOK ==
    /\ conPc \in {"init", "hang", "none", "connect", "deleted"}
    /\ rdrPc \in {"none", "open", "resolve", "delay", "socket", "connect", "read",
                  "write", "check", "lastCheck", "close"}
    /\ left \in 0 .. WBufSize /\ madRunning \in BOOLEAN /\ sockets \in 0 .. 1
    /\ pipe \in Seq(0 .. Names - 1) /\ Len(pipe) <= FifoLen
    /\ sent \in 0 .. Names - 1
    /\ madPc \in {"none", "start", "gone", "input", "read", "silence", "decode"}
    /\ madTasks \in Nat
    /\ readBuf \in Seq(0 .. Names - 1) /\ Len(readBuf) <= READBUFSZ
    /\ want \in 0 .. READBUFSZ /\ out \in Seq(0 .. Names - 1)
    /\ silent \in 0 .. Silence /\ bufUnderrunCt \in 0 .. MaxUnderrun
    /\ played \in BOOLEAN

(* The static readBuf, the static tables of libmad and the I2S ring have   *)
(* one user: however often the connection is lost and made again, at most  *)
(* one tskmad is ever created.                                             *)
OneDecoder == madTasks <= 1 /\ (madTasks = 1 => madRunning)

(* Every way out of a connection closes its socket: none is leaked, and    *)
(* none is used after it was closed.                                       *)
SocketsClosed ==
    sockets = IF rdrPc \in {"connect", "read", "write", "check", "lastCheck", "close"}
              THEN 1 ELSE 0

(* What the decoder has not yet used, in readBuf, on its way there and in  *)
(* the FIFO, is the stream without a hole and in order, up to the last     *)
(* byte written: refills neither lose nor repeat a byte.                   *)
NothingLost ==
    LET partial == IF madPc = "read" THEN out ELSE <<>>
        ahead == readBuf \o partial \o pipe
    IN  \A k \in 1 .. Len(ahead) : ahead[k] = (sent + Names - (Len(ahead) - k + 1)) % Names

(* When the connection falls behind, input() plays silence; it never       *)
(* stands still in spiRamFifoRead, which would freeze the last samples.    *)
SilenceNotStandstill == madPc = "read" => want <= spiRamFifoFill

(* The half-full FIFO gives the first input() all it needs: playing does   *)
(* not start with an underrun.                                             *)
FirstFillIsQuiet == ~played /\ madPc # "none" => bufUnderrunCt = 0 /\ silent = 0

(* Fairness.  A task that can run does, tskmad whenever tskreader is       *)
(* blocked often enough; delays end, calls that wait for the network end   *)
(* or not, and socket() may fail for ever.                                 *)
FairSpec ==
    /\ Spec
    /\ WF_vars(UserInit) /\ WF_vars(Connect) /\ WF_vars(ReaderStep)
    /\ SF_vars(MadStep)

(* The decoder takes something from its buffer now and then.  So it does,  *)
(* as MadStream shows (Advances), but for a header of layer II whose frame *)
(* readBuf cannot hold (Stands): that one it asks for again for ever.      *)
Understands == SF_vars(\E n \in 1 .. READBUFSZ : Decode(n))

(* socket() fails for ever: openConn tries again without a pause, and      *)
(* tskmad, which has the lower priority, never runs again.                 *)
Spins == /\ []<>(rdrPc = "socket")
         /\ <>[](rdrPc \in {"open", "resolve", "socket"})

(* There are sockets, and a server that is found, answers and sends now    *)
(* and then.                                                               *)
Served ==
    SF_vars(SocketOk) /\ SF_vars(ResolveOk) /\ SF_vars(ConnectOk) /\ SF_vars(ReadData)

(* A task was not created, an allocation failed, or the RAM is broken. *)
Broken ==
    \/ conPc \in {"hang", "none"}
    \/ conPc = "deleted" /\ rdrPc = "none"
    \/ madRunning /\ madTasks = 0
    \/ madPc = "gone"

(* A decoder that lives, and does not stand, takes the bytes out of the    *)
(* FIFO, whatever becomes of the connection: the reader above it leaves it *)
(* time to run, in every retry but that of socket().                       *)
EveryByteIsTaken ==
    Understands =>
        Spins \/ \A b \in 0 .. Names - 1 :
                    (pipe # <<>> /\ pipe[1] = b /\ madTasks > 0)
                        ~> (madPc = "gone" \/ ~(pipe # <<>> /\ pipe[1] = b))

(* With a server that sends, and all the memory that is needed, the        *)
(* decoder is started and keeps getting full buffers; the reader never     *)
(* blocks for ever.  A decoder that stands would let the FIFO fill.        *)
MusicPlays ==
    Understands /\ Served /\ []~Broken => []<>(madPc = "decode") /\ []<>(rdrPc # "write")
=============================================================================
