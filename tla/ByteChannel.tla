---------------------------- MODULE ByteChannel ----------------------------
(***************************************************************************)
(* What the SPI RAM FIFO promises its two users, with no index, mutex or   *)
(* semaphore in sight: a channel that holds at most Capacity bytes and     *)
(* hands them out in the order they were put in.  A byte is its place in   *)
(* the stream, modulo Names.                                               *)
(***************************************************************************)
EXTENDS Integers, Sequences

CONSTANTS Capacity, MaxLen, Names

VARIABLES pipe,    \* the bytes in transit, oldest first
          sent,    \* the name of the next byte to enter
          want,    \* how many bytes the request in progress still lacks
          out      \* the bytes it has been given

chanVars == <<pipe, sent, want, out>>

(* n names from b on *)
Run(b, n) == [k \in 1 .. n |-> (b + k - 1) % Names]

ChanInit == pipe = <<>> /\ sent = 0 /\ want = 0 /\ out = <<>>

Put(n) ==
    /\ Len(pipe) + n <= Capacity
    /\ pipe' = pipe \o Run(sent, n) /\ sent' = (sent + n) % Names
    /\ UNCHANGED <<want, out>>

Request(len) ==
    /\ want = 0
    /\ want' = len /\ out' = <<>>
    /\ UNCHANGED <<pipe, sent>>

Take(n) ==
    /\ n <= want /\ n <= Len(pipe)
    /\ want' = want - n
    /\ out' = out \o SubSeq(pipe, 1, n)
    /\ pipe' = SubSeq(pipe, n + 1, Len(pipe))
    /\ UNCHANGED sent

ChanNext ==
    \/ \E n \in 1 .. Capacity : Put(n) \/ Take(n)
    \/ \E len \in 1 .. MaxLen : Request(len)

ChanSpec == ChanInit /\ [][ChanNext]_chanVars
=============================================================================
