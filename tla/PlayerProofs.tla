----------------------------- MODULE PlayerProofs -----------------------------
(***************************************************************************)
(* The safety of the tasks of user_main.c for every length of the FIFO, of *)
(* readBuf and of the reader's buffer, with or without failing             *)
(* allocations, proved from an inductive invariant.                        *)
(***************************************************************************)
EXTENDS Player, SequenceTheorems, TLAPS

Byte == 0 .. Names - 1

(* Name of the byte d places before the one named e. *)
Before(e, d) == (e + Names - d) % Names

(* A piece of the stream that ends d bytes before the byte named e. *)
Piece(seq, e, d) == \A k \in 1 .. Len(seq) : seq[k] = Before(e, d + Len(seq) - k + 1)

(* Bytes that were read by the call of spiRamFifoRead under way. *)
Given == IF madPc = "read" THEN out ELSE <<>>

(* The decoder exists when tskreader thinks so, or could not be created. *)
Tasks ==
    /\ madTasks <= 1
    /\ ~madRunning => madTasks = 0 /\ madPc = "none"
    /\ madPc # "none" => madTasks = 1

(* A call of spiRamFifoRead: what it lacks is in the FIFO and has room. *)
Reading ==
    /\ madPc # "read" => want = 0
    /\ madPc = "read" => /\ want >= 1 /\ want <= Len(pipe)
                         /\ Len(readBuf) + Len(out) + want <= READBUFSZ
    /\ madPc = "silence" => silent >= 1

(* Until input() has returned for the first time there are enough bytes    *)
(* for it on their way.                                                    *)
Filled ==
    ~played => /\ bufUnderrunCt = 0 /\ silent = 0
               /\ madPc \notin {"silence", "decode"}
               /\ madPc \in {"start", "input", "read"} =>
                      Len(readBuf) + Len(Given) + Len(pipe) >= READBUFSZ

(* NothingLost, piece by piece. *)
Places ==
    /\ Piece(pipe, sent, 0)
    /\ Piece(Given, sent, Len(pipe))
    /\ Piece(readBuf, sent, Len(pipe) + Len(Given))

(* tskreader is created by the last step of tskconnect. *)
Started == conPc # "deleted" => rdrPc = "none"

IInv == TypeOK /\ SocketsClosed /\ Started /\ Tasks /\ Reading /\ Filled /\ Places
-----------------------------------------------------------------------------
LEMMA ConstantsAreNat ==
    /\ READBUFSZ \in Nat /\ READBUFSZ >= 1 /\ WBufSize \in Nat /\ WBufSize >= 1
    /\ FifoLen \in Nat /\ FifoLen >= 2 * READBUFSZ /\ FifoLen >= 2 * WBufSize
    /\ Names \in Nat /\ Names > FifoLen + READBUFSZ
    /\ Silence \in Nat /\ Silence >= 1 /\ MaxUnderrun \in Nat
BY PlayerAssumption

(* The remainder of a number that is less than twice the divisor. *)
LEMMA SmallRemainder ==
    ASSUME NEW n \in Nat, n >= 1, NEW x \in Int, x >= 0, x < 2 * n
    PROVE  x % n = IF x < n THEN x ELSE x - n
<1>1. CASE x < n
    BY <1>1, SMT
<1>2. CASE x >= n
    <2>1. x - n \in 0 .. n - 1
        BY <1>2, SMT
    <2>2. x = n * 1 + (x - n)
        BY SMT
    <2>. QED  BY <2>1, <2>2, <1>2, SMT
<1>. QED  BY <1>1, <1>2, SMT

(* Names after n more bytes: those further back than n, and those since. *)
LEMMA NamesMove ==
    ASSUME NEW e \in Byte, NEW n \in Nat, n <= Names, NEW x \in Nat, x <= Names
    PROVE  /\ n <= x => Before((e + n) % Names, x) = Before(e, x - n)
           /\ x <= n /\ 1 <= x => Before((e + n) % Names, x) = (e + n - x) % Names
<1>. DEFINE m == (e + n) % Names
<1>1. Names \in Nat /\ Names >= 1 /\ e \in Int /\ 0 <= e /\ e < Names
    BY ConstantsAreNat DEF Byte
<1>2. m = IF e + n < Names THEN e + n ELSE e + n - Names
    <2>. DEFINE w == e + n
    <2>1. w \in Int /\ 0 <= w /\ w < 2 * Names
        BY <1>1
    <2>. HIDE DEF w
    <2>2. w % Names = IF w < Names THEN w ELSE w - Names
        BY <1>1, <2>1, SmallRemainder
    <2>. QED  BY <1>1, <2>2 DEF w, m
<1>3. m \in Int /\ 0 <= m /\ m < Names
    BY <1>1, <1>2
<1>. HIDE DEF m
<1>4. ASSUME n <= x  PROVE Before(m, x) = Before(e, x - n)
    <2>. DEFINE p == m + Names - x  q == e + Names - (x - n)
    <2>1. p \in Int /\ 0 <= p /\ p < 2 * Names /\ q \in Int /\ 0 <= q /\ q < 2 * Names
        BY <1>1, <1>3, <1>4
    <2>2. q = p \/ q = p + Names
        BY <1>1, <1>2, <1>3
    <2>. HIDE DEF p, q
    <2>3. p % Names = q % Names
        <3>1. p % Names = IF p < Names THEN p ELSE p - Names
            BY <1>1, <2>1, SmallRemainder
        <3>2. q % Names = IF q < Names THEN q ELSE q - Names
            BY <1>1, <2>1, SmallRemainder
        <3>. QED  BY <3>1, <3>2, <2>1, <2>2, <1>1
    <2>. QED  BY <2>3 DEF p, q, Before
<1>5. ASSUME x <= n, 1 <= x  PROVE Before(m, x) = (e + n - x) % Names
    <2>. DEFINE p == m + Names - x  q == e + n - x
    <2>1. p \in Int /\ 0 <= p /\ p < 2 * Names /\ q \in Int /\ 0 <= q /\ q < 2 * Names
        BY <1>1, <1>3, <1>5
    <2>2. p = q + Names \/ p = q
        BY <1>1, <1>2, <1>3
    <2>. HIDE DEF p, q
    <2>3. p % Names = q % Names
        <3>1. p % Names = IF p < Names THEN p ELSE p - Names
            BY <1>1, <2>1, SmallRemainder
        <3>2. q % Names = IF q < Names THEN q ELSE q - Names
            BY <1>1, <2>1, SmallRemainder
        <3>. QED  BY <3>1, <3>2, <2>1, <2>2, <1>1
    <2>. QED  BY <2>3 DEF p, q, Before
<1>. QED  BY <1>4, <1>5 DEF m

(* Pieces are cut and joined. *)
LEMMA PieceTail ==
    ASSUME NEW seq \in Seq(Byte), NEW e \in Byte, NEW d \in Nat, NEW n \in Nat,
           n <= Len(seq), Piece(seq, e, d)
    PROVE  /\ SubSeq(seq, n + 1, Len(seq)) \in Seq(Byte)
           /\ Len(SubSeq(seq, n + 1, Len(seq))) = Len(seq) - n
           /\ Piece(SubSeq(seq, n + 1, Len(seq)), e, d)
<1>. DEFINE t == SubSeq(seq, n + 1, Len(seq))
<1>1. t \in Seq(Byte) /\ Len(t) = Len(seq) - n
    BY SubSeqProperties
<1>2. \A k \in 1 .. Len(t) : t[k] = seq[n + k] /\ n + k \in 1 .. Len(seq)
    BY <1>1, SubSeqProperties
<1>. HIDE DEF t
<1>3. ASSUME NEW k \in 1 .. Len(t)  PROVE t[k] = Before(e, d + Len(t) - k + 1)
    <2>1. d + Len(t) - k + 1 = d + Len(seq) - (n + k) + 1
        BY <1>1
    <2>. QED  BY <1>2, <2>1 DEF Piece
<1>. QED  BY <1>1, <1>3 DEF Piece, t

LEMMA PieceHead ==
    ASSUME NEW seq \in Seq(Byte), NEW e \in Byte, NEW d \in Nat, NEW n \in Nat,
           n <= Len(seq), Piece(seq, e, d)
    PROVE  /\ SubSeq(seq, 1, n) \in Seq(Byte)
           /\ Len(SubSeq(seq, 1, n)) = n
           /\ Piece(SubSeq(seq, 1, n), e, d + Len(seq) - n)
<1>. DEFINE t == SubSeq(seq, 1, n)
<1>1. t \in Seq(Byte) /\ Len(t) = n
    BY SubSeqProperties
<1>2. \A k \in 1 .. Len(t) : t[k] = seq[k] /\ k \in 1 .. Len(seq)
    BY <1>1, SubSeqProperties
<1>. HIDE DEF t
<1>3. ASSUME NEW k \in 1 .. Len(t)
      PROVE  t[k] = Before(e, (d + Len(seq) - n) + Len(t) - k + 1)
    <2>1. (d + Len(seq) - n) + Len(t) - k + 1 = d + Len(seq) - k + 1
        BY <1>1
    <2>. QED  BY <1>2, <2>1 DEF Piece
<1>. QED  BY <1>1, <1>3 DEF Piece, t

LEMMA PieceConcat ==
    ASSUME NEW s \in Seq(Byte), NEW t \in Seq(Byte), NEW e \in Byte, NEW d \in Nat,
           Piece(s, e, d + Len(t)), Piece(t, e, d)
    PROVE  /\ s \o t \in Seq(Byte) /\ Len(s \o t) = Len(s) + Len(t)
           /\ Piece(s \o t, e, d)
<1>. DEFINE u == s \o t
<1>1. u \in Seq(Byte) /\ Len(u) = Len(s) + Len(t)
    BY ConcatProperties
<1>2. \A k \in 1 .. Len(u) : u[k] = IF k <= Len(s) THEN s[k] ELSE t[k - Len(s)]
    BY <1>1, ConcatProperties
<1>. HIDE DEF u
<1>3. ASSUME NEW k \in 1 .. Len(u)  PROVE u[k] = Before(e, d + Len(u) - k + 1)
    <2>1. CASE k <= Len(s)
        <3>1. k \in 1 .. Len(s) /\ u[k] = s[k]
            BY <1>2, <2>1
        <3>2. d + Len(u) - k + 1 = (d + Len(t)) + Len(s) - k + 1
            BY <1>1
        <3>. QED  BY <3>1, <3>2 DEF Piece
    <2>2. CASE k > Len(s)
        <3>1. k - Len(s) \in 1 .. Len(t) /\ u[k] = t[k - Len(s)]
            BY <1>1, <1>2, <2>2
        <3>2. d + Len(u) - k + 1 = d + Len(t) - (k - Len(s)) + 1
            BY <1>1
        <3>. QED  BY <3>1, <3>2 DEF Piece
    <2>. QED  BY <2>1, <2>2
<1>. QED  BY <1>1, <1>3 DEF Piece, u

(* What was a piece still is one when n bytes follow, n places further back. *)
LEMMA PieceMoves ==
    ASSUME NEW seq \in Seq(Byte), NEW e \in Byte, NEW d \in Nat, NEW n \in Nat,
           d + Len(seq) + n <= Names, Piece(seq, e, d)
    PROVE  Piece(seq, (e + n) % Names, d + n)
<1>1. ASSUME NEW k \in 1 .. Len(seq)
      PROVE  seq[k] = Before((e + n) % Names, (d + n) + Len(seq) - k + 1)
    <2>. DEFINE x == (d + n) + Len(seq) - k + 1
    <2>1. x \in Nat /\ n <= x /\ x <= Names /\ n <= Names /\ x - n = d + Len(seq) - k + 1
        BY ConstantsAreNat
    <2>. HIDE DEF x
    <2>2. Before((e + n) % Names, x) = Before(e, x - n)
        BY <2>1, NamesMove
    <2>. QED  BY <2>1, <2>2 DEF Piece, x
<1>. QED  BY <1>1 DEF Piece

(* What Put appends. *)
LEMMA RunIsPiece ==
    ASSUME NEW e \in Byte, NEW n \in Nat, n <= Names
    PROVE  /\ Fifo!Run(e, n) \in Seq(Byte) /\ Len(Fifo!Run(e, n)) = n
           /\ Piece(Fifo!Run(e, n), (e + n) % Names, 0)
<1>1. \A k \in 1 .. n : (e + k - 1) % Names \in Byte
    BY ConstantsAreNat DEF Byte
<1>2. Fifo!Run(e, n) \in Seq(Byte) /\ Len(Fifo!Run(e, n)) = n
    BY <1>1 DEF Fifo!Run
<1>3. ASSUME NEW k \in 1 .. n
      PROVE  (e + k - 1) % Names = Before((e + n) % Names, 0 + n - k + 1)
    <2>. DEFINE x == 0 + n - k + 1
    <2>1. x \in Nat /\ x <= n /\ 1 <= x /\ x <= Names /\ e + n - x = e + k - 1
        BY ConstantsAreNat DEF Byte
    <2>. HIDE DEF x
    <2>2. Before((e + n) % Names, x) = (e + n - x) % Names
        BY <2>1, NamesMove
    <2>. QED  BY <2>1, <2>2 DEF x
<1>. QED  BY <1>2, <1>3 DEF Piece, Fifo!Run

-----------------------------------------------------------------------------
(* The invariant holds at first, and what it says of the stream. *)
LEMMA InitEstablishes == Init => IInv
<1>. SUFFICES ASSUME Init  PROVE IInv
    OBVIOUS
<1>1. /\ conPc = "init" /\ rdrPc = "none" /\ left = 0 /\ madRunning = FALSE /\ sockets = 0
      /\ pipe = <<>> /\ sent = 0 /\ want = 0 /\ out = <<>>
      /\ madPc = "none" /\ madTasks = 0 /\ readBuf = <<>>
      /\ silent = 0 /\ bufUnderrunCt = 0 /\ played = FALSE
    BY DEF Init, Fifo!ChanInit
<1>2. TypeOK
    <2>1. <<>> \in Seq(0 .. Names - 1) /\ Len(<<>>) = 0
        BY EmptySeq
    <2>2. 0 \in 0 .. WBufSize /\ 0 \in 0 .. 1 /\ 0 \in 0 .. Names - 1 /\ 0 \in 0 .. READBUFSZ
          /\ 0 \in 0 .. Silence /\ 0 \in 0 .. MaxUnderrun /\ 0 \in Nat
          /\ 0 <= FifoLen /\ 0 <= READBUFSZ
        BY ConstantsAreNat
    <2>. QED  BY <1>1, <2>1, <2>2, Zenon DEF TypeOK
<1>3. SocketsClosed /\ Started /\ Tasks /\ Reading /\ Filled
    BY <1>1 DEF SocketsClosed, Started, Tasks, Reading, Filled
<1>4. Places
    BY <1>1 DEF Places, Piece, Given
<1>. QED  BY <1>2, <1>3, <1>4 DEF IInv

LEMMA PlacesAreTheStream == IInv => NothingLost
<1>. SUFFICES ASSUME IInv  PROVE NothingLost
    OBVIOUS
<1>. USE DEF IInv
<1>1. /\ readBuf \in Seq(Byte) /\ Given \in Seq(Byte) /\ pipe \in Seq(Byte) /\ sent \in Byte
      /\ Len(pipe) \in Nat
    <2>1. /\ readBuf \in Seq(Byte) /\ out \in Seq(Byte) /\ pipe \in Seq(Byte) /\ sent \in Byte
        BY DEF TypeOK, Byte
    <2>2. <<>> \in Seq(Byte)
        BY EmptySeq
    <2>3. Len(pipe) \in Nat
        BY <2>1, LenProperties
    <2>. QED  BY <2>1, <2>2, <2>3, Zenon DEF Given
<1>. DEFINE front == readBuf \o Given  ahead == front \o pipe
<1>2. front \in Seq(Byte) /\ Piece(front, sent, Len(pipe))
    BY <1>1, PieceConcat DEF Places
<1>. HIDE DEF front
<1>3. ahead \in Seq(Byte) /\ Piece(ahead, sent, 0)
    <2>1. Piece(pipe, sent, 0) /\ 0 + Len(pipe) = Len(pipe)
        BY <1>1 DEF Places
    <2>. QED  BY <1>1, <1>2, <2>1, PieceConcat
<1>. HIDE DEF ahead
<1>4. ASSUME NEW k \in 1 .. Len(ahead)
      PROVE  ahead[k] = (sent + Names - (Len(ahead) - k + 1)) % Names
    <2>1. ahead[k] = Before(sent, 0 + Len(ahead) - k + 1)
        BY <1>3 DEF Piece
    <2>2. 0 + Len(ahead) - k + 1 = Len(ahead) - k + 1
        BY <1>3
    <2>. QED  BY <2>1, <2>2 DEF Before
<1>5. ahead = readBuf \o (IF madPc = "read" THEN out ELSE <<>>) \o pipe
    BY DEF ahead, front, Given
<1>. QED  BY <1>4, <1>5 DEF NothingLost
-----------------------------------------------------------------------------
(* Steps of the reader that move no bytes and start no decoder. *)
LEMMA QuietKeeps ==
    ASSUME IInv, TypeOK', SocketsClosed', Started', UNCHANGED <<chanVars, madVars, madRunning>>
    PROVE  IInv'
<1>1. /\ pipe' = pipe /\ sent' = sent /\ want' = want /\ out' = out
      /\ madPc' = madPc /\ madTasks' = madTasks /\ readBuf' = readBuf
      /\ silent' = silent /\ bufUnderrunCt' = bufUnderrunCt /\ played' = played
      /\ madRunning' = madRunning
    BY DEF chanVars, madVars
<1>2. Given' = Given
    BY <1>1 DEF Given
<1>3. Tasks'
    BY <1>1 DEF IInv, Tasks
<1>4. Reading'
    BY <1>1 DEF IInv, Reading
<1>5. Filled'
    BY <1>1, <1>2 DEF IInv, Filled
<1>6. Places'
    BY <1>1, <1>2 DEF IInv, Places, Piece, Before
<1>. QED  BY <1>3, <1>4, <1>5, <1>6 DEF IInv

LEMMA QuietReaderKeeps ==
    ASSUME IInv,
           \/ UserInit \/ Connect \/ OpenConn \/ ResolveOk \/ ResolveFails \/ DelayEnds \/ SocketOk
           \/ SocketFails \/ ConnectOk \/ ConnectFails \/ ReadData \/ ReadEnds \/ Close
    PROVE  IInv'
<1>. DEFINE Held == {"connect", "read", "write", "check", "lastCheck", "close"}
            Pcs == {"none", "open", "resolve", "delay", "socket", "connect", "read",
                    "write", "check", "lastCheck", "close"}
<1>1. UNCHANGED <<chanVars, madVars, madRunning>>
    BY DEF UserInit, Connect, OpenConn, ResolveOk, ResolveFails, DelayEnds, SocketOk, SocketFails,
           ConnectOk, ConnectFails, ReadData, ReadEnds, Close, Reader, rdrVars
<1>2. /\ conPc' \in {"init", "hang", "none", "connect", "deleted"} /\ rdrPc' \in Pcs
      /\ left' \in 0 .. WBufSize
    BY ConstantsAreNat
       DEF IInv, TypeOK, UserInit, Connect, OpenConn, ResolveOk, ResolveFails, DelayEnds, SocketOk,
           SocketFails, ConnectOk, ConnectFails, ReadData, ReadEnds, Close, Reader, conVars, rdrVars
<1>3. sockets' = IF rdrPc' \in Held THEN 1 ELSE 0
    BY DEF IInv, TypeOK, SocketsClosed, Started, UserInit, Connect, OpenConn, ResolveOk, ResolveFails,
           DelayEnds, SocketOk, SocketFails, ConnectOk, ConnectFails, ReadData, ReadEnds, Close,
           Reader, rdrVars
<1>4. SocketsClosed'
    BY <1>3 DEF SocketsClosed
<1>5. TypeOK'
    <2>1. sockets' \in 0 .. 1
        BY <1>3
    <2>. QED  BY <1>1, <1>2, <2>1 DEF IInv, TypeOK, chanVars, madVars
<1>6. Started'
    BY DEF IInv, Started, UserInit, Connect, OpenConn, ResolveOk, ResolveFails, DelayEnds, SocketOk,
           SocketFails, ConnectOk, ConnectFails, ReadData, ReadEnds, Close, Reader, conVars, rdrVars
<1>. QED  BY <1>1, <1>4, <1>5, <1>6, QuietKeeps

(* What the types say of lengths, without sequences of names. *)
LEMMA LengthsAreNat ==
    ASSUME IInv
    PROVE  /\ pipe \in Seq(Byte) /\ readBuf \in Seq(Byte) /\ out \in Seq(Byte)
           /\ Given \in Seq(Byte) /\ sent \in Byte
           /\ Len(pipe) \in Nat /\ Len(readBuf) \in Nat /\ Len(out) \in Nat /\ Len(Given) \in Nat
           /\ Len(pipe) <= FifoLen /\ Len(readBuf) <= READBUFSZ
           /\ Len(readBuf) + Len(Given) <= READBUFSZ
           /\ left \in 0 .. WBufSize /\ want \in 0 .. READBUFSZ
           /\ silent \in 0 .. Silence /\ bufUnderrunCt \in 0 .. MaxUnderrun
<1>1. /\ pipe \in Seq(Byte) /\ readBuf \in Seq(Byte) /\ out \in Seq(Byte) /\ sent \in Byte
      /\ left \in 0 .. WBufSize /\ want \in 0 .. READBUFSZ
      /\ silent \in 0 .. Silence /\ bufUnderrunCt \in 0 .. MaxUnderrun
      /\ Len(pipe) <= FifoLen /\ Len(readBuf) <= READBUFSZ
    BY DEF IInv, TypeOK, Byte
<1>2. Given = out \/ Given = <<>>
    BY DEF Given
<1>3. <<>> \in Seq(Byte) /\ Len(<<>>) = 0
    BY EmptySeq
<1>4. Len(pipe) \in Nat /\ Len(readBuf) \in Nat /\ Len(out) \in Nat
    BY <1>1, LenProperties
<1>5. Len(readBuf) + Len(Given) <= READBUFSZ
    <2>1. CASE madPc = "read"
        BY <1>1, <1>4, <2>1, ConstantsAreNat DEF IInv, Reading, Given
    <2>2. CASE madPc # "read"
        <3>1. Given = <<>>
            BY <2>2 DEF Given
        <3>. QED  BY <1>1, <1>3, <1>4, <3>1
    <2>. QED  BY <2>1, <2>2
<1>. QED  BY <1>1, <1>2, <1>3, <1>4, <1>5

(* Bytes from the network enter the FIFO: all that is on its way moves back. *)
LEMMA WriteKeeps ==
    ASSUME IInv, NEW n \in 1 .. WBufSize, Write(n)
    PROVE  IInv'
<1>. DEFINE run == Fifo!Run(sent, n)
<1>1. /\ rdrPc = "write" /\ n <= left /\ Len(pipe) + n <= FifoLen
      /\ pipe' = pipe \o run /\ sent' = (sent + n) % Names /\ want' = want /\ out' = out
      /\ left' = left - n /\ rdrPc' \in {"write", "check"}
      /\ conPc' = conPc /\ madRunning' = madRunning /\ sockets' = sockets
      /\ madPc' = madPc /\ madTasks' = madTasks /\ readBuf' = readBuf
      /\ silent' = silent /\ bufUnderrunCt' = bufUnderrunCt /\ played' = played
    BY DEF Write, Fifo!Put, conVars, madVars
<1>2. Given' = Given
    BY <1>1 DEF Given
<1>3. /\ n \in Nat /\ n >= 1 /\ n <= FifoLen /\ n <= Names
    BY ConstantsAreNat
<1>4. run \in Seq(Byte) /\ Len(run) = n /\ Piece(run, (sent + n) % Names, 0)
    BY <1>3, LengthsAreNat, RunIsPiece
<1>. HIDE DEF run
<1>5. sent' \in Byte
    <2>1. sent \in Byte
        BY LengthsAreNat
    <2>2. (sent + n) % Names \in Byte
        BY <1>3, <2>1, ConstantsAreNat DEF Byte
    <2>. QED  BY <1>1, <2>2
<1>6. Piece(pipe, sent', n) /\ Piece(Given, sent', Len(pipe) + n)
      /\ Piece(readBuf, sent', Len(pipe) + Len(Given) + n)
    <2>. DEFINE d == Len(pipe)  f == d + Len(Given)
    <2>1. /\ d \in Nat /\ f \in Nat /\ 0 \in Nat
          /\ 0 + Len(pipe) + n <= Names /\ d + Len(Given) + n <= Names
          /\ f + Len(readBuf) + n <= Names /\ 0 + n = n
        <3>1. /\ Len(pipe) \in Nat /\ Len(Given) \in Nat /\ Len(readBuf) \in Nat
              /\ Len(readBuf) + Len(Given) <= READBUFSZ
            BY LengthsAreNat
        <3>2. Len(pipe) + n <= FifoLen /\ n \in Nat
            BY <1>1, <1>3
        <3>3. READBUFSZ \in Nat /\ FifoLen \in Nat /\ Names \in Nat /\ Names > FifoLen + READBUFSZ
            BY ConstantsAreNat
        <3>. QED  BY <3>1, <3>2, <3>3
    <2>2. Piece(pipe, sent, 0) /\ Piece(Given, sent, d) /\ Piece(readBuf, sent, f)
        BY DEF IInv, Places
    <2>. HIDE DEF d, f
    <2>3. Piece(pipe, (sent + n) % Names, 0 + n)
        BY <1>3, <2>1, <2>2, LengthsAreNat, PieceMoves
    <2>4. Piece(Given, (sent + n) % Names, d + n)
        BY <1>3, <2>1, <2>2, LengthsAreNat, PieceMoves
    <2>5. Piece(readBuf, (sent + n) % Names, f + n)
        BY <1>3, <2>1, <2>2, LengthsAreNat, PieceMoves
    <2>. QED  BY <1>1, <2>1, <2>3, <2>4, <2>5 DEF d, f
<1>7. pipe' \in Seq(Byte) /\ Len(pipe') = Len(pipe) + n /\ Piece(pipe', sent', 0)
    <2>1. 0 \in Nat /\ 0 + Len(run) = n
        BY <1>3, <1>4
    <2>2. Piece(run, sent', 0) /\ Piece(pipe, sent', 0 + Len(run))
        BY <1>1, <1>4, <1>6, <2>1
    <2>3. /\ pipe \o run \in Seq(Byte) /\ Len(pipe \o run) = Len(pipe) + Len(run)
          /\ Piece(pipe \o run, sent', 0)
        BY <1>4, <1>5, <2>1, <2>2, LengthsAreNat, PieceConcat
    <2>. QED  BY <1>1, <1>4, <2>3
<1>8. Places'
    <2>1. /\ Len(pipe') = Len(pipe) + n
          /\ Len(pipe) + Len(Given) + n = Len(pipe') + Len(Given)
        BY <1>3, <1>7, LengthsAreNat
    <2>2. /\ Piece(pipe', sent', 0) /\ Piece(Given', sent', Len(pipe'))
          /\ Piece(readBuf', sent', Len(pipe') + Len(Given'))
        BY <1>1, <1>2, <1>6, <1>7, <2>1
    <2>. QED  BY <2>2 DEF Places, Piece, Before
<1>9. TypeOK'
    <2>1. left' \in 0 .. WBufSize /\ Len(pipe') <= FifoLen
        <3>1. left - n \in 0 .. WBufSize
            <4>1. left \in 0 .. WBufSize /\ WBufSize \in Nat
                BY LengthsAreNat, ConstantsAreNat
            <4>2. n \in Nat /\ n <= left
                BY <1>1, <1>3
            <4>. QED  BY <4>1, <4>2
        <3>2. Len(pipe') <= FifoLen
            BY <1>1, <1>7
        <3>. QED  BY <1>1, <3>1, <3>2
    <2>2. pipe' \in Seq(0 .. Names - 1) /\ sent' \in 0 .. Names - 1
        BY <1>5, <1>7 DEF Byte
    <2>. QED  BY <1>1, <2>1, <2>2 DEF IInv, TypeOK
<1>10. SocketsClosed' /\ Started'
    BY <1>1 DEF IInv, SocketsClosed, Started
<1>11. Tasks'
    BY <1>1 DEF IInv, Tasks
<1>12. Reading'
    BY <1>1, <1>3, <1>7, LengthsAreNat DEF IInv, Reading
<1>13. Filled'
    BY <1>1, <1>2, <1>3, <1>7, LengthsAreNat, ConstantsAreNat DEF IInv, Filled
<1>. QED  BY <1>8, <1>9, <1>10, <1>11, <1>12, <1>13 DEF IInv

(* tskmad is created when more than half of the FIFO is full. *)
LEMMA CheckKeeps ==
    ASSUME IInv, Check
    PROVE  IInv'
<1>1. /\ rdrPc \in {"check", "lastCheck"} /\ rdrPc' \in {"read", "close"}
      /\ conPc' = conPc /\ left' = left /\ sockets' = sockets
      /\ pipe' = pipe /\ sent' = sent /\ want' = want /\ out' = out /\ readBuf' = readBuf
      /\ silent' = silent /\ bufUnderrunCt' = bufUnderrunCt /\ played' = played
    BY DEF Check, conVars, chanVars
<1>2. SocketsClosed' /\ Started'
    BY <1>1 DEF IInv, SocketsClosed, Started
<1>3. CASE ~NeedMad
    <2>1. madRunning' = madRunning /\ madTasks' = madTasks /\ madPc' = madPc
        BY <1>3 DEF Check
    <2>2. UNCHANGED <<chanVars, madVars, madRunning>>
        BY <1>1, <2>1 DEF chanVars, madVars
    <2>3. TypeOK'
        BY <1>1, <2>1 DEF IInv, TypeOK
    <2>. QED  BY <1>2, <2>2, <2>3, QuietKeeps
<1>4. CASE NeedMad
    <2>1. /\ madRunning = FALSE /\ madRunning' = TRUE
          /\ \/ madTasks' = madTasks + 1 /\ madPc' = "start"
             \/ madTasks' = madTasks /\ madPc' = madPc
        BY <1>4 DEF Check, NeedMad, StartMad
    <2>2. madTasks = 0 /\ madPc = "none"
        BY <2>1 DEF IInv, Tasks
    <2>3. Len(pipe) >= READBUFSZ
        <3>1. FifoLen - Len(pipe) < FifoLen \div 2
            BY <1>4 DEF NeedMad, spiRamFifoFree, spiRamFifoFill
        <3>. QED  BY <3>1, LengthsAreNat, ConstantsAreNat
    <2>4. Given = <<>> /\ Given' = <<>>
        BY <2>1, <2>2 DEF Given
    <2>5. TypeOK'
        <3>1. madTasks' \in Nat
            BY <2>1, <2>2
        <3>2. madRunning' \in BOOLEAN
            BY <2>1
        <3>. QED  BY <1>1, <2>1, <2>2, <3>1, <3>2 DEF IInv, TypeOK
    <2>6. Tasks'
        BY <2>1, <2>2 DEF Tasks
    <2>7. Reading'
        BY <1>1, <2>1, <2>2 DEF IInv, Reading
    <2>8. Filled'
        <3>1. madPc' \notin {"silence", "decode", "input", "read"}
            BY <2>1, <2>2
        <3>2. Len(readBuf') + Len(Given') + Len(pipe') >= READBUFSZ
            <4>1. Len(<<>>) = 0
                BY EmptySeq
            <4>. QED  BY <1>1, <2>3, <2>4, <4>1, LengthsAreNat, ConstantsAreNat
        <3>3. ~played' => bufUnderrunCt' = 0 /\ silent' = 0
            BY <1>1 DEF IInv, Filled
        <3>. QED  BY <3>1, <3>2, <3>3 DEF Filled
    <2>9. Places'
        BY <1>1, <2>4 DEF IInv, Places, Piece, Before
    <2>. QED  BY <1>2, <2>5, <2>6, <2>7, <2>8, <2>9 DEF IInv
<1>. QED  BY <1>3, <1>4

-----------------------------------------------------------------------------
(* Steps of tskmad that move no bytes. *)
LEMMA MadQuietKeeps ==
    ASSUME IInv, UNCHANGED <<conVars, rdrVars, chanVars, readBuf, madTasks>>,
           madPc # "none", madPc # "read",
           madPc' \in {"start", "gone", "input", "silence", "decode"},
           silent' \in 0 .. Silence, bufUnderrunCt' \in 0 .. MaxUnderrun, played' \in BOOLEAN,
           madPc' = "silence" => silent' >= 1, Filled'
    PROVE  IInv'
<1>1. /\ conPc' = conPc /\ rdrPc' = rdrPc /\ left' = left /\ madRunning' = madRunning
      /\ sockets' = sockets /\ pipe' = pipe /\ sent' = sent /\ want' = want /\ out' = out
      /\ readBuf' = readBuf /\ madTasks' = madTasks
    BY DEF conVars, rdrVars, chanVars
<1>2. madPc' # "none" /\ madPc' # "read"
    OBVIOUS
<1>3. Given = <<>> /\ Given' = <<>>
    BY <1>2 DEF Given
<1>4. TypeOK'
    BY <1>1 DEF IInv, TypeOK
<1>5. SocketsClosed' /\ Started'
    BY <1>1 DEF IInv, SocketsClosed, Started
<1>6. Tasks'
    BY <1>1, <1>2 DEF IInv, Tasks
<1>7. Reading'
    BY <1>1, <1>2 DEF IInv, Reading
<1>8. Places'
    BY <1>1, <1>3 DEF IInv, Places, Piece, Before
<1>. QED  BY <1>4, <1>5, <1>6, <1>7, <1>8 DEF IInv

LEMMA MadInitKeeps ==
    ASSUME IInv, MadInit
    PROVE  IInv'
<1>1. /\ madPc = "start" /\ madPc' \in {"input", "gone"}
      /\ bufUnderrunCt' \in {0, bufUnderrunCt} /\ silent' = silent /\ played' = played
      /\ UNCHANGED <<conVars, rdrVars, chanVars, readBuf, madTasks>>
    BY DEF MadInit, Mad
<1>2. Given = <<>> /\ Given' = <<>> /\ pipe' = pipe /\ readBuf' = readBuf
    BY <1>1 DEF Given, chanVars
<1>3. silent' \in 0 .. Silence /\ bufUnderrunCt' \in 0 .. MaxUnderrun
    BY <1>1, LengthsAreNat, ConstantsAreNat
<1>4. played' \in BOOLEAN
    BY <1>1 DEF IInv, TypeOK
<1>5. Filled'
    BY <1>1, <1>2 DEF IInv, Filled
<1>. QED  BY <1>1, <1>3, <1>4, <1>5, MadQuietKeeps

LEMMA InputReturnsKeeps ==
    ASSUME IInv, InputReturns
    PROVE  IInv'
<1>1. /\ madPc = "input" /\ madPc' = "decode" /\ played' = TRUE
      /\ bufUnderrunCt' = bufUnderrunCt /\ silent' = silent
      /\ UNCHANGED <<conVars, rdrVars, chanVars, readBuf, madTasks>>
    BY DEF InputReturns, Mad
<1>2. silent' \in 0 .. Silence /\ bufUnderrunCt' \in 0 .. MaxUnderrun
    BY <1>1, LengthsAreNat
<1>3. Filled' /\ played' \in BOOLEAN
    BY <1>1 DEF Filled
<1>. QED  BY <1>1, <1>2, <1>3, MadQuietKeeps

LEMMA DecodeBuflenKeeps ==
    ASSUME IInv, DecodeBuflen
    PROVE  IInv'
<1>1. /\ madPc = "decode" /\ madPc' = "input" /\ played' = played
      /\ bufUnderrunCt' = bufUnderrunCt /\ silent' = silent
      /\ UNCHANGED <<conVars, rdrVars, chanVars, readBuf, madTasks>>
    BY DEF DecodeBuflen, Mad
<1>2. silent' \in 0 .. Silence /\ bufUnderrunCt' \in 0 .. MaxUnderrun
    BY <1>1, LengthsAreNat
<1>3. played' = TRUE
    BY <1>1 DEF IInv, TypeOK, Filled
<1>4. Filled' /\ played' \in BOOLEAN
    BY <1>3 DEF Filled
<1>. QED  BY <1>1, <1>2, <1>4, MadQuietKeeps

(* Silence is played only when input() has returned before. *)
LEMMA InputSilenceKeeps ==
    ASSUME IInv, InputSilence
    PROVE  IInv'
<1>1. /\ madPc = "input" /\ madPc' = "silence" /\ played' = played /\ silent' = Silence
      /\ bufUnderrunCt' = Smaller(bufUnderrunCt + 1, MaxUnderrun)
      /\ Len(readBuf) < READBUFSZ /\ Wanted = 0
      /\ UNCHANGED <<conVars, rdrVars, chanVars, readBuf, madTasks>>
    BY DEF InputSilence, Mad
<1>2. silent' \in 0 .. Silence /\ silent' >= 1
    BY <1>1, ConstantsAreNat
<1>3. bufUnderrunCt' \in 0 .. MaxUnderrun
    BY <1>1, LengthsAreNat, ConstantsAreNat DEF Smaller
<1>4. Len(pipe) = 0
    BY <1>1, LengthsAreNat, ConstantsAreNat DEF Wanted, Smaller, spiRamFifoFill
<1>5. Len(Given) = 0
    BY <1>1, EmptySeq DEF Given
<1>6. ~(Len(readBuf) + Len(Given) + Len(pipe) >= READBUFSZ)
    BY <1>1, <1>4, <1>5, LengthsAreNat, ConstantsAreNat
<1>7. played = TRUE
    BY <1>1, <1>6 DEF IInv, TypeOK, Filled
<1>8. Filled' /\ played' \in BOOLEAN
    BY <1>1, <1>7 DEF Filled
<1>. QED  BY <1>1, <1>2, <1>3, <1>8, MadQuietKeeps

LEMMA PushSilenceKeeps ==
    ASSUME IInv, PushSilence
    PROVE  IInv'
<1>1. /\ madPc = "silence" /\ madPc' = (IF silent = 1 THEN "input" ELSE "silence")
      /\ played' = played /\ silent' = silent - 1 /\ bufUnderrunCt' = bufUnderrunCt
      /\ UNCHANGED <<conVars, rdrVars, chanVars, readBuf, madTasks>>
    BY DEF PushSilence, Mad
<1>2. silent >= 1
    BY <1>1 DEF IInv, Reading
<1>3. silent' \in 0 .. Silence
    BY <1>1, <1>2, LengthsAreNat, ConstantsAreNat
<1>4. madPc' \in {"input", "silence"}
    BY <1>1
<1>5. madPc' = "silence" => silent' >= 1
    BY <1>1, <1>2, LengthsAreNat
<1>6. bufUnderrunCt' \in 0 .. MaxUnderrun
    BY <1>1, LengthsAreNat
<1>7. played = TRUE
    BY <1>1 DEF IInv, TypeOK, Filled
<1>8. Filled' /\ played' \in BOOLEAN
    BY <1>1, <1>7 DEF Filled
<1>. QED  BY <1>1, <1>3, <1>4, <1>5, <1>6, <1>8, MadQuietKeeps

-----------------------------------------------------------------------------
(* Steps of tskmad that move bytes. *)

(* input() asks for no more than the FIFO holds. *)
LEMMA InputReadKeeps ==
    ASSUME IInv, InputRead
    PROVE  IInv'
<1>1. /\ madPc = "input" /\ madPc' = "read" /\ want' = Wanted /\ out' = <<>>
      /\ pipe' = pipe /\ sent' = sent /\ readBuf' = readBuf /\ madTasks' = madTasks
      /\ conPc' = conPc /\ rdrPc' = rdrPc /\ left' = left /\ madRunning' = madRunning
      /\ sockets' = sockets
      /\ silent' = silent /\ bufUnderrunCt' = bufUnderrunCt /\ played' = played
      /\ Len(readBuf) < READBUFSZ /\ Wanted > 0
    BY DEF InputRead, Mad, Fifo!Request, conVars, rdrVars
<1>2. <<>> \in Seq(0 .. Names - 1) /\ Len(<<>>) = 0
    BY EmptySeq
<1>3. Given = <<>> /\ Given' = <<>>
    BY <1>1 DEF Given
<1>4. /\ Wanted \in 1 .. READBUFSZ /\ Wanted <= Len(pipe)
      /\ Len(readBuf) + 0 + Wanted <= READBUFSZ
    <2>1. /\ Len(readBuf) \in Nat /\ Len(readBuf) < READBUFSZ /\ READBUFSZ \in Nat
          /\ Len(pipe) \in Nat /\ Wanted > 0
        BY <1>1, LengthsAreNat, ConstantsAreNat
    <2>2. Wanted = IF READBUFSZ - Len(readBuf) < Len(pipe) THEN READBUFSZ - Len(readBuf)
                   ELSE Len(pipe)
        BY DEF Wanted, Smaller, spiRamFifoFill
    <2>. HIDE DEF Wanted
    <2>. QED  BY <2>1, <2>2
<1>5. TypeOK'
    <2>1. want' \in 0 .. READBUFSZ
        BY <1>1, <1>4, ConstantsAreNat
    <2>2. madPc' \in {"none", "start", "gone", "input", "read", "silence", "decode"}
        BY <1>1
    <2>. QED  BY <1>1, <1>2, <2>1, <2>2 DEF IInv, TypeOK
<1>6. SocketsClosed' /\ Started'
    BY <1>1 DEF IInv, SocketsClosed, Started
<1>7. Tasks'
    BY <1>1 DEF IInv, Tasks
<1>8. Reading'
    BY <1>1, <1>2, <1>4 DEF Reading
<1>9. Filled'
    BY <1>1, <1>3 DEF IInv, Filled
<1>10. Places'
    BY <1>1, <1>3 DEF IInv, Places, Piece, Before
<1>. QED  BY <1>5, <1>6, <1>7, <1>8, <1>9, <1>10 DEF IInv

(* Bytes go from the head of the FIFO to the end of what was read, and     *)
(* with the last of them all of it to the end of readBuf.                  *)
LEMMA ReadKeeps ==
    ASSUME IInv, NEW n \in 1 .. READBUFSZ, Read(n)
    PROVE  IInv'
<1>. DEFINE head == SubSeq(pipe, 1, n)
<1>1. /\ madPc = "read" /\ madPc' = (IF n = want THEN "input" ELSE "read")
      /\ n <= want /\ n <= Len(pipe) /\ want' = want - n
      /\ out' = out \o head /\ pipe' = SubSeq(pipe, n + 1, Len(pipe)) /\ sent' = sent
      /\ readBuf' = (IF n = want THEN readBuf \o out' ELSE readBuf)
      /\ madTasks' = madTasks /\ conPc' = conPc /\ rdrPc' = rdrPc /\ left' = left
      /\ madRunning' = madRunning /\ sockets' = sockets
      /\ silent' = silent /\ bufUnderrunCt' = bufUnderrunCt /\ played' = played
    BY DEF Read, Mad, Fifo!Take, conVars, rdrVars
<1>2. n \in Nat /\ n >= 1 /\ Given = out
    BY <1>1, ConstantsAreNat DEF Given
<1>3. /\ Piece(pipe, sent, 0) /\ Piece(out, sent, Len(pipe))
      /\ Piece(readBuf, sent, Len(pipe) + Len(out))
    BY <1>2 DEF IInv, Places
<1>4. /\ want >= 1 /\ want <= Len(pipe) /\ Len(readBuf) + Len(out) + want <= READBUFSZ
    BY <1>1 DEF IInv, Reading
<1>5. pipe' \in Seq(Byte) /\ Len(pipe') = Len(pipe) - n /\ Piece(pipe', sent, 0)
    <2>1. 0 \in Nat /\ pipe \in Seq(Byte) /\ sent \in Byte /\ n <= Len(pipe)
        BY <1>1, LengthsAreNat
    <2>2. /\ SubSeq(pipe, n + 1, Len(pipe)) \in Seq(Byte)
          /\ Len(SubSeq(pipe, n + 1, Len(pipe))) = Len(pipe) - n
          /\ Piece(SubSeq(pipe, n + 1, Len(pipe)), sent, 0)
        BY <1>2, <1>3, <2>1, PieceTail
    <2>. QED  BY <1>1, <2>2
<1>6. head \in Seq(Byte) /\ Len(head) = n /\ Piece(head, sent, Len(pipe'))
    <2>1. 0 \in Nat /\ 0 + Len(pipe) - n = Len(pipe')
        BY <1>5, LengthsAreNat
    <2>2. head \in Seq(Byte) /\ Len(head) = n /\ Piece(head, sent, 0 + Len(pipe) - n)
        BY <1>1, <1>2, <1>3, <2>1, LengthsAreNat, PieceHead
    <2>. QED  BY <2>1, <2>2
<1>. HIDE DEF head
<1>7. Len(pipe') \in Nat /\ Len(pipe') + Len(head) = Len(pipe)
    BY <1>1, <1>2, <1>5, <1>6, LengthsAreNat
<1>8. out' \in Seq(Byte) /\ Len(out') = Len(out) + n /\ Piece(out', sent, Len(pipe'))
    <2>1. Piece(out, sent, Len(pipe') + Len(head))
        BY <1>3, <1>7
    <2>2. /\ out \o head \in Seq(Byte) /\ Len(out \o head) = Len(out) + Len(head)
          /\ Piece(out \o head, sent, Len(pipe'))
        BY <1>6, <1>7, <2>1, LengthsAreNat, PieceConcat
    <2>. QED  BY <1>1, <1>6, <2>2
<1>9. Piece(readBuf, sent, Len(pipe') + Len(out'))
    <2>1. Len(pipe') + Len(out') = Len(pipe) + Len(out)
        BY <1>2, <1>5, <1>8, LengthsAreNat
    <2>. QED  BY <1>3, <2>1
<1>10. want' \in 0 .. READBUFSZ /\ Len(pipe') <= FifoLen
    <2>1. /\ want \in 0 .. READBUFSZ /\ READBUFSZ \in Nat
          /\ Len(pipe) \in Nat /\ Len(pipe) <= FifoLen /\ FifoLen \in Nat
        BY LengthsAreNat, ConstantsAreNat
    <2>2. n \in Nat /\ n <= want /\ want' = want - n /\ Len(pipe') = Len(pipe) - n
        BY <1>1, <1>2, <1>5
    <2>. QED  BY <2>1, <2>2
<1>11. SocketsClosed' /\ Started'
    BY <1>1 DEF IInv, SocketsClosed, Started
<1>12. /\ n \in Int /\ want \in Int /\ n <= want /\ want' = want - n
       /\ Len(out) \in Nat /\ Len(pipe) \in Nat /\ Len(readBuf) \in Nat /\ READBUFSZ \in Nat
    BY <1>1, <1>2, LengthsAreNat, ConstantsAreNat
<1>13. CASE n = want
    <2>1. madPc' = "input" /\ readBuf' = readBuf \o out' /\ want' = 0 /\ Given' = <<>>
        <3>1. madPc' = "input" /\ readBuf' = readBuf \o out'
            BY <1>1, <1>13
        <3>2. want' = 0
            BY <1>1, <1>2, <1>13
        <3>. QED  BY <3>1, <3>2 DEF Given
    <2>2. /\ readBuf' \in Seq(Byte) /\ Len(readBuf') = Len(readBuf) + Len(out')
          /\ Piece(readBuf', sent, Len(pipe'))
        <3>1. /\ readBuf \o out' \in Seq(Byte)
              /\ Len(readBuf \o out') = Len(readBuf) + Len(out')
              /\ Piece(readBuf \o out', sent, Len(pipe'))
            BY <1>7, <1>8, <1>9, LengthsAreNat, PieceConcat
        <3>. QED  BY <2>1, <3>1
    <2>3. Len(readBuf') <= READBUFSZ
        BY <1>2, <1>4, <1>8, <1>13, <2>2, LengthsAreNat, ConstantsAreNat
    <2>4. TypeOK'
        <3>1. /\ pipe' \in Seq(0 .. Names - 1) /\ readBuf' \in Seq(0 .. Names - 1)
              /\ out' \in Seq(0 .. Names - 1)
            BY <1>5, <1>8, <2>2 DEF Byte
        <3>2. madPc' \in {"none", "start", "gone", "input", "read", "silence", "decode"}
            BY <2>1
        <3>. QED  BY <1>1, <1>10, <2>3, <3>1, <3>2 DEF IInv, TypeOK
    <2>5. Tasks'
        BY <1>1, <2>1 DEF IInv, Tasks
    <2>6. Reading'
        BY <2>1 DEF Reading
    <2>7. Len(Given') = 0
        BY <2>1, EmptySeq
    <2>8. Filled'
        <3>1. Len(readBuf') + Len(Given') + Len(pipe') = Len(readBuf) + Len(Given) + Len(pipe)
            BY <1>2, <1>5, <1>8, <2>2, <2>7, LengthsAreNat
        <3>. QED  BY <1>1, <2>1, <3>1 DEF IInv, Filled
    <2>9. Places'
        <3>1. Len(pipe') + Len(Given') = Len(pipe')
            BY <1>7, <2>7
        <3>2. Piece(Given', sent, Len(pipe'))
            BY <2>7 DEF Piece
        <3>3. /\ Piece(pipe', sent', 0) /\ Piece(Given', sent', Len(pipe'))
              /\ Piece(readBuf', sent', Len(pipe') + Len(Given'))
            BY <1>1, <1>5, <2>2, <3>1, <3>2
        <3>. QED  BY <3>3 DEF Places, Piece, Before
    <2>. QED  BY <1>11, <2>4, <2>5, <2>6, <2>8, <2>9 DEF IInv
<1>14. CASE n # want
    <2>1. madPc' = "read" /\ readBuf' = readBuf /\ Given' = out'
        <3>1. madPc' = "read" /\ readBuf' = readBuf
            BY <1>1, <1>14
        <3>. QED  BY <3>1 DEF Given
    <2>2. TypeOK'
        <3>1. /\ pipe' \in Seq(0 .. Names - 1) /\ out' \in Seq(0 .. Names - 1)
            BY <1>5, <1>8 DEF Byte
        <3>. QED  BY <1>1, <1>10, <2>1, <3>1 DEF IInv, TypeOK
    <2>3. Tasks'
        BY <1>1, <2>1 DEF IInv, Tasks
    <2>4. Reading'
        <3>1. /\ want' >= 1 /\ want' <= Len(pipe')
              /\ Len(readBuf) + Len(out') + want' <= READBUFSZ
            BY <1>4, <1>5, <1>8, <1>14, <1>12
        <3>. QED  BY <2>1, <3>1 DEF Reading
    <2>5. Filled'
        <3>1. Len(readBuf') + Len(Given') + Len(pipe') = Len(readBuf) + Len(Given) + Len(pipe)
            BY <1>2, <1>5, <1>8, <1>12, <2>1
        <3>. QED  BY <1>1, <2>1, <3>1 DEF IInv, Filled
    <2>6. Places'
        <3>1. /\ Piece(pipe', sent', 0) /\ Piece(Given', sent', Len(pipe'))
              /\ Piece(readBuf', sent', Len(pipe') + Len(Given'))
            BY <1>1, <1>5, <1>8, <1>9, <2>1
        <3>. QED  BY <3>1 DEF Places, Piece, Before
    <2>. QED  BY <1>11, <2>2, <2>3, <2>4, <2>5, <2>6 DEF IInv
<1>. QED  BY <1>13, <1>14

(* The decoder moves on in readBuf. *)
LEMMA DecodeKeeps ==
    ASSUME IInv, NEW n \in 1 .. READBUFSZ, Decode(n)
    PROVE  IInv'
<1>1. /\ madPc = "decode" /\ madPc' = "decode" /\ n <= Len(readBuf)
      /\ readBuf' = SubSeq(readBuf, n + 1, Len(readBuf)) /\ madTasks' = madTasks
      /\ pipe' = pipe /\ sent' = sent /\ want' = want /\ out' = out
      /\ conPc' = conPc /\ rdrPc' = rdrPc /\ left' = left /\ madRunning' = madRunning
      /\ sockets' = sockets
      /\ silent' = silent /\ bufUnderrunCt' = bufUnderrunCt /\ played' = played
    BY DEF Decode, Mad, conVars, rdrVars, chanVars
<1>2. Given = <<>> /\ Given' = <<>> /\ Len(<<>>) = 0
    BY <1>1, EmptySeq DEF Given
<1>3. /\ Piece(pipe, sent, 0) /\ Piece(Given, sent, Len(pipe)) /\ Piece(readBuf, sent, Len(pipe))
    <2>1. Len(pipe) + Len(Given) = Len(pipe)
        BY <1>2, LengthsAreNat
    <2>. QED  BY <2>1 DEF IInv, Places
<1>4. /\ readBuf' \in Seq(Byte) /\ Len(readBuf') = Len(readBuf) - n
      /\ Piece(readBuf', sent, Len(pipe))
    <2>1. n \in Nat
        BY ConstantsAreNat
    <2>. QED  BY <1>1, <1>3, <2>1, LengthsAreNat, PieceTail
<1>5. TypeOK'
    <2>1. readBuf' \in Seq(0 .. Names - 1)
        BY <1>4 DEF Byte
    <2>2. Len(readBuf') <= READBUFSZ
        BY <1>4, LengthsAreNat, ConstantsAreNat
    <2>. QED  BY <1>1, <2>1, <2>2 DEF IInv, TypeOK
<1>6. SocketsClosed' /\ Started'
    BY <1>1 DEF IInv, SocketsClosed, Started
<1>7. Tasks'
    BY <1>1 DEF IInv, Tasks
<1>8. Reading'
    BY <1>1 DEF IInv, Reading
<1>9. played = TRUE
    BY <1>1 DEF IInv, TypeOK, Filled
<1>10. Filled'
    BY <1>1, <1>9 DEF Filled
<1>11. Places'
    <2>1. Len(pipe) + Len(<<>>) = Len(pipe)
        BY <1>2, LengthsAreNat
    <2>2. /\ Piece(pipe', sent', 0) /\ Piece(Given', sent', Len(pipe'))
          /\ Piece(readBuf', sent', Len(pipe') + Len(Given'))
        BY <1>1, <1>2, <1>3, <1>4, <2>1
    <2>. QED  BY <2>2 DEF Places, Piece, Before
<1>. QED  BY <1>5, <1>6, <1>7, <1>8, <1>10, <1>11 DEF IInv

-----------------------------------------------------------------------------
LEMMA StepKeepsIInv == IInv /\ [Next]_vars => IInv'
<1>. SUFFICES ASSUME IInv, [Next]_vars  PROVE IInv'
    OBVIOUS
<1>1. CASE UserInit \/ Connect \/ ReadData \/ ReadEnds
    BY <1>1, QuietReaderKeeps
<1>2. CASE ReaderStep
    <2>1. ASSUME NEW n \in 1 .. WBufSize, Write(n)  PROVE IInv'
        BY <2>1, WriteKeeps
    <2>2. CASE Check
        BY <2>2, CheckKeeps
    <2>3. CASE \/ OpenConn \/ ResolveOk \/ ResolveFails \/ DelayEnds \/ SocketOk \/ SocketFails
               \/ ConnectOk \/ ConnectFails \/ Close
        BY <2>3, QuietReaderKeeps
    <2>. QED  BY <1>2, <2>1, <2>2, <2>3 DEF ReaderStep
<1>3. CASE MadStep
    <2>1. ASSUME NEW n \in 1 .. READBUFSZ, Read(n)  PROVE IInv'
        BY <2>1, ReadKeeps
    <2>2. ASSUME NEW n \in 1 .. READBUFSZ, Decode(n)  PROVE IInv'
        BY <2>2, DecodeKeeps
    <2>3. CASE MadInit
        BY <2>3, MadInitKeeps
    <2>4. CASE InputRead
        BY <2>4, InputReadKeeps
    <2>5. CASE InputSilence
        BY <2>5, InputSilenceKeeps
    <2>6. CASE PushSilence
        BY <2>6, PushSilenceKeeps
    <2>7. CASE InputReturns
        BY <2>7, InputReturnsKeeps
    <2>8. CASE DecodeBuflen
        BY <2>8, DecodeBuflenKeeps
    <2>. QED  BY <1>3, <2>1, <2>2, <2>3, <2>4, <2>5, <2>6, <2>7, <2>8 DEF MadStep
<1>4. CASE UNCHANGED vars
    <2>1. /\ conPc' = conPc /\ rdrPc' = rdrPc /\ left' = left /\ sockets' = sockets
          /\ UNCHANGED <<chanVars, madVars, madRunning>>
        BY <1>4 DEF vars, conVars, rdrVars
    <2>2. TypeOK'
        BY <2>1 DEF IInv, TypeOK, chanVars, madVars
    <2>3. SocketsClosed' /\ Started'
        BY <2>1 DEF IInv, SocketsClosed, Started
    <2>. QED  BY <2>1, <2>2, <2>3, QuietKeeps
<1>. QED  BY <1>1, <1>2, <1>3, <1>4 DEF Next

LEMMA IInvHolds == Spec => []IInv
<1>1. Init => IInv
    BY InitEstablishes
<1>2. IInv /\ [Next]_vars => IInv'
    BY StepKeepsIInv
<1>. QED  BY <1>1, <1>2, PTL DEF Spec

(* All variables of the tasks keep their types: no more bytes are in the   *)
(* FIFO or in readBuf than they have room for, and there is one socket.    *)
THEOREM TypeCorrect == Spec => []TypeOK
<1>1. IInv => TypeOK
    BY DEF IInv
<1>. QED  BY <1>1, IInvHolds, PTL

(* However connections fail and end, tskreader has a socket open just      *)
(* while openConn and the loop around read use one.                        *)
THEOREM SocketsAreClosed == Spec => []SocketsClosed
<1>1. IInv => SocketsClosed
    BY DEF IInv
<1>. QED  BY <1>1, IInvHolds, PTL

(* The tskmad whose static buffers and tables cannot be shared is created  *)
(* once at most, for all connections.                                      *)
THEOREM DecoderIsAlone == Spec => []OneDecoder
<1>1. IInv => OneDecoder
    BY DEF IInv, TypeOK, Tasks, OneDecoder
<1>. QED  BY <1>1, IInvHolds, PTL

(* What input() puts together in readBuf is the stream, without a hole, in *)
(* order, up to what is still in the FIFO.                                 *)
THEOREM StreamIsWhole == Spec => []NothingLost
<1>. QED  BY PlacesAreTheStream, IInvHolds, PTL

(* input() never waits in spiRamFifoRead: what it asks for is there.       *)
THEOREM NeverStandsStill == Spec => []SilenceNotStandstill
<1>1. IInv => SilenceNotStandstill
    BY DEF IInv, Reading, SilenceNotStandstill, spiRamFifoFill
<1>. QED  BY <1>1, IInvHolds, PTL

(* Half a FIFO is enough for the first input(): the player does not start  *)
(* with silence, whatever READBUFSZ is, up to half the FIFO.               *)
THEOREM StartsQuietly == Spec => []FirstFillIsQuiet
<1>1. IInv => FirstFillIsQuiet
    BY DEF IInv, Filled, FirstFillIsQuiet
<1>. QED  BY <1>1, IInvHolds, PTL
-----------------------------------------------------------------------------
(* The FIFO as its users see it.  What tskreader and tskmad do to it are   *)
(* the operations of a ByteChannel and nothing else: no request while one  *)
(* is under way, none that is empty or longer than the buffer behind it.   *)
LEMMA StepUsesTheChannel ==
    ASSUME IInv, [Next]_vars
    PROVE  [Fifo!ChanNext]_(Fifo!chanVars)
<1>1. ASSUME NEW n \in 1 .. WBufSize, Write(n)  PROVE Fifo!ChanNext
    <2>1. Fifo!Put(n)
        BY <1>1 DEF Write
    <2>2. n \in 1 .. FifoLen
        BY ConstantsAreNat
    <2>. QED  BY <2>1, <2>2 DEF Fifo!ChanNext
<1>2. ASSUME NEW n \in 1 .. READBUFSZ, Read(n)  PROVE Fifo!ChanNext
    <2>1. Fifo!Take(n)
        BY <1>2 DEF Read
    <2>2. n \in 1 .. FifoLen
        BY ConstantsAreNat
    <2>. QED  BY <2>1, <2>2 DEF Fifo!ChanNext
<1>3. ASSUME InputRead  PROVE Fifo!ChanNext
    <2>1. Fifo!Request(Wanted) /\ Len(readBuf) < READBUFSZ /\ Wanted > 0
        BY <1>3 DEF InputRead
    <2>2. Wanted \in 1 .. READBUFSZ
        <3>1. /\ Len(readBuf) \in Nat /\ Len(readBuf) < READBUFSZ /\ READBUFSZ \in Nat
              /\ Len(pipe) \in Nat /\ Wanted > 0
            BY <2>1, LengthsAreNat, ConstantsAreNat
        <3>2. Wanted = IF READBUFSZ - Len(readBuf) < Len(pipe) THEN READBUFSZ - Len(readBuf)
                       ELSE Len(pipe)
            BY DEF Wanted, Smaller, spiRamFifoFill
        <3>. HIDE DEF Wanted
        <3>. QED  BY <3>1, <3>2
    <2>. HIDE DEF Wanted
    <2>. QED  BY <2>1, <2>2 DEF Fifo!ChanNext
<1>4. CASE \/ UserInit \/ Connect \/ ReadData \/ ReadEnds
           \/ OpenConn \/ ResolveOk \/ ResolveFails \/ DelayEnds \/ SocketOk \/ SocketFails
           \/ ConnectOk \/ ConnectFails \/ Check \/ Close
    BY <1>4 DEF UserInit, Connect, ReadData, ReadEnds, OpenConn, ResolveOk, ResolveFails,
                DelayEnds, SocketOk, SocketFails, ConnectOk, ConnectFails, Check, Close,
                Reader, chanVars, Fifo!chanVars
<1>5. CASE MadInit \/ InputSilence \/ PushSilence \/ InputReturns \/ DecodeBuflen
    BY <1>5 DEF MadInit, InputSilence, PushSilence, InputReturns, DecodeBuflen,
                chanVars, Fifo!chanVars
<1>6. ASSUME NEW n \in 1 .. READBUFSZ, Decode(n)  PROVE UNCHANGED Fifo!chanVars
    BY <1>6 DEF Decode, chanVars, Fifo!chanVars
<1>7. CASE UNCHANGED vars
    BY <1>7 DEF vars, chanVars, Fifo!chanVars
<1>. QED  BY <1>1, <1>2, <1>3, <1>4, <1>5, <1>6, <1>7 DEF Next, ReaderStep, MadStep

(* tskreader and tskmad use the FIFO as the channel it promises to be:     *)
(* spiRamFifoWrite is given at most what the FIFO can hold at all, and     *)
(* spiRamFifoRead is never entered twice, never for nothing and never for  *)
(* more than readBuf has room for.                                         *)
THEOREM UsesTheChannel == Spec => Fifo!ChanSpec
<1>1. Init => Fifo!ChanInit
    BY DEF Init
<1>2. IInv /\ [Next]_vars => [Fifo!ChanNext]_(Fifo!chanVars)
    BY StepUsesTheChannel
<1>. QED  BY <1>1, <1>2, IInvHolds, PTL DEF Spec, Fifo!ChanSpec
-----------------------------------------------------------------------------
(* Bytes come out of the channel in the order they went in: what the       *)
(* request under way was given, and after it what is in transit, is the    *)
(* stream up to the last byte put in.                                      *)
ChannelInOrder == Piece(pipe, sent, 0) /\ Piece(out, sent, Len(pipe))

(* The bytes of the channel and of the request that is being answered. *)
ChannelBounds ==
    /\ pipe \in Seq(Byte) /\ out \in Seq(Byte) /\ sent \in Byte
    /\ want \in 0 .. READBUFSZ
    /\ Len(pipe) <= FifoLen /\ Len(out) + want <= READBUFSZ

ChannelInv == ChannelBounds /\ ChannelInOrder

LEMMA PutKeeps ==
    ASSUME ChannelInv, NEW n \in 1 .. FifoLen, Fifo!Put(n)
    PROVE  ChannelInv'
<1>. DEFINE run == Fifo!Run(sent, n)
<1>1. /\ Len(pipe) + n <= FifoLen /\ pipe' = pipe \o run /\ sent' = (sent + n) % Names
      /\ want' = want /\ out' = out
    BY DEF Fifo!Put
<1>2. /\ pipe \in Seq(Byte) /\ out \in Seq(Byte) /\ sent \in Byte
      /\ Len(pipe) \in Nat /\ Len(out) \in Nat /\ want \in 0 .. READBUFSZ
      /\ Len(out) + want <= READBUFSZ
      /\ Piece(pipe, sent, 0) /\ Piece(out, sent, Len(pipe))
    BY LenProperties DEF ChannelInv, ChannelBounds, ChannelInOrder
<1>3. n \in Nat /\ n <= Names
    BY ConstantsAreNat
<1>4. run \in Seq(Byte) /\ Len(run) = n /\ Piece(run, (sent + n) % Names, 0)
    BY <1>2, <1>3, RunIsPiece
<1>. HIDE DEF run
<1>5. sent' \in Byte
    <2>1. (sent + n) % Names \in Byte
        BY <1>2, <1>3, ConstantsAreNat DEF Byte
    <2>. QED  BY <1>1, <2>1
<1>6. /\ 0 \in Nat /\ 0 + Len(pipe) + n <= Names /\ Len(pipe) + Len(out) + n <= Names
      /\ 0 + n = n
    BY <1>1, <1>2, <1>3, ConstantsAreNat
<1>7. Piece(pipe, sent', n) /\ Piece(out, sent', Len(pipe) + n)
    <2>1. Piece(pipe, (sent + n) % Names, 0 + n)
        BY <1>2, <1>3, <1>6, PieceMoves
    <2>2. Piece(out, (sent + n) % Names, Len(pipe) + n)
        BY <1>2, <1>3, <1>6, PieceMoves
    <2>. QED  BY <1>1, <1>6, <2>1, <2>2
<1>8. pipe' \in Seq(Byte) /\ Len(pipe') = Len(pipe) + n /\ Piece(pipe', sent', 0)
    <2>1. Piece(run, sent', 0) /\ Piece(pipe, sent', 0 + Len(run))
        BY <1>1, <1>4, <1>6, <1>7
    <2>2. /\ pipe \o run \in Seq(Byte) /\ Len(pipe \o run) = Len(pipe) + Len(run)
          /\ Piece(pipe \o run, sent', 0)
        BY <1>2, <1>4, <1>5, <1>6, <2>1, PieceConcat
    <2>. QED  BY <1>1, <1>4, <2>2
<1>9. ChannelBounds'
    BY <1>1, <1>2, <1>5, <1>8 DEF ChannelBounds, Byte
<1>10. Piece(pipe', sent', 0) /\ Piece(out', sent', Len(pipe'))
    BY <1>1, <1>7, <1>8
<1>11. ChannelInOrder'
    BY <1>10 DEF ChannelInOrder, Piece, Before
<1>. QED  BY <1>9, <1>11 DEF ChannelInv

LEMMA TakeKeeps ==
    ASSUME ChannelInv, NEW n \in 1 .. FifoLen, Fifo!Take(n)
    PROVE  ChannelInv'
<1>. DEFINE head == SubSeq(pipe, 1, n)
<1>1. /\ n <= want /\ n <= Len(pipe) /\ want' = want - n
      /\ out' = out \o head /\ pipe' = SubSeq(pipe, n + 1, Len(pipe)) /\ sent' = sent
    BY DEF Fifo!Take
<1>2. /\ pipe \in Seq(Byte) /\ out \in Seq(Byte) /\ sent \in Byte
      /\ Len(pipe) \in Nat /\ Len(out) \in Nat /\ want \in 0 .. READBUFSZ
      /\ Len(out) + want <= READBUFSZ /\ Len(pipe) <= FifoLen
      /\ Piece(pipe, sent, 0) /\ Piece(out, sent, Len(pipe))
    BY LenProperties DEF ChannelInv, ChannelBounds, ChannelInOrder
<1>3. n \in Nat /\ n >= 1 /\ 0 \in Nat
    BY ConstantsAreNat
<1>4. pipe' \in Seq(Byte) /\ Len(pipe') = Len(pipe) - n /\ Piece(pipe', sent, 0)
    <2>1. /\ SubSeq(pipe, n + 1, Len(pipe)) \in Seq(Byte)
          /\ Len(SubSeq(pipe, n + 1, Len(pipe))) = Len(pipe) - n
          /\ Piece(SubSeq(pipe, n + 1, Len(pipe)), sent, 0)
        BY <1>1, <1>2, <1>3, PieceTail
    <2>. QED  BY <1>1, <2>1
<1>5. head \in Seq(Byte) /\ Len(head) = n /\ Piece(head, sent, Len(pipe'))
    <2>1. 0 + Len(pipe) - n = Len(pipe')
        BY <1>2, <1>3, <1>4
    <2>2. head \in Seq(Byte) /\ Len(head) = n /\ Piece(head, sent, 0 + Len(pipe) - n)
        BY <1>1, <1>2, <1>3, PieceHead
    <2>. QED  BY <2>1, <2>2
<1>. HIDE DEF head
<1>6. Len(pipe') \in Nat /\ Len(pipe') + Len(head) = Len(pipe)
    BY <1>1, <1>2, <1>3, <1>4, <1>5
<1>7. out' \in Seq(Byte) /\ Len(out') = Len(out) + n /\ Piece(out', sent, Len(pipe'))
    <2>1. Piece(out, sent, Len(pipe') + Len(head))
        BY <1>2, <1>6
    <2>2. /\ out \o head \in Seq(Byte) /\ Len(out \o head) = Len(out) + Len(head)
          /\ Piece(out \o head, sent, Len(pipe'))
        BY <1>2, <1>5, <1>6, <2>1, PieceConcat
    <2>. QED  BY <1>1, <1>5, <2>2
<1>8. /\ want' \in 0 .. READBUFSZ /\ Len(out') + want' <= READBUFSZ /\ Len(pipe') <= FifoLen
    BY <1>1, <1>2, <1>3, <1>4, <1>7, ConstantsAreNat
<1>9. ChannelBounds'
    BY <1>1, <1>2, <1>4, <1>7, <1>8 DEF ChannelBounds, Byte
<1>10. Piece(pipe', sent', 0) /\ Piece(out', sent', Len(pipe'))
    BY <1>1, <1>4, <1>7
<1>11. ChannelInOrder'
    BY <1>10 DEF ChannelInOrder, Piece, Before
<1>. QED  BY <1>9, <1>11 DEF ChannelInv

LEMMA RequestKeeps ==
    ASSUME ChannelInv, NEW len \in 1 .. READBUFSZ, Fifo!Request(len)
    PROVE  ChannelInv'
<1>1. want' = len /\ out' = <<>> /\ pipe' = pipe /\ sent' = sent
    BY DEF Fifo!Request
<1>2. <<>> \in Seq(Byte) /\ Len(<<>>) = 0 /\ len \in 0 .. READBUFSZ /\ 0 + len <= READBUFSZ
    BY EmptySeq, ConstantsAreNat
<1>3. ChannelBounds'
    BY <1>1, <1>2 DEF ChannelInv, ChannelBounds, Byte
<1>4. ChannelInOrder'
    BY <1>1, <1>2 DEF ChannelInv, ChannelInOrder, Piece, Before
<1>. QED  BY <1>3, <1>4 DEF ChannelInv

(* Whoever uses a ByteChannel gets the stream, in order and without a hole,*)
(* across requests too: with SpiRamFifo, which implements the channel, and *)
(* the player, which uses it, this is the way of every byte.               *)
THEOREM ChannelKeepsOrder == Fifo!ChanSpec => []ChannelInOrder
<1>1. Fifo!ChanInit => ChannelInv
    <2>. SUFFICES ASSUME Fifo!ChanInit  PROVE ChannelInv
        OBVIOUS
    <2>1. pipe = <<>> /\ sent = 0 /\ want = 0 /\ out = <<>>
        BY DEF Fifo!ChanInit
    <2>2. <<>> \in Seq(Byte) /\ Len(<<>>) = 0 /\ 0 \in Byte /\ 0 \in 0 .. READBUFSZ
          /\ 0 <= FifoLen /\ 0 + 0 <= READBUFSZ
        BY EmptySeq, ConstantsAreNat DEF Byte
    <2>3. ChannelBounds
        BY <2>1, <2>2 DEF ChannelBounds
    <2>4. ChannelInOrder
        BY <2>1 DEF ChannelInOrder, Piece
    <2>. QED  BY <2>3, <2>4 DEF ChannelInv
<1>2. ChannelInv /\ [Fifo!ChanNext]_(Fifo!chanVars) => ChannelInv'
    <2>. SUFFICES ASSUME ChannelInv, [Fifo!ChanNext]_(Fifo!chanVars)  PROVE ChannelInv'
        OBVIOUS
    <2>1. CASE UNCHANGED Fifo!chanVars
        BY <2>1 DEF Fifo!chanVars, ChannelInv, ChannelBounds, ChannelInOrder, Piece, Before, Byte
    <2>. QED  BY <2>1, PutKeeps, TakeKeeps, RequestKeeps DEF Fifo!ChanNext
<1>3. ChannelInv => ChannelInOrder
    BY DEF ChannelInv
<1>. QED  BY <1>1, <1>2, <1>3, PTL DEF Fifo!ChanSpec
-----------------------------------------------------------------------------
(* tskreader waits for room in the FIFO, in spiRamFifoWrite, only once it  *)
(* has asked for the decoder that makes the room.                          *)
WaitsForDecoder == rdrPc = "write" /\ left > spiRamFifoFree => madRunning

(* Between two looks at the FIFO tskreader writes one buffer: as long as   *)
(* there is no decoder, half of the FIFO was free before it.               *)
RoomAhead ==
    ~madRunning => /\ rdrPc \notin {"write", "check", "lastCheck"} =>
                          spiRamFifoFree >= FifoLen \div 2
                   /\ rdrPc = "write" => left <= spiRamFifoFree

LEMMA HalfIsEnough == FifoLen \div 2 \in Nat /\ FifoLen \div 2 >= WBufSize
BY ConstantsAreNat

LEMMA StepKeepsRoom ==
    ASSUME IInv, RoomAhead, [Next]_vars
    PROVE  RoomAhead'
<1>. DEFINE half == FifoLen \div 2  free == FifoLen - Len(pipe)
            Idle(pc) == pc \notin {"write", "check", "lastCheck"}
<1>1. /\ half \in Nat /\ WBufSize \in Nat /\ half >= WBufSize
      /\ Len(pipe) \in Nat /\ FifoLen \in Nat /\ left \in 0 .. WBufSize /\ free \in Int
    BY ConstantsAreNat, HalfIsEnough, LengthsAreNat
<1>2. ~madRunning => (Idle(rdrPc) => free >= half) /\ (rdrPc = "write" => left <= free)
    BY DEF RoomAhead, spiRamFifoFree, spiRamFifoFill
<1>. SUFFICES ASSUME ~madRunning'
              PROVE  /\ Idle(rdrPc') => FifoLen - Len(pipe') >= half
                     /\ rdrPc' = "write" => left' <= FifoLen - Len(pipe')
    BY DEF RoomAhead, spiRamFifoFree, spiRamFifoFill
<1>. HIDE DEF half
<1>3. ASSUME NEW n \in 1 .. WBufSize, Write(n)
      PROVE  rdrPc' \in {"write", "check"} /\ left' <= FifoLen - Len(pipe')
    <2>1. /\ rdrPc = "write" /\ n <= left /\ pipe' = pipe \o Fifo!Run(sent, n)
          /\ left' = left - n /\ rdrPc' \in {"write", "check"} /\ madRunning' = madRunning
        BY <1>3 DEF Write, Fifo!Put
    <2>2. n \in Nat /\ n <= Names
        BY <1>1, ConstantsAreNat
    <2>3. Fifo!Run(sent, n) \in Seq(Byte) /\ Len(Fifo!Run(sent, n)) = n
        BY <2>2, LengthsAreNat, RunIsPiece
    <2>4. Len(pipe') = Len(pipe) + n
        BY <2>1, <2>3, LengthsAreNat, ConcatProperties
    <2>. QED  BY <1>1, <1>2, <2>1, <2>2, <2>4
<1>4. CASE Check
    <2>1. rdrPc \in {"check", "lastCheck"} /\ rdrPc' \in {"read", "close"} /\ pipe' = pipe
        BY <1>4 DEF Check, chanVars
    <2>2. ~NeedMad /\ ~madRunning
        BY <1>4 DEF Check, StartMad
    <2>3. free >= half
        BY <1>1, <2>2 DEF NeedMad, spiRamFifoFree, spiRamFifoFill, half
    <2>. QED  BY <2>1, <2>3
<1>5. CASE \/ UserInit \/ Connect \/ ReadData \/ ReadEnds
           \/ OpenConn \/ ResolveOk \/ ResolveFails \/ DelayEnds \/ SocketOk \/ SocketFails
           \/ ConnectOk \/ ConnectFails \/ Close
    <2>1. pipe' = pipe /\ madRunning' = madRunning
        BY <1>5 DEF UserInit, Connect, ReadData, ReadEnds, OpenConn, ResolveOk, ResolveFails,
                    DelayEnds, SocketOk, SocketFails, ConnectOk, ConnectFails, Close,
                    Reader, chanVars, rdrVars
    <2>2. /\ rdrPc' = rdrPc \/ Idle(rdrPc)
          /\ rdrPc' = rdrPc => left' = left
          /\ rdrPc' = "write" => left' \in 1 .. WBufSize
        BY <1>5 DEF UserInit, Connect, ReadData, ReadEnds, OpenConn, ResolveOk, ResolveFails,
                    DelayEnds, SocketOk, SocketFails, ConnectOk, ConnectFails, Close,
                    Reader, chanVars, rdrVars, IInv, Started
    <2>. QED  BY <1>1, <1>2, <2>1, <2>2
<1>6. CASE MadStep
    <2>1. ~madRunning
        BY <1>6 DEF MadStep, MadInit, InputRead, InputSilence, PushSilence, InputReturns,
                    DecodeBuflen, Read, Decode, Mad, rdrVars
    <2>2. madPc = "none"
        BY <2>1 DEF IInv, Tasks
    <2>. QED  BY <1>6, <2>2 DEF MadStep, MadInit, InputRead, InputSilence, PushSilence,
                                InputReturns, DecodeBuflen, Read, Decode, Mad
<1>7. CASE UNCHANGED vars
    BY <1>2, <1>7 DEF vars, rdrVars, chanVars
<1>. QED  BY <1>1, <1>3, <1>4, <1>5, <1>6, <1>7 DEF Next, ReaderStep

(* Were the writer ever to wait for room before tskmad was started,        *)
(* nothing would take a byte out of the FIFO and the player would stand    *)
(* still for ever.  It cannot, whatever the sizes of the buffers: half the *)
(* FIFO has room for one buffer of the reader.                             *)
THEOREM WriterNeverWaitsAlone == Spec => []WaitsForDecoder
<1>1. Init => RoomAhead
    <2>. SUFFICES ASSUME Init  PROVE spiRamFifoFree >= FifoLen \div 2 /\ rdrPc = "none"
        BY DEF RoomAhead
    <2>1. pipe = <<>> /\ rdrPc = "none" /\ Len(<<>>) = 0
        BY EmptySeq DEF Init, Fifo!ChanInit
    <2>2. FifoLen - 0 >= FifoLen \div 2
        BY ConstantsAreNat
    <2>. QED  BY <2>1, <2>2 DEF spiRamFifoFree, spiRamFifoFill
<1>2. IInv /\ RoomAhead /\ [Next]_vars => RoomAhead'
    BY StepKeepsRoom
<1>3. IInv /\ RoomAhead => WaitsForDecoder
    <2>. SUFFICES ASSUME IInv, RoomAhead, rdrPc = "write", left > spiRamFifoFree  PROVE madRunning
        BY DEF WaitsForDecoder
    <2>1. spiRamFifoFree \in Int /\ left \in Int
        BY LengthsAreNat, ConstantsAreNat DEF spiRamFifoFree, spiRamFifoFill
    <2>. QED  BY <2>1 DEF RoomAhead
<1>. QED  BY <1>1, <1>2, <1>3, IInvHolds, PTL DEF Spec
=============================================================================
