------------------------------ MODULE MadStream ------------------------------
(***************************************************************************)
(* mp3/mad/stream.c and frame.c, driven by the loop of tskmad: how libmad  *)
(* finds its way from frame to frame in a buffer that is emptied from the  *)
(* front and refilled from behind.                                         *)
(*                                                                         *)
(* Of a byte only this is kept: whether a sync word starts at it and, if   *)
(* so, what decode_header makes of the header there.  A positive kind is a *)
(* Layer III header whose frame has that many bytes.  The network sends    *)
(* junk and then one frame after the other; sync words may also occur in   *)
(* the junk and inside frames.  Offsets count from readBuf.                *)
(***************************************************************************)
EXTENDS Integers, Sequences

CONSTANTS READBUFSZ,          \* bytes of readBuf, 2106
          MAD_BUFFER_GUARD,   \* 8
          Servers,            \* [frames, noise]: the kinds of the headers a
                              \* server sends, and of all its other bytes
          FreeLen, OtherLen,  \* frames of the kinds FreeFormat, OtherLayer
          MinFree, MaxFree,   \* frames with a free rate of 8 and 640 kbit/s
          MaxJunk             \* bound of the bytes before the first frame

NoSync     == -1   \* no sync word here
BadHeader  == -2   \* a sync word, but a reserved value in the header
OtherLayer == -3   \* a header of layer I or II
LongLayer  == -4   \* one of layer II with a frame that readBuf cannot hold
FreeFormat == 0    \* a header without a bit rate
Kinds == Nat \cup {NoSync, BadHeader, OtherLayer, LongLayer}

ASSUME StreamAssumption ==
    /\ MAD_BUFFER_GUARD \in Nat /\ MAD_BUFFER_GUARD >= 2
    /\ \A s \in Servers :
           /\ s.frames \subseteq Nat /\ s.noise \subseteq Kinds
           /\ FreeFormat \in s.frames => s.frames = {FreeFormat}
    /\ FreeLen \in Nat \ {0} /\ OtherLen \in Nat \ {0}
    /\ MinFree \in Nat \ {0} /\ MaxFree \in Nat /\ MaxJunk \in Nat
    /\ READBUFSZ \in Nat
    /\ \A n \in (UNION {s.frames \cup s.noise : s \in Servers})
                  \cup {FreeLen, OtherLen, 1} :
           n + MAD_BUFFER_GUARD <= READBUFSZ

VARIABLES pc,                      \* where tskmad is
          buf,                     \* readBuf: a sequence of [kind, start]
          this_frame, next_frame,  \* of mad_stream
          sync, freerate, error,
          ptr,                     \* the local variable of mad_header_decode
          server,                  \* the one connected to
          body,                    \* what the network still owes of a frame
          locked,                  \* the decoder follows the frames sent
          searching,               \* sync was lost, no frame was found since
          missed                   \* a frame sent was passed over

stream == <<this_frame, next_frame, sync, freerate, error>>
ghosts == <<locked, searching, missed>>
net == <<server, body>>
vars == <<pc, buf, stream, ptr, net, ghosts>>

bufend == Len(buf)
At(p) == buf[p + 1]

(* A sync word at offset p: 0xff and three more bits. *)
SyncWord(p) == At(p).kind # NoSync

(* The length of a frame the server sends. *)
FrameLen(kind) == IF kind = FreeFormat THEN FreeLen ELSE kind

-----------------------------------------------------------------------------
(* Before the first input(): the stream is empty. *)
Init ==
    /\ pc = "fill" /\ buf = <<>>
    /\ this_frame = 0 /\ next_frame = 0
    /\ sync = FALSE /\ freerate = 0 /\ error = "none" /\ ptr = 0
    /\ server \in Servers /\ body \in 0 .. MaxJunk
    /\ locked = FALSE /\ searching = FALSE /\ missed = FALSE

(* A frame start in from .. to-1 that is given up. *)
Passes(from, to) == \E p \in from .. to - 1 : At(p).start

(* input() moves what is left to the front.  mad_stream_buffer sets the    *)
(* pointers to the front again, after the refill, before they are used.    *)
Shift ==
    /\ pc = "input"
    /\ pc' = "fill"
    /\ buf' = SubSeq(buf, next_frame + 1, bufend)
    /\ this_frame' = 0 /\ next_frame' = 0 /\ ptr' = 0
    /\ UNCHANGED <<sync, freerate, error, net, ghosts>>

(* One byte of the refill. *)
Fill ==
    /\ pc = "fill" /\ bufend < READBUFSZ
    /\ \/ /\ body = 0
          /\ \E kind \in server.frames :
                 /\ buf' = Append(buf, [kind |-> kind, start |-> TRUE])
                 /\ body' = FrameLen(kind) - 1
       \/ /\ body > 0
          /\ \E kind \in server.noise :
                 buf' = Append(buf, [kind |-> kind, start |-> FALSE])
          /\ body' = body - 1
    /\ UNCHANGED <<pc, server, stream, ptr, ghosts>>

(* The end of input(): mad_stream_buffer.  sync is set, found or not.  The *)
(* next call of mad_header_decode starts at next_frame.                    *)
Buffer ==
    /\ pc = "fill" /\ bufend = READBUFSZ
    /\ pc' = "sync" /\ sync' = TRUE
    /\ UNCHANGED <<buf, this_frame, next_frame, freerate, error, ptr, net, ghosts>>

-----------------------------------------------------------------------------
(* mad_header_decode *)

(* Every failure clears sync.  MAD_ERROR_BUFLEN makes tskmad call input(), *)
(* any other error makes it go on from next_frame.                         *)
Fail(err) ==
    /\ error' = err /\ sync' = FALSE
    /\ pc' = IF err = "buflen" THEN "input" ELSE "sync"
    /\ ptr' = next_frame'
    /\ locked' = (locked /\ err = "buflen")
    /\ searching' = (searching \/ err # "buflen")
    /\ missed' = (missed \/ Passes(ptr, next_frame'))
    /\ UNCHANGED <<buf, freerate, net>>

(* Mutant: the search starts again where it failed. *)
SyncLost_Stays ==
    /\ pc = "sync" /\ sync /\ ~SyncWord(ptr)
    /\ this_frame' = ptr /\ next_frame' = ptr
    /\ error' = "lostsync" /\ UNCHANGED <<pc, buf, sync, freerate, ptr, net, ghosts>>

(* No sync word where one is due.  That MAD_BUFFER_GUARD bytes are left is *)
(* checked here as well, needlessly (GuardHolds).                          *)
SyncLost ==
    /\ pc = "sync" /\ sync /\ ~SyncWord(ptr)
    /\ this_frame' = ptr /\ next_frame' = ptr + 1
    /\ Fail("lostsync")

SyncThere ==
    /\ pc = "sync" /\ sync /\ SyncWord(ptr)
    /\ pc' = "begin"
    /\ UNCHANGED <<buf, stream, ptr, net, ghosts>>

(* Mutant: a sync word right before the end is good enough. *)
FoundAt_NoGuard(q) ==
    SyncWord(q) /\ \A p \in ptr .. q - 1 : ~SyncWord(p)

(* mad_stream_sync finds a sync word at q, the first from ptr on that has  *)
(* MAD_BUFFER_GUARD bytes.                                                 *)
FoundAt(q) ==
    /\ SyncWord(q) /\ bufend - q >= MAD_BUFFER_GUARD
    /\ \A p \in ptr .. q - 1 : ~SyncWord(p)

(* Mutant: one byte too few is kept for the next search. *)
SearchFails_KeepsLess ==
    /\ pc = "sync" /\ ~sync
    /\ ~\E q \in ptr .. bufend - 1 : FoundAt(q)
    /\ next_frame' = IF bufend - next_frame >= MAD_BUFFER_GUARD
                     THEN bufend - MAD_BUFFER_GUARD + 2 ELSE next_frame
    /\ Fail("buflen")
    /\ UNCHANGED this_frame

(* None: keep the last bytes, a sync word may begin in them. *)
SearchFails ==
    /\ pc = "sync" /\ ~sync
    /\ ~\E q \in ptr .. bufend - 1 : FoundAt(q)
    /\ next_frame' = IF bufend - next_frame >= MAD_BUFFER_GUARD
                     THEN bufend - MAD_BUFFER_GUARD ELSE next_frame
    /\ Fail("buflen")
    /\ UNCHANGED this_frame

SearchFinds ==
    /\ pc = "sync" /\ ~sync
    /\ \E q \in ptr .. bufend - 1 :
           /\ FoundAt(q) /\ ptr' = q
           /\ missed' = (missed \/ Passes(ptr, q))
    /\ pc' = "begin"
    /\ UNCHANGED <<buf, stream, net, locked, searching>>

(* decode_header fails: a reserved layer, bit rate or sample rate. *)
HeaderBad ==
    /\ pc = "begin" /\ At(ptr).kind = BadHeader
    /\ this_frame' = ptr /\ next_frame' = ptr + 1
    /\ Fail("bad header")

(* Mutant: the free rate is searched for at every frame. *)
NeedsRate_Always == At(ptr).kind = FreeFormat

(* A header without a bit rate, and the rate is not known, not sure, or of *)
(* another layer and too high for layer III.                               *)
NeedsRate ==
    At(ptr).kind = FreeFormat /\ (freerate = 0 \/ ~sync \/ freerate > MaxFree)

(* free_bitrate looks for the next header of this kind, far enough away;   *)
(* the distance is the length of a frame.                                  *)
Peer(q) ==
    /\ At(q).kind >= FreeFormat
    /\ bufend - q >= MAD_BUFFER_GUARD
    /\ q - ptr >= MinFree
NextPeer(q) == Peer(q) /\ \A p \in ptr + 1 .. q - 1 : ~Peer(p)
Distances == {d \in 1 .. bufend - ptr - 1 : NextPeer(ptr + d) /\ d <= MaxFree}

RateUnknown ==
    /\ pc = "begin" /\ NeedsRate /\ Distances = {}
    /\ this_frame' = ptr /\ next_frame' = ptr + 1
    /\ Fail("lostsync")

(* The rate of a free format frame at ptr, and N, the frame's length. *)
rate == IF NeedsRate THEN CHOOSE d \in Distances : TRUE ELSE freerate

(* Mutant: the padding slot is always counted. *)
N_Padded == CASE At(ptr).kind = FreeFormat -> rate + 1
              [] At(ptr).kind = OtherLayer -> OtherLen + 1
              [] At(ptr).kind = LongLayer  -> READBUFSZ + 1
              [] OTHER                     -> At(ptr).kind + 1

N == CASE At(ptr).kind = FreeFormat -> rate
       [] At(ptr).kind = OtherLayer -> OtherLen
       [] At(ptr).kind = LongLayer  -> READBUFSZ
       [] OTHER                     -> At(ptr).kind

HeaderGood == pc = "begin" /\ At(ptr).kind # BadHeader /\ (NeedsRate => Distances # {})

(* The frame is not all there. *)
FrameBuflen ==
    /\ HeaderGood /\ N + MAD_BUFFER_GUARD > bufend - ptr
    /\ this_frame' = ptr /\ next_frame' = ptr
    /\ freerate' = rate
    /\ pc' = "input" /\ error' = "buflen" /\ sync' = FALSE
    /\ UNCHANGED <<buf, ptr, net, ghosts>>

(* After a search the frame must be followed by a sync word; else it was a *)
(* bogus one, and the search goes on behind it.                            *)
Bogus ==
    /\ HeaderGood /\ N + MAD_BUFFER_GUARD <= bufend - ptr
    /\ ~sync /\ ~SyncWord(ptr + N)
    /\ this_frame' = ptr /\ next_frame' = ptr + 1 /\ ptr' = ptr + 1
    /\ freerate' = rate /\ pc' = "sync"
    /\ missed' = (missed \/ Passes(ptr, ptr + 1))
    /\ UNCHANGED <<buf, sync, error, net, locked, searching>>

(* Mutant: the next frame is looked for inside this one. *)
Accept_Short ==
    /\ HeaderGood /\ N + MAD_BUFFER_GUARD <= bufend - ptr
    /\ sync \/ SyncWord(ptr + N)
    /\ this_frame' = ptr /\ next_frame' = ptr + N - 1
    /\ sync' = TRUE /\ freerate' = rate
    /\ pc' = "layer"
    /\ locked' = (At(ptr).start /\ N = FrameLen(At(ptr).kind))
    /\ UNCHANGED <<buf, error, ptr, net, searching, missed>>

(* The header is taken, the frame handed to its layer's decoder. *)
Accept ==
    /\ HeaderGood /\ N + MAD_BUFFER_GUARD <= bufend - ptr
    /\ sync \/ SyncWord(ptr + N)
    /\ this_frame' = ptr /\ next_frame' = ptr + N
    /\ sync' = TRUE /\ freerate' = rate
    /\ pc' = "layer"
    /\ locked' = (At(ptr).start /\ N = FrameLen(At(ptr).kind))
    /\ UNCHANGED <<buf, error, ptr, net, searching, missed>>

-----------------------------------------------------------------------------
(* mad_frame_decode: the decoder of layer III may complain of the frame,   *)
(* never in a way that is not recoverable; the others are not there.       *)
Layer ==
    /\ pc = "layer"
    /\ IF At(this_frame).kind = OtherLayer
       THEN pc' = "crash" /\ UNCHANGED error
       ELSE pc' = "sync" /\ error' \in {error, "bad data"}
    /\ ptr' = next_frame /\ searching' = FALSE
    /\ missed' = (missed \/ Passes(this_frame + 1, next_frame))
    /\ UNCHANGED <<buf, this_frame, next_frame, sync, freerate, net, locked>>

HeaderDecode == \/ SyncLost \/ SyncThere \/ SearchFails \/ SearchFinds
                \/ HeaderBad \/ RateUnknown \/ FrameBuflen \/ Bogus \/ Accept

Next == Shift \/ Fill \/ Buffer \/ HeaderDecode \/ Layer

Spec == Init /\ [][Next]_vars

(* tskmad runs and the server sends. *)
FairSpec == Spec /\ WF_vars(Next)
-----------------------------------------------------------------------------
(* Correctness *)

TypeOK ==
    /\ pc \in {"input", "fill", "sync", "begin", "layer", "crash"}
    /\ buf \in Seq([kind : server.frames \cup server.noise, start : BOOLEAN])
    /\ bufend <= READBUFSZ
    /\ this_frame \in 0 .. bufend /\ next_frame \in 0 .. bufend
    /\ ptr \in 0 .. bufend /\ freerate \in 0 .. MaxFree
    /\ sync \in BOOLEAN /\ server \in Servers /\ body \in Nat
    /\ error \in {"none", "buflen", "lostsync", "bad header", "bad data"}
    /\ locked \in BOOLEAN /\ searching \in BOOLEAN /\ missed \in BOOLEAN

(* Nothing is read behind the buffer: a sync word is looked at where it is *)
(* due, a header is decoded and a layer decoder looks at the header of the *)
(* next frame with MAD_BUFFER_GUARD bytes left from there.                 *)
GuardHolds ==
    /\ pc = "sync" /\ sync => ptr + MAD_BUFFER_GUARD <= bufend
    /\ pc = "begin" => ptr + MAD_BUFFER_GUARD <= bufend
    /\ pc = "layer" => next_frame + MAD_BUFFER_GUARD <= bufend

(* Once it follows the frames the decoder never loses them again, whatever *)
(* sync words their data contains and wherever the buffer ends.            *)
LockKept == [][locked => locked']_vars

(* When sync words occur in headers only, every frame is decoded, the      *)
(* first one after the junk included.  Not so in free format: a frame near *)
(* the end of the buffer is given up when its rate cannot be found there.  *)
NoFrameMissed ==
    server.noise = {NoSync} /\ FreeFormat \notin server.frames => ~missed

(* "stream sync found": after a loss a frame is accepted only if a sync    *)
(* word follows it.                                                        *)
FoundMeansFollowed == pc = "layer" /\ searching => SyncWord(next_frame)

(* tskmad stands before a header of layer II, taken for a frame after a    *)
(* search, that is too long for readBuf: input() has no room to read into. *)
Stands == bufend > 0 /\ At(0).kind = LongLayer /\ this_frame = 0 /\ error = "buflen"

(* tskmad takes new bytes for ever: input(), called with a buffer that is  *)
(* full, would bring none, and a search that does not move on would never  *)
(* end.  A header of a layer without a decoder is the end of it, one way   *)
(* or the other.                                                           *)
Advances == []<>((pc = "fill" /\ bufend < READBUFSZ) \/ pc = "crash" \/ Stands)
=============================================================================
