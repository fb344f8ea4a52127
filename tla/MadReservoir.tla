---------------------------- MODULE MadReservoir ----------------------------
(***************************************************************************)
(* mp3/mad/layer3.c, mad_layer_III: the bit reservoir.  The main data of a *)
(* Layer III frame may begin up to 511 bytes before the frame, in the main *)
(* data areas of the frames before it.  libmad keeps the tail of what it   *)
(* has seen in stream->main_data and puts each frame's data together from  *)
(* that tail and from the frame.                                           *)
(*                                                                         *)
(* A byte is named by its place in the stream of main data areas, so that  *)
(* what the code copies can be told from what the frame was encoded with.  *)
(***************************************************************************)
EXTENDS Integers

CONSTANTS MaxBegin,    \* largest main_data_begin, 511
          MaxSpace,    \* largest main data area of a frame that readBuf holds
          MDLEN,       \* MAD_BUFFER_MDLEN, the bytes of main_data
          StreamLen    \* bound of the stream

(* main_data holds what any one frame brings or asks for.  It need not     *)
(* hold both: nothing limits the bit rate of free format but READBUFSZ.    *)
ASSUME ReservoirAssumption ==
    /\ MaxBegin \in Nat /\ MaxSpace \in Nat /\ StreamLen \in Nat
    /\ MDLEN \in Nat /\ MDLEN >= MaxBegin /\ MDLEN >= MaxSpace

VARIABLES main_data, md_len,   \* stream->main_data, stream->md_len
          pos,                 \* where the next frame's main data area is
          begin,               \* its main_data_begin
          gap,                 \* nothing was lost from here to pos
          result,              \* what mad_layer_III made of the last frame,
          from, since,         \* where its data began, and gap at that time,
          got, gotLen          \* and the bytes it was decoded from

reservoir == <<main_data, md_len>>
lastFrame == <<result, from, since, got, gotLen>>
vars == <<reservoir, pos, begin, gap, lastFrame>>

Slot == 0 .. MDLEN - 1
NoByte == -1

Init ==
    /\ main_data = [i \in Slot |-> NoByte] /\ md_len = 0
    /\ pos = 0 /\ begin \in 0 .. MaxBegin /\ gap = 0
    /\ result = "none" /\ from = 0 /\ since = 0
    /\ got = [i \in Slot |-> NoByte] /\ gotLen = 0

-----------------------------------------------------------------------------
(* Nothing behind main_data was written over so far. *)
Runs == result # "overflow"

(* One frame with an area of frame_space bytes, followed by a frame whose  *)
(* main_data_begin is nb.                                                  *)

(* A begin beyond this frame's own data is not believed. *)
next_md_begin(frame_space, nb) == IF nb > begin + frame_space THEN 0 ELSE nb

(* The bytes that belong to this frame. *)
frame_md_len(frame_space, next) == begin + frame_space - next

(* main_data_begin points into the reservoir. *)
Reaches == begin <= md_len

(* Bytes of the area that this frame itself needs. *)
frame_used(len) ==
    IF begin = 0 THEN len
    ELSE IF Reaches /\ len > begin THEN len - begin ELSE 0

(* Mutant: the copy starts one byte late. *)
Joined_Late(used) ==
    [i \in Slot |-> IF i - md_len \in 0 .. used - 1 THEN pos + (i - md_len) + 1
                    ELSE main_data[i]]

(* The reservoir with those bytes behind it. *)
Joined(used) ==
    [i \in Slot |-> IF i - md_len \in 0 .. used - 1 THEN pos + (i - md_len)
                    ELSE main_data[i]]

(* The bytes III_decode is pointed to. *)
Delivered(used) ==
    [i \in Slot |-> IF begin = 0 THEN pos + i
                    ELSE IF md_len - begin + i \in Slot
                         THEN Joined(used)[md_len - begin + i] ELSE NoByte]

(* Mutant: all of the old tail is kept. *)
Kept_All(free, len, next) == md_len

(* Mutant: nothing of it is. *)
Kept_None(free, len, next) == 0

(* Bytes of the old tail the next frame still needs, when it needs more    *)
(* than this frame has left.                                               *)
Kept(free, len, next) ==
    IF begin = 0 \/ len >= begin THEN 0
    ELSE LET extra == IF begin - len + free > next THEN next - free
                      ELSE begin - len
         IN  IF extra < md_len THEN extra ELSE md_len

(* Mutant: the head of the old tail is kept, not its end. *)
Preload_Head(frame_space, len, next) ==
    LET free == frame_space - frame_used(len)
        kept == IF free >= next THEN 0 ELSE Kept(free, len, next)
        more == IF free >= next THEN next ELSE free
    IN  /\ md_len' = kept + more
        /\ main_data' = [i \in Slot |->
               IF i < kept THEN main_data[i]
               ELSE IF i < kept + more THEN pos + frame_space - more + (i - kept)
               ELSE main_data[i]]

(* The tail is made ready for the next frame: the end of this frame alone, *)
(* or what is still needed of the old tail and all that this frame leaves. *)
Preload(frame_space, len, next) ==
    LET free == frame_space - frame_used(len)
        kept == IF free >= next THEN 0 ELSE Kept(free, len, next)
        more == IF free >= next THEN next ELSE free
    IN  /\ md_len' = kept + more
        /\ main_data' = [i \in Slot |->
               IF i < kept THEN main_data[md_len - kept + i]
               ELSE IF i < kept + more THEN pos + frame_space - more + (i - kept)
               ELSE IF begin = 0 THEN main_data[i]
               ELSE Joined(frame_used(len))[i]]

(* The bytes of the frame do not fit in main_data behind the old tail. *)
Overruns(frame_space, nb) ==
    LET len == frame_md_len(frame_space, next_md_begin(frame_space, nb))
    IN  begin # 0 /\ Reaches /\ len > begin /\ md_len + (len - begin) > MDLEN

(* sound: the checksum and the side information are right.  The reservoir  *)
(* is kept up whether or not the frame is decoded.                         *)
Frame(frame_space, nb, sound) ==
    LET next == next_md_begin(frame_space, nb)
        len == frame_md_len(frame_space, next)
    IN  /\ Runs /\ pos + frame_space <= StreamLen
        /\ ~Overruns(frame_space, nb)
        /\ result' = IF ~sound THEN "damaged"
                     ELSE IF begin # 0 /\ ~Reaches THEN "bad pointer" ELSE "decoded"
        /\ from' = pos - begin /\ since' = gap
        /\ gotLen' = IF result' = "decoded" THEN len ELSE 0
        /\ got' = IF result' = "decoded" THEN Delivered(frame_used(len))
                  ELSE [i \in Slot |-> NoByte]
        /\ Preload(frame_space, len, next)
        /\ pos' = pos + frame_space /\ begin' = nb
        /\ gap' = IF next = nb THEN gap ELSE pos'

(* They are copied all the same, over what is behind main_data in memory.  *)
(* What becomes of the player then depends on the build; the model stops.  *)
Overflow(frame_space, nb) ==
    /\ Runs /\ pos + frame_space <= StreamLen /\ Overruns(frame_space, nb)
    /\ result' = "overflow"
    /\ UNCHANGED <<reservoir, pos, begin, gap, from, since, got, gotLen>>

(* A frame too short for its side information: the reservoir is dropped. *)
ShortFrame(nb) ==
    /\ Runs
    /\ md_len' = 0 /\ result' = "short"
    /\ begin' = nb /\ gap' = pos
    /\ UNCHANGED <<main_data, pos, from, since, got, gotLen>>

(* Sync is lost and found again n bytes of main data later.  Nothing tells *)
(* the reservoir.                                                          *)
LostSync(n, nb) ==
    /\ Runs /\ pos + n <= StreamLen
    /\ pos' = pos + n /\ gap' = pos + n /\ begin' = nb /\ result' = "lost"
    /\ UNCHANGED <<reservoir, from, since, got, gotLen>>

Next ==
    \E nb \in 0 .. MaxBegin :
        \/ \E space \in 0 .. MaxSpace, sound \in BOOLEAN : Frame(space, nb, sound)
        \/ \E space \in 0 .. MaxSpace : Overflow(space, nb)
        \/ ShortFrame(nb)
        \/ \E n \in 0 .. MaxSpace : LostSync(n, nb)

Spec == Init /\ [][Next]_vars
-----------------------------------------------------------------------------
(* Correctness *)

TypeOK ==
    /\ main_data \in [Slot -> Int] /\ md_len \in 0 .. MDLEN
    /\ pos \in Nat /\ pos <= StreamLen /\ begin \in 0 .. MaxBegin
    /\ gap \in 0 .. pos
    /\ result \in {"none", "decoded", "damaged", "bad pointer", "short", "lost",
                  "overflow"}
    /\ from \in Int /\ since \in Nat
    /\ got \in [Slot -> Int] /\ gotLen \in 0 .. MDLEN

(* "preload main_data buffer with up to 511 bytes for next frame(s)": what *)
(* is carried over is never longer than any frame can point back.          *)
CarriesOver == md_len <= MaxBegin

(* Whatever was lost or damaged before, a frame that leaves room for what  *)
(* any frame may carry over fits behind the reservoir.  Every frame with a *)
(* bit rate from the tables is one of these.                               *)
JoinFits ==
    \A space \in 0 .. MaxSpace, nb \in 0 .. MaxBegin :
        space + MaxBegin <= MDLEN => ~Overruns(space, nb)

(* The assertion of mad_layer_III, compiled out by NDEBUG: every frame     *)
(* fits.  A frame in free format need not.                                 *)
AssertionHolds == Runs

(* A frame whose data was received without a gap is decoded from just that *)
(* data, in order, whatever happened to the frames before it.              *)
DecodesItsData ==
    result = "decoded" /\ from >= since => \A i \in 0 .. gotLen - 1 : got[i] = from + i

(* Nor is such a frame ever refused for a bad main_data_begin: after a     *)
(* loss the decoder recovers as soon as the data allows.                   *)
NoFalseBadPointer == result = "bad pointer" => from < since

(* What the two rest on: of the tail, every byte from after the gap is in  *)
(* its place, and the tail is as long as the next frame needs or as there  *)
(* is anything to keep.                                                    *)
TailIsStream ==
    \A i \in 0 .. md_len - 1 :
        pos - md_len + i >= gap => main_data[i] = pos - md_len + i

TailIsEnough == md_len >= begin \/ md_len >= pos - gap
=============================================================================
