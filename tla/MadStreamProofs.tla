--------------------------- MODULE MadStreamProofs ---------------------------
(***************************************************************************)
(* For every size of the buffer and every length of the frames: nothing is *)
(* read behind the buffer, frames that are followed are never lost, none   *)
(* is missed when sync words occur in headers only, and the search for     *)
(* them moves on.                                                          *)
(***************************************************************************)
EXTENDS MCMadStream, SequenceTheorems, WellFoundedInduction, TLAPS

Positions == 0 .. bufend - 1

(* A frame of the server starts at p. *)
Starts(p) == p < bufend /\ At(p).start

(* Where the frame ends that starts at p. *)
End(p) == p + FrameLen(At(p).kind)

(* What is known where tskmad stands. *)
Places ==
    /\ pc = "fill" => next_frame = 0 /\ ptr = 0
    /\ pc = "sync" => ptr = next_frame
    /\ pc = "begin" => SyncWord(ptr)
    /\ pc = "layer" => sync

(* The headers sent are at the starts, all else is noise. *)
Sent ==
    \A p \in Positions : IF At(p).start THEN At(p).kind \in server.frames
                                        ELSE At(p).kind \in server.noise

(* The frames in the buffer follow each other without a gap, the last one  *)
(* is still owed `body' bytes.                                             *)
Framed ==
    \A p \in Positions, e \in Nat : At(p).start /\ e = End(p) =>
        /\ \A r \in Positions : p < r /\ r < e => ~At(r).start
        /\ e < bufend => At(e).start
        /\ e >= bufend => e = bufend + body

(* A decoder that follows the frames stands at the start of one, or will   *)
(* go on from there.                                                       *)
Follows ==
    locked =>
        /\ pc \in {"sync", "begin"} => sync /\ Starts(ptr)
        /\ pc \in {"layer", "input", "fill"} => Starts(next_frame)
        /\ FreeFormat \in server.frames => freerate = FreeLen

(* With sync words in headers only, no frame was and none is passed over. *)
HeadersOnly == server.noise = {NoSync} /\ FreeFormat \notin server.frames
Kept == HeadersOnly => ~missed /\ (pc = "layer" => ~Passes(this_frame + 1, next_frame))

IInv == TypeOK /\ GuardHolds /\ Places /\ Sent /\ Framed /\ Follows /\ Kept
-----------------------------------------------------------------------------
(* What the places of the buffer hold *)

(* A set of naturals has a least element. *)
Less == {ss \in Nat \X Nat : ss[1] < ss[2]}

LEMMA LessWellFounded == IsWellFoundedOn(Less, Nat)
BY NatLessThanWellFounded, Zenon DEF OpToRel, Less

LEMMA Least ==
    ASSUME NEW T \in SUBSET Nat, T # {}
    PROVE  \E m \in T : \A k \in T : m <= k
<1>1. PICK m \in T : \A k \in T : <<k, m>> \notin Less
    BY LessWellFounded, WFMin, Zenon
<1>2. \A k \in T : ~(k < m)
    BY <1>1 DEF Less
<1>. QED  BY <1>2

LEMMA Sizes ==
    ASSUME TypeOK
    PROVE  /\ bufend \in Nat /\ bufend <= READBUFSZ /\ READBUFSZ \in Nat
           /\ MAD_BUFFER_GUARD \in Nat /\ MAD_BUFFER_GUARD >= 2
           /\ MAD_BUFFER_GUARD + 1 <= READBUFSZ
           /\ FreeLen \in Nat /\ FreeLen > 0 /\ FreeLen <= READBUFSZ
           /\ OtherLen \in Nat /\ OtherLen > 0
           /\ this_frame \in Nat /\ this_frame <= bufend
           /\ next_frame \in Nat /\ next_frame <= bufend
           /\ ptr \in Nat /\ ptr <= bufend
           /\ MaxFree \in Nat /\ freerate \in Nat /\ freerate <= MaxFree
           /\ body \in Nat
           /\ server \in Servers /\ server.frames \subseteq Nat
           /\ FreeFormat \in server.frames => server.frames = {FreeFormat}
<1>1. bufend \in Nat
    BY LenProperties DEF TypeOK, bufend
<1>2. FreeLen + MAD_BUFFER_GUARD <= READBUFSZ /\ 1 + MAD_BUFFER_GUARD <= READBUFSZ
  <2>. DEFINE U == (UNION {s.frames \cup s.noise : s \in Servers})
                      \cup {FreeLen, OtherLen, 1}
  <2>1. \A n \in U : n + MAD_BUFFER_GUARD <= READBUFSZ
    BY StreamAssumption
  <2>2. FreeLen \in U /\ 1 \in U
    OBVIOUS
  <2>. HIDE DEF U
  <2>. QED  BY <2>1, <2>2
<1>3. /\ MAD_BUFFER_GUARD \in Nat /\ MAD_BUFFER_GUARD >= 2
      /\ FreeLen \in Nat \ {0} /\ OtherLen \in Nat \ {0}
      /\ READBUFSZ \in Nat /\ MaxFree \in Nat
    BY StreamAssumption
<1>4. /\ server \in Servers /\ server.frames \subseteq Nat
      /\ FreeFormat \in server.frames => server.frames = {FreeFormat}
    BY StreamAssumption DEF TypeOK
<1>5. /\ MAD_BUFFER_GUARD + 1 <= READBUFSZ
      /\ FreeLen > 0 /\ FreeLen <= READBUFSZ /\ OtherLen > 0
    BY <1>2, <1>3, SMT
<1>6. /\ bufend <= READBUFSZ
      /\ this_frame \in Nat /\ this_frame <= bufend
      /\ next_frame \in Nat /\ next_frame <= bufend
      /\ ptr \in Nat /\ ptr <= bufend
      /\ freerate \in Nat /\ freerate <= MaxFree /\ body \in Nat
  <2>1. /\ bufend <= READBUFSZ
        /\ this_frame \in 0 .. bufend /\ next_frame \in 0 .. bufend
        /\ ptr \in 0 .. bufend /\ freerate \in 0 .. MaxFree /\ body \in Nat
    BY Zenon DEF TypeOK
  <2>. QED  BY <1>1, <1>3, <2>1
<1>. QED  BY <1>1, <1>3, <1>4, <1>5, <1>6

LEMMA Places0 ==
    ASSUME TypeOK, Sent, NEW p \in Positions
    PROVE  /\ At(p).start \in BOOLEAN
           /\ At(p).kind \in Int
           /\ ~At(p).start => At(p).kind \in server.noise
           /\ At(p).start => At(p).kind \in server.frames
<1>1. bufend \in Nat
    BY Sizes
<1>2. p + 1 \in 1 .. Len(buf)
    BY <1>1 DEF Positions, bufend
<1>3. At(p) \in [kind : server.frames \cup server.noise, start : BOOLEAN]
    BY <1>2, ElementOfSeq DEF TypeOK, At
<1>4. server.frames \subseteq Nat /\ server.noise \subseteq Kinds
    BY StreamAssumption DEF TypeOK
<1>5. At(p).kind \in Kinds
    BY <1>3, <1>4 DEF Kinds
<1>. QED  BY <1>3, <1>5 DEF Sent, Kinds, NoSync, BadHeader, OtherLayer, LongLayer

(* A header that the server sent is that of a frame. *)
LEMMA AtStart ==
    ASSUME TypeOK, Sent, NEW p \in Positions, At(p).start
    PROVE  /\ At(p).kind \in Nat /\ At(p).kind \in server.frames
           /\ SyncWord(p)
           /\ FrameLen(At(p).kind) \in Nat /\ FrameLen(At(p).kind) > 0
<1>1. At(p).kind \in server.frames
    BY Places0
<1>2. At(p).kind \in Nat
    BY <1>1, Sizes
<1>3. FreeLen \in Nat /\ FreeLen > 0
    BY Sizes
<1>. QED  BY <1>1, <1>2, <1>3 DEF SyncWord, NoSync, FrameLen, FreeFormat

(* When sync words occur in headers only, a sync word is a header. *)
LEMMA CleanSync ==
    ASSUME TypeOK, Sent, HeadersOnly, NEW p \in Positions, SyncWord(p)
    PROVE  At(p).start /\ At(p).kind # FreeFormat
<1>1. At(p).start
    BY Places0 DEF HeadersOnly, SyncWord
<1>. QED  BY <1>1, AtStart DEF HeadersOnly

(* The rate and the length of a frame whose header is good. *)
LEMMA Lengths ==
    ASSUME TypeOK, Sent, Places, HeaderGood, ptr \in Positions
    PROVE  /\ rate \in Nat /\ rate <= MaxFree
           /\ N \in Nat
           /\ ~NeedsRate => rate = freerate
<1>1. rate \in Nat /\ rate <= MaxFree
  <2>1. CASE NeedsRate
    <3>1. rate \in Distances
        BY <2>1 DEF rate, HeaderGood
    <3>. QED  BY <3>1, Sizes DEF Distances
  <2>2. CASE ~NeedsRate
    BY <2>2, Sizes DEF rate
  <2>. QED  BY <2>1, <2>2
<1>2. N \in Nat
  <2>1. At(ptr).kind \in Kinds
    <3>1. ptr + 1 \in 1 .. Len(buf)
        BY Sizes DEF Positions, bufend
    <3>2. At(ptr) \in [kind : server.frames \cup server.noise, start : BOOLEAN]
        BY <3>1, ElementOfSeq DEF TypeOK, At
    <3>. QED  BY <3>2, StreamAssumption DEF TypeOK, Kinds
  <2>2. At(ptr).kind # BadHeader /\ At(ptr).kind # NoSync
    BY DEF HeaderGood, Places, SyncWord
  <2>3. OtherLen \in Nat /\ READBUFSZ \in Nat
    BY Sizes
  <2>. QED  BY <1>1, <2>1, <2>2, <2>3 DEF N, Kinds
<1>3. ~NeedsRate => rate = freerate
    BY DEF rate
<1>. QED  BY <1>1, <1>2, <1>3
-----------------------------------------------------------------------------
(* Emptying and refilling the buffer *)

Content == [kind : server.frames \cup server.noise, start : BOOLEAN]

(* The type invariant, the numbers and all else apart. *)
Numbers ==
    /\ bufend <= READBUFSZ
    /\ this_frame \in 0 .. bufend /\ next_frame \in 0 .. bufend
    /\ ptr \in 0 .. bufend /\ freerate \in 0 .. MaxFree /\ body \in Nat

Marks ==
    /\ pc \in {"input", "fill", "sync", "begin", "layer", "crash"}
    /\ sync \in BOOLEAN /\ server \in Servers
    /\ error \in {"none", "buflen", "lostsync", "bad header", "bad data"}
    /\ locked \in BOOLEAN /\ searching \in BOOLEAN /\ missed \in BOOLEAN

LEMMA Types == TypeOK <=> buf \in Seq(Content) /\ Numbers /\ Marks
BY Zenon DEF TypeOK, Content, Numbers, Marks

LEMMA InitOK == Init => IInv
<1>. SUFFICES ASSUME Init
              PROVE  IInv
    OBVIOUS
<1>1. buf = <<>> /\ bufend = 0
    BY DEF Init, bufend
<1>2. TypeOK
  <2>1. Numbers
    BY <1>1, StreamAssumption DEF Init, Numbers
  <2>2. Marks
    BY Zenon DEF Init, Marks
  <2>. QED  BY <1>1, <2>1, <2>2, EmptySeq, Types, Zenon
<1>3. Positions = {}
    BY <1>1 DEF Positions
<1>4. ~locked /\ ~missed /\ pc = "fill" /\ next_frame = 0 /\ ptr = 0
    BY DEF Init
<1>. QED  BY <1>2, <1>3, <1>4 DEF IInv, GuardHolds, Places, Sent, Framed, Follows, Kept

(* The byte that Fill appends, and what becomes of `body'. *)
New(new) ==
    \/ /\ body = 0 /\ new.start = TRUE /\ new.kind \in server.frames
       /\ body' = FrameLen(new.kind) - 1
    \/ /\ body > 0 /\ new.start = FALSE /\ new.kind \in server.noise
       /\ body' = body - 1

LEMMA Appended ==
    ASSUME Fill
    PROVE  \E new \in Content : buf' = Append(buf, new) /\ New(new)
<1>1. CASE body = 0
  <2>0. ~(body > 0)
    BY <1>1
  <2>1. PICK kind \in server.frames :
            /\ buf' = Append(buf, [kind |-> kind, start |-> TRUE])
            /\ body' = FrameLen(kind) - 1
    BY <2>0, Zenon DEF Fill
  <2>. DEFINE new == [kind |-> kind, start |-> TRUE]
  <2>2. new \in Content /\ new.kind = kind /\ new.start = TRUE
    BY Zenon DEF Content
  <2>3. New(new)
    BY <1>1, <2>1, <2>2, Zenon DEF New
  <2>. HIDE DEF new
  <2>. QED  BY <2>1, <2>2, <2>3, Zenon DEF new
<1>2. CASE body # 0
  <2>1. PICK kind \in server.noise :
            /\ buf' = Append(buf, [kind |-> kind, start |-> FALSE])
            /\ body > 0 /\ body' = body - 1
    BY <1>2, Zenon DEF Fill
  <2>. DEFINE new == [kind |-> kind, start |-> FALSE]
  <2>2. new \in Content /\ new.kind = kind /\ new.start = FALSE
    BY Zenon DEF Content
  <2>3. New(new)
    BY <2>1, <2>2, Zenon DEF New
  <2>. HIDE DEF new
  <2>. QED  BY <2>1, <2>2, <2>3, Zenon DEF new
<1>. QED  BY <1>1, <1>2
LEMMA FillOK == IInv /\ Fill => IInv'
<1>. SUFFICES ASSUME IInv, Fill
              PROVE  IInv'
    OBVIOUS
<1>. USE DEF IInv
<1>0. PICK m \in Nat : m = bufend
    BY Sizes
<1>1. PICK new \in Content : buf' = Append(buf, new) /\ New(new)
    BY Appended
<1>2. /\ buf' \in Seq(Content) /\ bufend' = bufend + 1
      /\ \A p \in Positions : At(p)' = At(p)
      /\ At(m)' = new
  <2>1. buf \in Seq(Content) /\ bufend \in Nat
    BY Sizes, Types
  <2>. QED  BY <1>0, <1>1, <2>1, AppendProperties DEF At, bufend, Positions
<1>3. /\ UNCHANGED <<pc, server, this_frame, next_frame, sync, freerate, error, ptr>>
      /\ UNCHANGED <<locked, searching, missed>>
      /\ pc = "fill" /\ bufend < READBUFSZ
    BY Zenon DEF Fill, stream, ghosts
<1>4. bufend \in Nat /\ body \in Nat /\ next_frame = 0 /\ ptr = 0
    BY <1>3, Sizes DEF Places
<1>5. Positions' = Positions \cup {m}
    BY <1>0, <1>2, <1>4 DEF Positions
<1>6. /\ new.start => body = 0 /\ new.kind \in server.frames
                      /\ body' = FrameLen(new.kind) - 1
      /\ ~new.start => body > 0 /\ new.kind \in server.noise /\ body' = body - 1
    BY <1>1, Zenon DEF New
<1>7. new.start => FrameLen(new.kind) \in Nat /\ FrameLen(new.kind) > 0
    BY <1>6, Sizes DEF FrameLen, FreeFormat
<1>8. TypeOK'
  <2>1. body' \in Nat
    BY <1>4, <1>6, <1>7
  <2>2. Numbers'
    BY <1>2, <1>3, <1>4, <2>1, Sizes DEF Numbers
  <2>3. Marks'
    BY <1>3, Types, Zenon DEF Marks
  <2>4. Content' = Content
    BY <1>3, Zenon DEF Content
  <2>. QED  BY <1>2, <2>2, <2>3, <2>4, Zenon DEF TypeOK, Content, Numbers, Marks
<1>9. GuardHolds' /\ Places'
    BY <1>3 DEF GuardHolds, Places
<1>10. Sent'
  <2>. SUFFICES ASSUME NEW p \in Positions'
                PROVE  IF At(p)'.start THEN At(p)'.kind \in server.frames
                                       ELSE At(p)'.kind \in server.noise
    BY <1>3, Zenon DEF Sent
  <2>1. CASE p = m
    BY <1>2, <1>6, <2>1, Zenon
  <2>2. CASE p \in Positions
    BY <1>2, <2>2, Zenon DEF Sent
  <2>. QED  BY <1>5, <2>1, <2>2
<1>11. Framed'
  <2>. SUFFICES ASSUME NEW p \in Positions', NEW e \in Nat, At(p)'.start, e = End(p)'
                PROVE  /\ \A r \in Positions' : p < r /\ r < e => ~At(r)'.start
                       /\ e < bufend' => At(e)'.start
                       /\ e >= bufend' => e = bufend' + body'
    BY DEF Framed
  <2>1. CASE p = m
    <3>1. new.start
        BY <1>2, <2>1, Zenon
    <3>2. e = m + FrameLen(new.kind)
        BY <1>2, <2>1, Zenon DEF End, FrameLen
    <3>3. e >= bufend' /\ e = bufend' + body'
        BY <1>0, <1>2, <1>4, <1>6, <1>7, <3>1, <3>2
    <3>4. \A r \in Positions' : ~(p < r)
        BY <1>0, <1>4, <1>5, <2>1 DEF Positions
    <3>. QED  BY <1>2, <1>4, <3>3, <3>4
  <2>2. CASE p \in Positions
    <3>1. At(p).start /\ e = End(p)
        BY <1>2, <2>2, Zenon DEF End, FrameLen
    <3>2. /\ \A r \in Positions : p < r /\ r < e => ~At(r).start
          /\ e < bufend => At(e).start
          /\ e >= bufend => e = bufend + body
        BY <2>2, <3>1 DEF Framed
    <3>3. m < e => ~new.start
        BY <1>0, <1>4, <1>6, <3>2
    <3>4. \A r \in Positions' : p < r /\ r < e => ~At(r)'.start
        BY <1>2, <1>5, <3>2, <3>3, Zenon
    <3>5. e < bufend' => At(e)'.start
      <4>1. CASE e < bufend
        <5>1. e \in Positions
            BY <1>4, <4>1 DEF Positions
        <5>. QED  BY <1>2, <3>2, <4>1, <5>1, Zenon
      <4>2. CASE e = m
        <5>1. body = 0
            BY <1>0, <1>4, <3>2, <4>2
        <5>2. new.start
            BY <1>1, <1>4, <5>1 DEF New
        <5>. QED  BY <1>2, <4>2, <5>2, Zenon
      <4>. QED  BY <1>0, <1>2, <1>4, <4>1, <4>2
    <3>6. e >= bufend' => e = bufend' + body'
      <4>1. e >= bufend' => body > 0
        BY <1>2, <1>4, <3>2
      <4>2. body > 0 => body' = body - 1
        BY <1>6
      <4>. QED  BY <1>2, <1>4, <3>2, <4>1, <4>2
    <3>. QED  BY <3>4, <3>5, <3>6, Zenon
  <2>. QED  BY <1>5, <2>1, <2>2
<1>12. Follows'
  <2>1. locked => Starts(next_frame)'
    <3>1. locked => next_frame \in Positions /\ At(next_frame).start
        BY <1>3, <1>4 DEF Follows, Starts, Positions
    <3>2. locked => next_frame < bufend'
        BY <1>2, <1>4, <3>1 DEF Positions
    <3>3. locked => At(next_frame)'.start
        BY <1>2, <1>3, <3>1, Zenon DEF At
    <3>. QED  BY <1>3, <3>2, <3>3, Zenon DEF Starts
  <2>. QED  BY <1>3, <2>1 DEF Follows
<1>13. Kept'
    BY <1>3 DEF Kept, HeadersOnly
<1>. QED  BY <1>8, <1>9, <1>10, <1>11, <1>12, <1>13, Zenon
LEMMA ShiftOK == IInv /\ Shift => IInv'
<1>. SUFFICES ASSUME IInv, Shift
              PROVE  IInv'
    OBVIOUS
<1>. USE DEF IInv
<1>1. PICK d \in Nat : d = next_frame
    BY Sizes
<1>2. /\ buf' = SubSeq(buf, d + 1, bufend)
      /\ this_frame' = 0 /\ next_frame' = 0 /\ ptr' = 0
      /\ UNCHANGED <<sync, freerate, error, server, body, locked, searching, missed>>
      /\ pc = "input" /\ pc' = "fill"
    BY <1>1, Zenon DEF Shift, net, ghosts
<1>3. bufend \in Nat /\ d <= bufend
    BY <1>1, Sizes
<1>4. /\ buf' \in Seq(Content) /\ bufend' = bufend - d
      /\ \A p \in Positions' : p + d \in Positions /\ At(p)' = At(p + d)
  <2>1. \A k \in d + 1 .. bufend : buf[k] \in Content
    <3>1. buf \in Seq(Content)
        BY Types
    <3>. QED  BY <1>3, <3>1, ElementOfSeq DEF bufend
  <2>2. /\ buf' \in Seq(Content)
        /\ Len(buf') = IF d + 1 <= bufend THEN bufend - (d + 1) + 1 ELSE 0
        /\ \A k \in 1 .. bufend - (d + 1) + 1 : buf'[k] = buf[d + 1 + k - 1]
    BY <1>2, <1>3, <2>1, SubSeqProperties
  <2>3. bufend' = bufend - d
    BY <1>3, <2>2 DEF bufend
  <2>4. \A p \in Positions' : /\ p \in Nat /\ p + d \in Positions
                             /\ p + 1 \in 1 .. bufend - (d + 1) + 1
                             /\ d + 1 + (p + 1) - 1 = p + d + 1
    BY <1>3, <2>3 DEF Positions
  <2>5. \A p \in Positions' : At(p)' = At(p + d)
    BY <2>2, <2>4, SMT DEF At
  <2>. QED  BY <2>2, <2>3, <2>4, <2>5
<1>5. TypeOK'
  <2>1. Numbers'
    BY <1>2, <1>3, <1>4, Sizes DEF Numbers
  <2>2. Marks'
    BY <1>2, Types, Zenon DEF Marks
  <2>3. Content' = Content
    BY <1>2, Zenon DEF Content
  <2>. QED  BY <1>4, <2>1, <2>2, <2>3, Zenon DEF TypeOK, Content, Numbers, Marks
<1>6. GuardHolds' /\ Places'
    BY <1>2 DEF GuardHolds, Places
<1>7. Sent'
    BY <1>2, <1>4, Zenon DEF Sent
<1>8. Framed'
  <2>. SUFFICES ASSUME NEW p \in Positions', NEW e \in Nat, At(p)'.start, e = End(p)'
                PROVE  /\ \A r \in Positions' : p < r /\ r < e => ~At(r)'.start
                       /\ e < bufend' => At(e)'.start
                       /\ e >= bufend' => e = bufend' + body'
    BY DEF Framed
  <2>1. p + d \in Positions /\ At(p + d).start
    BY <1>4, Zenon
  <2>2. FrameLen(At(p + d).kind) \in Nat
    BY <2>1, AtStart
  <2>3. e = p + FrameLen(At(p + d).kind)
    BY <1>4, Zenon DEF End, FrameLen
  <2>4. e + d \in Nat /\ e + d = End(p + d)
    BY <1>3, <1>4, <2>2, <2>3 DEF End, Positions
  <2>5. /\ \A r \in Positions : p + d < r /\ r < e + d => ~At(r).start
        /\ e + d < bufend => At(e + d).start
        /\ e + d >= bufend => e + d = bufend + body
    BY <2>1, <2>4 DEF Framed
  <2>6. \A r \in Positions' : p < r /\ r < e => ~At(r)'.start
    <3>. SUFFICES ASSUME NEW r \in Positions', p < r, r < e
                  PROVE  ~At(r)'.start
        OBVIOUS
    <3>1. r + d \in Positions /\ p + d < r + d /\ r + d < e + d
        BY <1>3, <1>4 DEF Positions
    <3>2. ~At(r + d).start
        BY <2>5, <3>1
    <3>. QED  BY <1>4, <3>2, Zenon
  <2>7. e < bufend' => At(e)'.start
    <3>. SUFFICES ASSUME e < bufend'
                  PROVE  At(e)'.start
        OBVIOUS
    <3>1. e \in Positions' /\ e + d < bufend
        BY <1>3, <1>4 DEF Positions
    <3>. QED  BY <1>4, <2>5, <3>1, Zenon
  <2>8. e >= bufend' => e = bufend' + body'
    <3>1. bufend' = bufend - d /\ body' = body /\ body \in Nat
        BY <1>2, <1>4, Sizes
    <3>2. e + d >= bufend => e + d = bufend + body
        BY <2>5
    <3>. QED  BY <1>3, <3>1, <3>2
  <2>. QED  BY <2>6, <2>7, <2>8, Zenon
<1>9. Follows'
  <2>. SUFFICES ASSUME locked
                PROVE  Starts(next_frame)'
    BY <1>2 DEF Follows
  <2>1. d < bufend /\ At(d).start
    BY <1>1, <1>2, Zenon DEF Follows, Starts
  <2>2. 0 \in Positions' /\ 0 + d = d
    BY <1>3, <1>4, <2>1 DEF Positions
  <2>3. At(0)'.start
    BY <1>4, <2>1, <2>2, Zenon
  <2>4. 0 < bufend'
    BY <1>3, <1>4, <2>1
  <2>5. At(next_frame)' = At(0)'
    BY <1>2, Zenon DEF At
  <2>. QED  BY <1>2, <2>3, <2>4, <2>5, Zenon DEF Starts
<1>10. Kept'
    BY <1>2 DEF Kept, HeadersOnly
<1>. QED  BY <1>5, <1>6, <1>7, <1>8, <1>9, <1>10, Zenon
-----------------------------------------------------------------------------
(* Steps that leave the buffer alone *)

LEMMA Steady ==
    ASSUME IInv, UNCHANGED <<buf, server, body>>
    PROVE  /\ bufend' = bufend /\ Content' = Content /\ buf' \in Seq(Content)
           /\ HeadersOnly' = HeadersOnly
           /\ Sent' /\ Framed'
<1>1. bufend' = bufend /\ Positions' = Positions
    BY Zenon DEF bufend, Positions
<1>2. Content' = Content /\ buf' \in Seq(Content)
    BY Types, Zenon DEF Content, IInv
<1>3. HeadersOnly' = HeadersOnly
    BY Zenon DEF HeadersOnly
<1>4. Sent'
    BY <1>1, Zenon DEF IInv, Sent, At
<1>5. Framed'
    BY <1>1, Zenon DEF IInv, Framed, At, End, FrameLen
<1>. QED  BY <1>1, <1>2, <1>3, <1>4, <1>5, Zenon

(* What has to be shown of such a step. *)
LEMMA Steadily ==
    ASSUME IInv, UNCHANGED <<buf, server, body>>, Numbers', Marks',
           GuardHolds', Places', Follows', Kept'
    PROVE  IInv'
<1>1. TypeOK'
    BY Steady, Zenon DEF TypeOK, Content, Numbers, Marks
<1>. QED  BY <1>1, Steady, Zenon DEF IInv

(* A header is looked at with enough bytes behind it. *)
LEMMA AtPtr ==
    ASSUME IInv, ptr + MAD_BUFFER_GUARD <= bufend
    PROVE  ptr \in Positions
<1>1. /\ ptr \in Nat /\ bufend \in Nat
      /\ MAD_BUFFER_GUARD \in Nat /\ MAD_BUFFER_GUARD >= 2
    BY Sizes DEF IInv
<1>. QED  BY <1>1 DEF Positions

(* A decoder that follows the frames finds the header it expects, and      *)
(* knows how long its frame is.                                            *)
LEMMA OnTrack ==
    ASSUME IInv, locked, pc \in {"sync", "begin"}
    PROVE  /\ sync /\ ptr \in Positions /\ At(ptr).start
           /\ SyncWord(ptr) /\ At(ptr).kind \in Nat
           /\ ~NeedsRate
           /\ N = FrameLen(At(ptr).kind)
<1>1. sync /\ Starts(ptr)
    BY Zenon DEF IInv, Follows
<1>2. ptr \in Positions
    BY <1>1, Sizes DEF IInv, Starts, Positions
<1>3. /\ At(ptr).start /\ SyncWord(ptr)
      /\ At(ptr).kind \in Nat /\ At(ptr).kind \in server.frames
    BY <1>1, <1>2, AtStart DEF IInv, Starts
<1>4. At(ptr).kind = FreeFormat => freerate = FreeLen
    BY <1>3, Zenon DEF IInv, Follows
<1>5. ~NeedsRate
    BY <1>1, <1>4, Sizes DEF IInv, NeedsRate
<1>6. rate = freerate
    BY <1>5, Zenon DEF rate
<1>7. N = FrameLen(At(ptr).kind)
    BY <1>3, <1>4, <1>6 DEF N, FrameLen, OtherLayer, LongLayer, FreeFormat
<1>. QED  BY <1>1, <1>2, <1>3, <1>5, <1>7

(* With sync words in headers only, every header looked at is one. *)
LEMMA OnClean ==
    ASSUME IInv, HeadersOnly, pc = "begin"
    PROVE  /\ ptr \in Positions /\ At(ptr).start
           /\ At(ptr).kind \in Nat
           /\ ~NeedsRate
           /\ N = FrameLen(At(ptr).kind)
<1>1. ptr \in Positions /\ SyncWord(ptr)
    BY AtPtr DEF IInv, Places, GuardHolds
<1>2. At(ptr).start /\ At(ptr).kind # FreeFormat
    BY <1>1, CleanSync DEF IInv
<1>3. At(ptr).kind \in Nat
    BY <1>1, <1>2, AtStart DEF IInv
<1>4. ~NeedsRate
    BY <1>2, Zenon DEF NeedsRate
<1>5. N = FrameLen(At(ptr).kind)
    BY <1>2, <1>3 DEF N, FrameLen, OtherLayer, LongLayer, FreeFormat
<1>. QED  BY <1>1, <1>2, <1>3, <1>4, <1>5

(* The frame after one that lies in the buffer starts there, too. *)
LEMMA NextStart ==
    ASSUME IInv, NEW p \in Positions, At(p).start, NEW e \in Nat,
           e = p + FrameLen(At(p).kind), e < bufend
    PROVE  /\ e \in Positions /\ At(e).start /\ SyncWord(e)
           /\ \A r \in Positions : p < r /\ r < e => ~At(r).start
<1>1. e \in Positions
    BY Sizes DEF IInv, Positions
<1>2. /\ At(e).start
      /\ \A r \in Positions : p < r /\ r < e => ~At(r).start
    BY DEF IInv, Framed, End
<1>3. SyncWord(e)
    BY <1>1, <1>2, AtStart DEF IInv
<1>. QED  BY <1>1, <1>2, <1>3
-----------------------------------------------------------------------------
(* mad_header_decode *)

(* A failure, at a place that is no frame the decoder follows and that     *)
(* gives up no frame.                                                      *)
LEMMA FailOK ==
    ASSUME IInv, NEW err \in {"buflen", "lostsync", "bad header"}, Fail(err),
           this_frame' \in 0 .. bufend, next_frame' \in 0 .. bufend,
           err = "buflen" => ~locked,
           HeadersOnly => ~Passes(ptr, next_frame')
    PROVE  IInv'
<1>1. /\ error' = err /\ sync' = FALSE /\ ptr' = next_frame'
      /\ pc' \in {"input", "sync"}
      /\ UNCHANGED <<buf, freerate, server, body>>
    BY Zenon DEF Fail, net
<1>2. ~locked'
    BY Zenon DEF Fail
<1>3. locked' \in BOOLEAN /\ searching' \in BOOLEAN /\ missed' \in BOOLEAN
    BY Zenon DEF Fail
<1>4. bufend' = bufend /\ HeadersOnly' = HeadersOnly
    BY <1>1, Steady
<1>5. Numbers'
    BY <1>1, <1>4, Types, Zenon DEF IInv, Numbers
<1>6. Marks'
    BY <1>1, <1>3, Types, Zenon DEF IInv, Marks
<1>7. GuardHolds' /\ Places' /\ Follows'
    BY <1>1, <1>2 DEF GuardHolds, Places, Follows
<1>8. Kept'
  <2>1. HeadersOnly => ~missed'
    BY Zenon DEF IInv, Kept, Fail
  <2>2. pc' # "layer"
    BY <1>1
  <2>. QED  BY <1>4, <2>1, <2>2, Zenon DEF Kept
<1>. QED  BY <1>1, <1>5, <1>6, <1>7, <1>8, Steadily

(* Looking one byte further. *)
LEMMA NextByte ==
    ASSUME IInv, ptr \in Positions, NEW k \in Nat, k = ptr + 1
    PROVE  /\ ptr \in 0 .. bufend /\ k \in 0 .. bufend
           /\ Passes(ptr, k) => At(ptr).start
<1>1. bufend \in Nat
    BY Sizes DEF IInv
<1>2. ptr \in 0 .. bufend /\ k \in 0 .. bufend
    BY <1>1 DEF Positions
<1>3. ptr .. k - 1 = {ptr}
    BY <1>1 DEF Positions
<1>. QED  BY <1>2, <1>3, Zenon DEF Passes

LEMMA SyncLostOK == IInv /\ SyncLost => IInv' /\ ~locked
<1>. SUFFICES ASSUME IInv, SyncLost
              PROVE  IInv' /\ ~locked
    OBVIOUS
<1>1. pc = "sync" /\ sync /\ ~SyncWord(ptr) /\ Fail("lostsync")
    BY Zenon DEF SyncLost
<1>2. this_frame' = ptr /\ next_frame' = ptr + 1
    BY Zenon DEF SyncLost
<1>3. ptr \in Positions
    BY <1>1, AtPtr DEF IInv, GuardHolds
<1>4. ~At(ptr).start
    BY <1>1, <1>3, AtStart DEF IInv
<1>5. ~locked
    BY <1>1, <1>4, OnTrack
<1>6. ptr + 1 \in Nat
    BY <1>3 DEF Positions
<1>7. /\ this_frame' \in 0 .. bufend /\ next_frame' \in 0 .. bufend
      /\ ~Passes(ptr, next_frame')
    BY <1>2, <1>3, <1>4, <1>6, NextByte
<1>. QED  BY <1>1, <1>5, <1>7, FailOK

LEMMA HeaderBadOK == IInv /\ HeaderBad => IInv' /\ ~locked
<1>. SUFFICES ASSUME IInv, HeaderBad
              PROVE  IInv' /\ ~locked
    OBVIOUS
<1>1. pc = "begin" /\ At(ptr).kind = BadHeader /\ Fail("bad header")
    BY Zenon DEF HeaderBad
<1>2. this_frame' = ptr /\ next_frame' = ptr + 1
    BY Zenon DEF HeaderBad
<1>3. ptr \in Positions
    BY <1>1, AtPtr DEF IInv, GuardHolds
<1>4. ~At(ptr).start
  <2>1. At(ptr).start => At(ptr).kind \in Nat
    BY <1>3, AtStart DEF IInv
  <2>2. BadHeader \notin Nat
    BY DEF BadHeader
  <2>. QED  BY <1>1, <2>1, <2>2, Zenon
<1>5. ~locked
    BY <1>1, <1>4, OnTrack
<1>6. ptr + 1 \in Nat
    BY <1>3 DEF Positions
<1>7. /\ this_frame' \in 0 .. bufend /\ next_frame' \in 0 .. bufend
      /\ ~Passes(ptr, next_frame')
    BY <1>2, <1>3, <1>4, <1>6, NextByte
<1>. QED  BY <1>1, <1>5, <1>7, FailOK

LEMMA RateUnknownOK == IInv /\ RateUnknown => IInv' /\ ~locked
<1>. SUFFICES ASSUME IInv, RateUnknown
              PROVE  IInv' /\ ~locked
    OBVIOUS
<1>1. pc = "begin" /\ NeedsRate /\ Fail("lostsync")
    BY Zenon DEF RateUnknown
<1>2. this_frame' = ptr /\ next_frame' = ptr + 1
    BY Zenon DEF RateUnknown
<1>3. ptr \in Positions
    BY <1>1, AtPtr DEF IInv, GuardHolds
<1>4. ~locked
    BY <1>1, OnTrack
<1>5. ~HeadersOnly
    BY <1>1, OnClean
<1>6. ptr + 1 \in Nat
    BY <1>3 DEF Positions
<1>7. this_frame' \in 0 .. bufend /\ next_frame' \in 0 .. bufend
    BY <1>2, <1>3, <1>6, NextByte
<1>. QED  BY <1>1, <1>4, <1>5, <1>7, FailOK

LEMMA SearchFailsOK == IInv /\ SearchFails => IInv' /\ ~locked
<1>. SUFFICES ASSUME IInv, SearchFails
              PROVE  IInv' /\ ~locked
    OBVIOUS
<1>1. /\ pc = "sync" /\ ~sync /\ Fail("buflen") /\ this_frame' = this_frame
      /\ ~\E q \in ptr .. bufend - 1 : FoundAt(q)
    BY Zenon DEF SearchFails
<1>2. next_frame' = IF bufend - next_frame >= MAD_BUFFER_GUARD
                    THEN bufend - MAD_BUFFER_GUARD ELSE next_frame
    BY Zenon DEF SearchFails
<1>3. ~locked
    BY <1>1, OnTrack
<1>4. /\ bufend \in Nat /\ next_frame \in Nat /\ next_frame <= bufend
      /\ MAD_BUFFER_GUARD \in Nat
      /\ this_frame \in Nat /\ this_frame <= bufend
      /\ ptr = next_frame
    BY <1>1, Sizes DEF IInv, Places
<1>5. this_frame' \in 0 .. bufend /\ next_frame' \in 0 .. bufend
    BY <1>1, <1>2, <1>4
<1>6. ~Passes(ptr, next_frame')
  <2>. SUFFICES ASSUME NEW p \in ptr .. next_frame' - 1, At(p).start
                PROVE  FALSE
    BY DEF Passes
  <2>. DEFINE T == {k \in ptr .. bufend - 1 : SyncWord(k)}
  <2>1. /\ p \in Positions /\ p \in ptr .. bufend - 1
        /\ bufend - p >= MAD_BUFFER_GUARD
    BY <1>2, <1>4 DEF Positions
  <2>2. p \in T
    BY <2>1, AtStart DEF IInv
  <2>3. T \in SUBSET Nat
    BY <1>4
  <2>. HIDE DEF T
  <2>4. PICK m \in T : \A k \in T : m <= k
    BY <2>2, <2>3, Least
  <2>5. m \in ptr .. bufend - 1 /\ SyncWord(m)
    BY <2>4 DEF T
  <2>6. bufend - m >= MAD_BUFFER_GUARD
    BY <1>4, <2>1, <2>2, <2>4, <2>5
  <2>7. \A k \in ptr .. m - 1 : ~SyncWord(k)
    BY <1>4, <2>4, <2>5 DEF T
  <2>. QED  BY <1>1, <2>5, <2>6, <2>7, Zenon DEF FoundAt
<1>. QED  BY <1>1, <1>3, <1>5, <1>6, FailOK
LEMMA SearchFindsOK == IInv /\ SearchFinds => IInv' /\ ~locked
<1>. SUFFICES ASSUME IInv, SearchFinds
              PROVE  IInv' /\ ~locked
    OBVIOUS
<1>1. PICK q \in ptr .. bufend - 1 :
          /\ FoundAt(q) /\ ptr' = q
          /\ missed' = (missed \/ Passes(ptr, q))
    BY Zenon DEF SearchFinds
<1>2. /\ pc = "sync" /\ ~sync /\ pc' = "begin"
      /\ UNCHANGED <<buf, this_frame, next_frame, sync, freerate, error>>
      /\ UNCHANGED <<server, body, locked, searching>>
    BY Zenon DEF SearchFinds, stream, net
<1>3. ~locked
    BY <1>2, OnTrack
<1>4. /\ bufend \in Nat /\ ptr \in Nat /\ q \in Nat
      /\ MAD_BUFFER_GUARD \in Nat /\ q <= bufend
    BY Sizes DEF IInv
<1>5. /\ SyncWord(q) /\ bufend - q >= MAD_BUFFER_GUARD
      /\ \A p \in ptr .. q - 1 : ~SyncWord(p)
    BY <1>1, Zenon DEF FoundAt
<1>6. bufend' = bufend /\ HeadersOnly' = HeadersOnly
    BY <1>2, Steady
<1>7. ~Passes(ptr, q)
  <2>. SUFFICES ASSUME NEW p \in ptr .. q - 1, At(p).start
                PROVE  FALSE
    BY DEF Passes
  <2>1. p \in Positions
    BY <1>4 DEF Positions
  <2>. QED  BY <1>5, <2>1, AtStart DEF IInv
<1>8. Numbers'
  <2>1. ptr' \in 0 .. bufend
    BY <1>1, <1>4
  <2>. QED  BY <1>2, <1>6, <2>1, Types, Zenon DEF IInv, Numbers
<1>9. Marks'
  <2>1. missed' \in BOOLEAN
    BY <1>1, Zenon
  <2>. QED  BY <1>2, <2>1, Types, Zenon DEF IInv, Marks
<1>10. GuardHolds'
  <2>1. ptr' + MAD_BUFFER_GUARD <= bufend'
    BY <1>1, <1>4, <1>5, <1>6
  <2>. QED  BY <1>2, <2>1 DEF GuardHolds
<1>11. Places'
  <2>1. SyncWord(ptr)'
    BY <1>1, <1>2, <1>5, Zenon DEF SyncWord, At
  <2>. QED  BY <1>2, <2>1 DEF Places
<1>12. Follows'
    BY <1>2, <1>3, Zenon DEF Follows
<1>13. Kept'
  <2>1. HeadersOnly => ~missed'
    BY <1>1, <1>7, Zenon DEF IInv, Kept
  <2>2. pc' # "layer"
    BY <1>2
  <2>. QED  BY <1>6, <2>1, <2>2, Zenon DEF Kept
<1>. QED  BY <1>2, <1>3, <1>8, <1>9, <1>10, <1>11, <1>12, <1>13, Steadily

LEMMA SyncThereOK == IInv /\ SyncThere => IInv'
<1>. SUFFICES ASSUME IInv, SyncThere
              PROVE  IInv'
    OBVIOUS
<1>1. /\ pc = "sync" /\ sync /\ SyncWord(ptr) /\ pc' = "begin"
      /\ UNCHANGED <<buf, this_frame, next_frame, sync, freerate, error>>
      /\ UNCHANGED <<ptr, server, body, locked, searching, missed>>
    BY Zenon DEF SyncThere, stream, net, ghosts
<1>2. bufend' = bufend /\ HeadersOnly' = HeadersOnly
    BY <1>1, Steady
<1>3. Numbers'
    BY <1>1, <1>2, Types, Zenon DEF IInv, Numbers
<1>4. Marks'
    BY <1>1, Types, Zenon DEF IInv, Marks
<1>5. GuardHolds'
    BY <1>1, <1>2 DEF IInv, GuardHolds
<1>6. Places'
  <2>1. SyncWord(ptr)'
    BY <1>1, Zenon DEF SyncWord, At
  <2>. QED  BY <1>1, <2>1 DEF Places
<1>7. Follows'
  <2>1. locked => sync' /\ Starts(ptr)'
    BY <1>1, <1>2, Zenon DEF IInv, Follows, Starts, At
  <2>2. locked /\ FreeFormat \in server.frames => freerate = FreeLen
    BY Zenon DEF IInv, Follows
  <2>. QED  BY <1>1, <2>1, <2>2 DEF Follows
<1>8. Kept'
    BY <1>1, <1>2 DEF IInv, Kept
<1>. QED  BY <1>1, <1>3, <1>4, <1>5, <1>6, <1>7, <1>8, Steadily

LEMMA BufferOK == IInv /\ Buffer => IInv'
<1>. SUFFICES ASSUME IInv, Buffer
              PROVE  IInv'
    OBVIOUS
<1>1. /\ pc = "fill" /\ bufend = READBUFSZ /\ pc' = "sync" /\ sync' = TRUE
      /\ UNCHANGED <<buf, this_frame, next_frame, freerate, error>>
      /\ UNCHANGED <<ptr, server, body, locked, searching, missed>>
    BY Zenon DEF Buffer, net, ghosts
<1>2. bufend' = bufend /\ HeadersOnly' = HeadersOnly
    BY <1>1, Steady
<1>3. ptr = 0 /\ next_frame = 0
    BY <1>1 DEF IInv, Places
<1>4. Numbers'
    BY <1>1, <1>2, Types, Zenon DEF IInv, Numbers
<1>5. Marks'
    BY <1>1, Types, Zenon DEF IInv, Marks
<1>6. GuardHolds'
  <2>1. ptr' + MAD_BUFFER_GUARD <= bufend'
    BY <1>1, <1>2, <1>3, Sizes DEF IInv
  <2>. QED  BY <1>1, <2>1 DEF GuardHolds
<1>7. Places'
    BY <1>1, <1>3 DEF Places
<1>8. Follows'
  <2>1. locked => Starts(ptr)'
    BY <1>1, <1>2, <1>3, Zenon DEF IInv, Follows, Starts, At
  <2>2. locked /\ FreeFormat \in server.frames => freerate = FreeLen
    BY Zenon DEF IInv, Follows
  <2>. QED  BY <1>1, <2>1, <2>2 DEF Follows
<1>9. Kept'
    BY <1>1, <1>2 DEF IInv, Kept
<1>. QED  BY <1>1, <1>4, <1>5, <1>6, <1>7, <1>8, <1>9, Steadily
(* What a good header says. *)
LEMMA Good ==
    ASSUME IInv, HeaderGood
    PROVE  /\ pc = "begin" /\ ptr \in Positions
           /\ ptr \in Nat /\ bufend \in Nat /\ ptr < bufend
           /\ MAD_BUFFER_GUARD \in Nat /\ MAD_BUFFER_GUARD >= 2
           /\ rate \in 0 .. MaxFree /\ N \in Nat
           /\ locked => rate = freerate
<1>1. pc = "begin"
    BY Zenon DEF HeaderGood
<1>2. ptr \in Positions
    BY <1>1, AtPtr DEF IInv, GuardHolds
<1>3. /\ ptr \in Nat /\ bufend \in Nat /\ READBUFSZ \in Nat
      /\ MAD_BUFFER_GUARD \in Nat /\ MAD_BUFFER_GUARD >= 2
    BY Sizes DEF IInv
<1>4. /\ rate \in Nat /\ rate <= MaxFree /\ N \in Nat
      /\ ~NeedsRate => rate = freerate
    BY <1>2, Lengths DEF IInv
<1>5. locked => ~NeedsRate
    BY <1>1, OnTrack
<1>6. ptr < bufend
    BY <1>2, <1>3 DEF Positions
<1>7. rate \in 0 .. MaxFree
    BY <1>3, <1>4
<1>. QED  BY <1>1, <1>2, <1>3, <1>4, <1>5, <1>6, <1>7, Zenon

LEMMA FrameBuflenOK == IInv /\ FrameBuflen => IInv'
<1>. SUFFICES ASSUME IInv, FrameBuflen
              PROVE  IInv'
    OBVIOUS
<1>1. /\ HeaderGood
      /\ this_frame' = ptr /\ next_frame' = ptr /\ freerate' = rate
      /\ pc' = "input" /\ error' = "buflen" /\ sync' = FALSE
      /\ UNCHANGED <<buf, ptr, server, body, locked, searching, missed>>
    BY Zenon DEF FrameBuflen, net, ghosts
<1>2. bufend' = bufend /\ HeadersOnly' = HeadersOnly
    BY <1>1, Steady
<1>3. /\ pc = "begin" /\ ptr \in 0 .. bufend /\ rate \in 0 .. MaxFree
      /\ locked => rate = freerate
    BY <1>1, Good
<1>4. Numbers'
    BY <1>1, <1>2, <1>3, Types, Zenon DEF IInv, Numbers
<1>5. Marks'
    BY <1>1, Types, Zenon DEF IInv, Marks
<1>6. GuardHolds' /\ Places'
    BY <1>1 DEF GuardHolds, Places
<1>7. Follows'
  <2>1. locked => Starts(ptr)
    BY <1>3 DEF IInv, Follows
  <2>2. locked => Starts(next_frame)'
    BY <1>1, <1>2, <2>1, Zenon DEF Starts, At
  <2>3. locked /\ FreeFormat \in server.frames => rate = FreeLen
    BY <1>3, Zenon DEF IInv, Follows
  <2>. QED  BY <1>1, <2>2, <2>3 DEF Follows
<1>8. Kept'
    BY <1>1, <1>2 DEF IInv, Kept
<1>. QED  BY <1>1, <1>4, <1>5, <1>6, <1>7, <1>8, Steadily

LEMMA BogusOK == IInv /\ Bogus => IInv' /\ ~locked
<1>. SUFFICES ASSUME IInv, Bogus
              PROVE  IInv' /\ ~locked
    OBVIOUS
<1>1. /\ HeaderGood /\ ~sync
      /\ N + MAD_BUFFER_GUARD <= bufend - ptr /\ ~SyncWord(ptr + N)
      /\ this_frame' = ptr /\ next_frame' = ptr + 1 /\ ptr' = ptr + 1
      /\ freerate' = rate /\ pc' = "sync"
      /\ missed' = (missed \/ Passes(ptr, ptr + 1))
      /\ UNCHANGED <<buf, sync, error, server, body, locked, searching>>
    BY Zenon DEF Bogus, net
<1>2. bufend' = bufend /\ HeadersOnly' = HeadersOnly
    BY <1>1, Steady
<1>3. /\ pc = "begin" /\ ptr \in Positions /\ ptr \in Nat /\ bufend \in Nat
      /\ MAD_BUFFER_GUARD \in Nat /\ MAD_BUFFER_GUARD >= 2
      /\ rate \in 0 .. MaxFree /\ N \in Nat /\ ptr < bufend
    BY <1>1, Good
<1>4. ~locked
    BY <1>1, <1>3, OnTrack
<1>5. ~HeadersOnly
  <2>. SUFFICES ASSUME HeadersOnly
                PROVE  FALSE
    OBVIOUS
  <2>1. At(ptr).start /\ N = FrameLen(At(ptr).kind)
    BY <1>3, OnClean
  <2>2. ptr + N \in Nat /\ ptr + N < bufend
    BY <1>1, <1>3
  <2>. QED  BY <1>1, <1>3, <2>1, <2>2, NextStart
<1>6. Numbers'
  <2>1. ptr \in 0 .. bufend /\ ptr + 1 \in 0 .. bufend
    BY <1>3
  <2>. QED  BY <1>1, <1>2, <1>3, <2>1, Types, Zenon DEF IInv, Numbers
<1>7. Marks'
  <2>1. missed' \in BOOLEAN
    BY <1>1, Zenon
  <2>. QED  BY <1>1, <2>1, Types, Zenon DEF IInv, Marks
<1>8. GuardHolds' /\ Places'
    BY <1>1 DEF GuardHolds, Places
<1>9. Follows'
    BY <1>1, <1>4, Zenon DEF Follows
<1>10. Kept'
    BY <1>2, <1>5, Zenon DEF Kept
<1>. QED  BY <1>1, <1>4, <1>6, <1>7, <1>8, <1>9, <1>10, Steadily

LEMMA AcceptOK == IInv /\ Accept => IInv' /\ (locked => locked')
<1>. SUFFICES ASSUME IInv, Accept
              PROVE  IInv' /\ (locked => locked')
    OBVIOUS
<1>1. /\ HeaderGood /\ N + MAD_BUFFER_GUARD <= bufend - ptr
      /\ this_frame' = ptr /\ next_frame' = ptr + N
      /\ sync' = TRUE /\ freerate' = rate /\ pc' = "layer"
      /\ locked' = (At(ptr).start /\ N = FrameLen(At(ptr).kind))
      /\ UNCHANGED <<buf, error, ptr, server, body, searching, missed>>
    BY Zenon DEF Accept, net
<1>2. bufend' = bufend /\ HeadersOnly' = HeadersOnly
    BY <1>1, Steady
<1>3. /\ pc = "begin" /\ ptr \in Positions /\ ptr \in Nat /\ bufend \in Nat
      /\ MAD_BUFFER_GUARD \in Nat /\ MAD_BUFFER_GUARD >= 2
      /\ rate \in 0 .. MaxFree /\ N \in Nat /\ ptr < bufend
    BY <1>1, Good
<1>4. PICK e \in Nat : e = ptr + N
    BY <1>3
<1>5. e < bufend /\ e + MAD_BUFFER_GUARD <= bufend
    BY <1>1, <1>3, <1>4
<1>6. Numbers'
  <2>1. ptr \in 0 .. bufend /\ e \in 0 .. bufend
    BY <1>3, <1>5
  <2>. QED  BY <1>1, <1>2, <1>3, <1>4, <2>1, Types, Zenon DEF IInv, Numbers
<1>7. Marks'
  <2>1. locked' \in BOOLEAN
    BY <1>1, Zenon
  <2>. QED  BY <1>1, <2>1, Types, Zenon DEF IInv, Marks
<1>8. GuardHolds'
    BY <1>1, <1>2, <1>4, <1>5 DEF GuardHolds
<1>9. Places'
    BY <1>1 DEF Places
<1>10. Follows'
  <2>. SUFFICES ASSUME locked'
                PROVE  /\ Starts(next_frame)'
                       /\ FreeFormat \in server.frames => rate = FreeLen
    BY <1>1 DEF Follows
  <2>1. At(ptr).start /\ N = FrameLen(At(ptr).kind)
    BY <1>1, Zenon
  <2>2. At(e).start
    BY <1>3, <1>4, <1>5, <2>1, NextStart
  <2>3. Starts(next_frame)'
    BY <1>1, <1>2, <1>4, <1>5, <2>2, Zenon DEF Starts, At
  <2>4. FreeFormat \in server.frames => At(ptr).kind = FreeFormat
    <3>1. At(ptr).kind \in server.frames
        BY <1>3, <2>1, AtStart DEF IInv
    <3>. QED  BY <3>1, Sizes DEF IInv
  <2>5. At(ptr).kind = FreeFormat => rate = FreeLen
    BY <2>1 DEF N, FrameLen, FreeFormat, OtherLayer, LongLayer
  <2>. QED  BY <2>3, <2>4, <2>5
<1>11. Kept'
  <2>1. HeadersOnly => ~Passes(ptr + 1, e)
    <3>. SUFFICES ASSUME HeadersOnly, NEW p \in ptr + 1 .. e - 1, At(p).start
                  PROVE  FALSE
        BY DEF Passes
    <3>1. At(ptr).start /\ N = FrameLen(At(ptr).kind)
        BY <1>3, OnClean
    <3>2. p \in Positions /\ ptr < p /\ p < e
        BY <1>3, <1>4, <1>5 DEF Positions
    <3>. QED  BY <1>3, <1>4, <1>5, <3>1, <3>2, NextStart
  <2>2. Passes(this_frame + 1, next_frame)' <=> Passes(ptr + 1, e)
    BY <1>1, <1>4, Zenon DEF Passes, At
  <2>. QED  BY <1>1, <1>2, <2>1, <2>2, Zenon DEF IInv, Kept
<1>12. locked => locked'
  <2>1. locked => At(ptr).start /\ N = FrameLen(At(ptr).kind)
    BY <1>3, OnTrack
  <2>. QED  BY <1>1, <2>1, Zenon
<1>. QED  BY <1>1, <1>6, <1>7, <1>8, <1>9, <1>10, <1>11, <1>12, Steadily
-----------------------------------------------------------------------------
(* mad_frame_decode *)

LEMMA LayerOK == IInv /\ Layer => IInv'
<1>. SUFFICES ASSUME IInv, Layer
              PROVE  IInv'
    OBVIOUS
<1>1. /\ pc = "layer" /\ ptr' = next_frame /\ searching' = FALSE
      /\ missed' = (missed \/ Passes(this_frame + 1, next_frame))
      /\ UNCHANGED <<buf, this_frame, next_frame, sync, freerate>>
      /\ UNCHANGED <<server, body, locked>>
    BY Zenon DEF Layer, net
<1>2. pc' \in {"crash", "sync"} /\ error' \in {error, "bad data"}
    BY Zenon DEF Layer
<1>3. bufend' = bufend /\ HeadersOnly' = HeadersOnly
    BY <1>1, Steady
<1>4. Numbers'
    BY <1>1, <1>3, Types, Zenon DEF IInv, Numbers
<1>5. Marks'
  <2>1. missed' \in BOOLEAN
    BY <1>1, Zenon
  <2>. QED  BY <1>1, <1>2, <2>1, Types, Zenon DEF IInv, Marks
<1>6. GuardHolds'
  <2>1. ptr' + MAD_BUFFER_GUARD <= bufend'
    BY <1>1, <1>3 DEF IInv, GuardHolds
  <2>. QED  BY <1>2, <2>1 DEF GuardHolds
<1>7. Places'
    BY <1>1, <1>2 DEF Places
<1>8. Follows'
  <2>1. locked => Starts(next_frame)
    BY <1>1 DEF IInv, Follows
  <2>2. locked => Starts(ptr)'
    BY <1>1, <1>3, <2>1, Zenon DEF Starts, At
  <2>3. sync
    BY <1>1 DEF IInv, Places
  <2>4. locked /\ FreeFormat \in server.frames => freerate = FreeLen
    BY Zenon DEF IInv, Follows
  <2>. QED  BY <1>1, <1>2, <2>2, <2>3, <2>4 DEF Follows
<1>9. Kept'
  <2>1. HeadersOnly => ~missed'
    BY <1>1, Zenon DEF IInv, Kept
  <2>2. pc' # "layer"
    BY <1>2
  <2>. QED  BY <1>3, <2>1, <2>2, Zenon DEF Kept
<1>. QED  BY <1>1, <1>4, <1>5, <1>6, <1>7, <1>8, <1>9, Steadily
-----------------------------------------------------------------------------
(* The theorems *)

LEMMA StutterOK == IInv /\ UNCHANGED vars => IInv'
<1>. SUFFICES ASSUME IInv, UNCHANGED vars
              PROVE  IInv'
    OBVIOUS
<1>1. /\ UNCHANGED <<pc, buf, this_frame, next_frame, sync, freerate, error, ptr>>
      /\ UNCHANGED <<server, body, locked, searching, missed>>
    BY Zenon DEF vars, stream, net, ghosts
<1>2. bufend' = bufend /\ HeadersOnly' = HeadersOnly
    BY <1>1, Steady
<1>3. Numbers' /\ Marks'
    BY <1>1, <1>2, Types, Zenon DEF IInv, Numbers, Marks
<1>4. GuardHolds' /\ Places' /\ Follows' /\ Kept'
    BY <1>1, <1>2, Zenon
       DEF IInv, GuardHolds, Places, Follows, Kept, Starts, SyncWord, At, Passes
<1>. QED  BY <1>1, <1>3, <1>4, Steadily

(* One step: the invariant is kept, and so is the lock. *)
LEMMA NextOK == IInv /\ [Next]_vars => IInv' /\ (locked => locked')
<1>. SUFFICES ASSUME IInv, [Next]_vars
              PROVE  IInv' /\ (locked => locked')
    OBVIOUS
<1>1. CASE Shift
    BY <1>1, ShiftOK, Zenon DEF Shift, ghosts
<1>2. CASE Fill
    BY <1>2, FillOK, Zenon DEF Fill, ghosts
<1>3. CASE Buffer
    BY <1>3, BufferOK, Zenon DEF Buffer, ghosts
<1>4. CASE SyncLost
    BY <1>4, SyncLostOK, Zenon
<1>5. CASE SyncThere
    BY <1>5, SyncThereOK, Zenon DEF SyncThere, ghosts
<1>6. CASE SearchFails
    BY <1>6, SearchFailsOK, Zenon
<1>7. CASE SearchFinds
    BY <1>7, SearchFindsOK, Zenon
<1>8. CASE HeaderBad
    BY <1>8, HeaderBadOK, Zenon
<1>9. CASE RateUnknown
    BY <1>9, RateUnknownOK, Zenon
<1>10. CASE FrameBuflen
    BY <1>10, FrameBuflenOK, Zenon DEF FrameBuflen, ghosts
<1>11. CASE Bogus
    BY <1>11, BogusOK, Zenon
<1>12. CASE Accept
    BY <1>12, AcceptOK, Zenon
<1>13. CASE Layer
    BY <1>13, LayerOK, Zenon DEF Layer
<1>14. CASE UNCHANGED vars
    BY <1>14, StutterOK, Zenon DEF vars, ghosts
<1>. QED  BY <1>1, <1>2, <1>3, <1>4, <1>5, <1>6, <1>7, <1>8, <1>9, <1>10, <1>11,
             <1>12, <1>13, <1>14, Zenon DEF Next, HeaderDecode

LEMMA Inductive == Spec => []IInv
BY InitOK, NextOK, PTL DEF Spec

(* The types of the decoder's and the network's variables: the pointers    *)
(* stay in readBuf.                                                        *)
THEOREM TypeCorrect == Spec => []TypeOK
<1>1. IInv => TypeOK
    BY DEF IInv
<1>. QED  BY Inductive, <1>1, PTL

(* For every size of readBuf and of the guard, and whatever the server     *)
(* sends: no header and no sync word is read behind the end of the buffer. *)
THEOREM NothingReadBehind == Spec => []GuardHolds
<1>1. IInv => GuardHolds
    BY DEF IInv
<1>. QED  BY Inductive, <1>1, PTL

(* With sync words in headers only, no frame is passed over.               *)
THEOREM NoneMissed == Spec => []NoFrameMissed
<1>1. IInv => NoFrameMissed
    BY Zenon DEF IInv, Kept, HeadersOnly, NoFrameMissed
<1>. QED  BY Inductive, <1>1, PTL

(* A decoder that follows the frames never loses them, whatever sync words *)
(* their data contains and wherever the buffer ends.                       *)
THEOREM NeverLost == Spec => LockKept
<1>1. IInv /\ [Next]_vars => [locked => locked']_vars
    BY NextOK, Zenon
<1>. QED  BY Inductive, <1>1, PTL DEF Spec, LockKept
-----------------------------------------------------------------------------
(* tskmad moves on *)

(* input() is called with a full buffer, and has room to read into: some   *)
(* of it is used, unless tskmad stands before the header of a frame that   *)
(* readBuf cannot hold.                                                    *)
InputHasRoom == pc = "input" => next_frame > 0 \/ Stands

(* What it takes: only input() leaves room, a free rate that was found is  *)
(* that of a frame that fits, and a frame that is taken is not empty.      *)
Full == pc # "fill" => bufend = READBUFSZ
RateFits == freerate + MAD_BUFFER_GUARD <= READBUFSZ
FrameAhead == pc = "layer" => ptr < next_frame

Progress == Full /\ RateFits /\ FrameAhead /\ InputHasRoom

(* Steps to the next call of input(): one for each byte of the refill,     *)
(* and three at most for each byte that is looked at.                      *)
StepsToInput ==
    IF pc = "fill" THEN 3 * READBUFSZ + 4 + (READBUFSZ - bufend)
    ELSE IF pc = "sync" THEN 3 * (bufend - ptr) + 3
    ELSE IF pc = "begin" THEN 3 * (bufend - ptr) + 2
    ELSE IF pc = "layer" THEN 3 * (bufend - ptr) + 1
    ELSE 0

MovesOn == Shift \/ StepsToInput' < StepsToInput

(* All that the lengths of frames are. *)
Known == server.frames \cup server.noise

LEMMA KnownFit ==
    ASSUME TypeOK
    PROVE  /\ \A n \in Known : n + MAD_BUFFER_GUARD <= READBUFSZ
           /\ OtherLen + MAD_BUFFER_GUARD <= READBUFSZ
           /\ 1 + MAD_BUFFER_GUARD <= READBUFSZ
<1>. DEFINE U == (UNION {s.frames \cup s.noise : s \in Servers}) \cup {FreeLen, OtherLen, 1}
<1>1. \A n \in U : n + MAD_BUFFER_GUARD <= READBUFSZ
    BY StreamAssumption
<1>2. Known \subseteq U /\ OtherLen \in U /\ 1 \in U
    BY Zenon DEF TypeOK, Known
<1>. HIDE DEF U
<1>. QED  BY <1>1, <1>2

(* The length of a frame whose header is good: more than nothing, and less *)
(* than the buffer, but for the long frames of layer II.                   *)
LEMMA FramesFit ==
    ASSUME IInv, RateFits, HeaderGood
    PROVE  /\ rate \in Nat /\ rate + MAD_BUFFER_GUARD <= READBUFSZ
           /\ N \in Nat /\ N >= 1
           /\ At(ptr).kind # LongLayer => N + MAD_BUFFER_GUARD <= READBUFSZ
<1>1. /\ pc = "begin" /\ ptr \in Positions /\ ptr \in Nat /\ bufend \in Nat
      /\ MAD_BUFFER_GUARD \in Nat /\ rate \in 0 .. MaxFree /\ N \in Nat
    BY Good
<1>2. /\ bufend <= READBUFSZ /\ READBUFSZ \in Nat /\ freerate \in Nat
      /\ OtherLen \in Nat /\ OtherLen > 0 /\ MAD_BUFFER_GUARD + 1 <= READBUFSZ
    BY Sizes DEF IInv
<1>3. NeedsRate => rate \in Nat /\ rate >= 1 /\ rate + MAD_BUFFER_GUARD <= READBUFSZ
  <2>. SUFFICES ASSUME NeedsRate
                PROVE  rate \in Nat /\ rate >= 1 /\ rate + MAD_BUFFER_GUARD <= READBUFSZ
    OBVIOUS
  <2>1. rate \in Distances
    BY DEF rate, HeaderGood
  <2>2. PICK d \in 1 .. bufend - ptr - 1 : d = rate /\ NextPeer(ptr + d)
    BY <2>1 DEF Distances
  <2>3. bufend - (ptr + d) >= MAD_BUFFER_GUARD
    BY <2>2, Zenon DEF NextPeer, Peer
  <2>4. d \in Nat /\ d >= 1 /\ d + MAD_BUFFER_GUARD <= READBUFSZ
    BY <1>1, <1>2, <2>3
  <2>. QED  BY <2>2, <2>4, Zenon
<1>4. ~NeedsRate => rate = freerate
    BY DEF rate
<1>5. ~NeedsRate /\ At(ptr).kind = FreeFormat => rate >= 1
    BY <1>2, <1>4 DEF NeedsRate
<1>6. rate \in Nat /\ rate + MAD_BUFFER_GUARD <= READBUFSZ
    BY <1>2, <1>3, <1>4 DEF RateFits
<1>7. At(ptr).kind \in Known /\ At(ptr).kind \in Kinds
  <2>1. ptr + 1 \in 1 .. Len(buf)
    BY <1>1 DEF Positions, bufend
  <2>2. At(ptr) \in [kind : Known, start : BOOLEAN]
    BY <2>1, ElementOfSeq DEF IInv, TypeOK, At, Known
  <2>3. Known \subseteq Kinds
    BY StreamAssumption DEF IInv, TypeOK, Kinds, Known
  <2>. QED  BY <2>2, <2>3
<1>8. At(ptr).kind # BadHeader /\ At(ptr).kind # NoSync
    BY <1>1 DEF IInv, HeaderGood, Places, SyncWord
<1>. DEFINE kind == At(ptr).kind
<1>9. CASE kind = FreeFormat
  <2>1. N = rate
    BY <1>9 DEF N, FreeFormat, OtherLayer, LongLayer
  <2>. QED  BY <1>1, <1>3, <1>5, <1>6, <1>9, <2>1
<1>10. CASE kind = OtherLayer
  <2>1. N = OtherLen
    BY <1>10 DEF N, FreeFormat, OtherLayer, LongLayer
  <2>2. OtherLen + MAD_BUFFER_GUARD <= READBUFSZ
    BY KnownFit DEF IInv
  <2>. QED  BY <1>1, <1>2, <1>6, <2>1, <2>2
<1>11. CASE kind = LongLayer
  <2>1. N = READBUFSZ
    BY <1>11 DEF N, FreeFormat, OtherLayer, LongLayer
  <2>. QED  BY <1>1, <1>2, <1>6, <1>11, <2>1
<1>12. CASE kind # FreeFormat /\ kind # OtherLayer /\ kind # LongLayer
  <2>1. N = kind
    BY <1>12, Zenon DEF N
  <2>2. kind \in Nat /\ kind >= 1
    BY <1>7, <1>8, <1>12 DEF Kinds, FreeFormat
  <2>3. kind + MAD_BUFFER_GUARD <= READBUFSZ
    BY <1>7, KnownFit DEF IInv
  <2>. QED  BY <1>1, <1>6, <2>1, <2>2, <2>3
<1>. QED  BY <1>9, <1>10, <1>11, <1>12

(* Steps that look at one byte and go on with the next. *)
LEMMA GoesFurther ==
    ASSUME IInv, SyncLost \/ HeaderBad \/ RateUnknown \/ Bogus
    PROVE  /\ pc \in {"sync", "begin"} /\ pc' = "sync" /\ buf' = buf /\ ptr' = ptr + 1
           /\ freerate' = freerate \/ (HeaderGood /\ freerate' = rate)
           /\ ptr \in Positions
<1>1. CASE SyncLost
    BY <1>1, AtPtr DEF SyncLost, Fail, IInv, GuardHolds
<1>2. CASE HeaderBad
    BY <1>2, AtPtr DEF HeaderBad, Fail, IInv, GuardHolds
<1>3. CASE RateUnknown
    BY <1>3, AtPtr DEF RateUnknown, Fail, IInv, GuardHolds
<1>4. CASE Bogus
    BY <1>4, Good, Zenon DEF Bogus
<1>. QED  BY <1>1, <1>2, <1>3, <1>4

LEMMA StepProgress ==
    ASSUME IInv, IInv', Progress, Next
    PROVE  Progress' /\ MovesOn
<1>1. /\ bufend \in Nat /\ bufend <= READBUFSZ /\ READBUFSZ \in Nat
      /\ ptr \in Nat /\ ptr <= bufend /\ next_frame \in Nat /\ next_frame <= bufend
      /\ MAD_BUFFER_GUARD \in Nat /\ MAD_BUFFER_GUARD >= 2 /\ MAD_BUFFER_GUARD + 1 <= READBUFSZ
      /\ freerate \in Nat
    BY Sizes DEF IInv
<1>2. /\ pc # "fill" => bufend = READBUFSZ
      /\ freerate + MAD_BUFFER_GUARD <= READBUFSZ
      /\ pc = "layer" => ptr < next_frame
    BY Zenon DEF Progress, Full, RateFits, FrameAhead
<1>3. buf' = buf => bufend' = bufend
    BY DEF bufend
<1>4. CASE Shift
  <2>1. pc' = "fill" /\ freerate' = freerate
    BY <1>4, Zenon DEF Shift
  <2>. QED  BY <1>2, <1>4, <2>1 DEF Progress, Full, RateFits, FrameAhead, InputHasRoom, MovesOn
<1>5. CASE Fill
  <2>1. pc = "fill" /\ pc' = "fill" /\ freerate' = freerate
    BY <1>5, Zenon DEF Fill, stream
  <2>2. bufend' = bufend + 1
    <3>1. PICK new \in Content : buf' = Append(buf, new)
        BY <1>5, Appended, Zenon
    <3>2. buf \in Seq(Content)
        BY Types DEF IInv
    <3>. QED  BY <3>1, <3>2, AppendProperties DEF bufend
  <2>3. bufend < READBUFSZ
    BY <1>5, Zenon DEF Fill
  <2>4. StepsToInput' < StepsToInput
    BY <1>1, <2>1, <2>2, <2>3 DEF StepsToInput
  <2>. QED  BY <1>2, <2>1, <2>4 DEF Progress, Full, RateFits, FrameAhead, InputHasRoom, MovesOn
<1>6. CASE Buffer
  <2>1. /\ pc = "fill" /\ pc' = "sync" /\ freerate' = freerate /\ buf' = buf /\ ptr' = ptr
        /\ bufend = READBUFSZ
    BY <1>6, Zenon DEF Buffer
  <2>2. StepsToInput' < StepsToInput
    BY <1>1, <1>3, <2>1 DEF StepsToInput
  <2>. QED  BY <1>2, <1>3, <2>1, <2>2
            DEF Progress, Full, RateFits, FrameAhead, InputHasRoom, MovesOn
<1>7. CASE SyncLost \/ HeaderBad \/ RateUnknown \/ Bogus
  <2>1. /\ pc \in {"sync", "begin"} /\ pc' = "sync" /\ buf' = buf /\ ptr' = ptr + 1
        /\ freerate' = freerate \/ (HeaderGood /\ freerate' = rate)
        /\ ptr \in Positions
    BY <1>7, GoesFurther
  <2>2. HeaderGood => rate + MAD_BUFFER_GUARD <= READBUFSZ
    BY FramesFit DEF Progress
  <2>3. freerate' + MAD_BUFFER_GUARD <= READBUFSZ
    BY <1>2, <2>1, <2>2
  <2>4. ptr < bufend
    BY <1>1, <2>1 DEF Positions
  <2>5. StepsToInput' < StepsToInput
    BY <1>1, <1>3, <2>1, <2>4 DEF StepsToInput
  <2>. QED  BY <1>2, <1>3, <2>1, <2>3, <2>5
            DEF Progress, Full, RateFits, FrameAhead, InputHasRoom, MovesOn
<1>8. CASE SyncThere \/ SearchFinds
  <2>1. /\ pc = "sync" /\ pc' = "begin" /\ buf' = buf /\ freerate' = freerate
        /\ ptr' \in Int /\ ptr <= ptr'
    <3>1. CASE SyncThere
        BY <1>1, <3>1 DEF SyncThere, stream
    <3>2. CASE SearchFinds
        <4>1. PICK q \in ptr .. bufend - 1 : ptr' = q
            BY <3>2, Zenon DEF SearchFinds
        <4>2. q \in Int /\ ptr <= q
            BY <1>1
        <4>3. pc = "sync" /\ pc' = "begin" /\ buf' = buf /\ freerate' = freerate
            BY <3>2, Zenon DEF SearchFinds, stream
        <4>. QED  BY <4>1, <4>2, <4>3, Zenon
    <3>. QED  BY <1>8, <3>1, <3>2
  <2>2. StepsToInput' < StepsToInput
    <3>1. /\ StepsToInput = 3 * (bufend - ptr) + 3
          /\ StepsToInput' = 3 * (bufend - ptr') + 2
        BY <1>3, <2>1 DEF StepsToInput
    <3>2. PICK q \in Int : q = ptr'
        BY <2>1, Zenon
    <3>3. ptr <= q /\ ptr \in Int /\ bufend \in Int
        BY <1>1, <2>1, <3>2
    <3>4. 3 * (bufend - q) + 2 < 3 * (bufend - ptr) + 3
        BY <3>3
    <3>. QED  BY <3>1, <3>2, <3>4
  <2>. QED  BY <1>2, <1>3, <2>1, <2>2
            DEF Progress, Full, RateFits, FrameAhead, InputHasRoom, MovesOn
<1>9. CASE SearchFails
  <2>1. /\ pc = "sync" /\ pc' = "input" /\ buf' = buf /\ freerate' = freerate
    BY <1>9, Zenon DEF SearchFails, Fail
  <2>2. next_frame' = IF bufend - next_frame >= MAD_BUFFER_GUARD
                      THEN bufend - MAD_BUFFER_GUARD ELSE next_frame
    BY <1>9, Zenon DEF SearchFails
  <2>3. next_frame' > 0
    BY <1>1, <1>2, <2>1, <2>2
  <2>4. StepsToInput' < StepsToInput
    BY <1>1, <2>1 DEF StepsToInput
  <2>. QED  BY <1>2, <1>3, <2>1, <2>3, <2>4
            DEF Progress, Full, RateFits, FrameAhead, InputHasRoom, MovesOn
<1>10. CASE FrameBuflen
  <2>1. /\ pc = "begin" /\ pc' = "input" /\ buf' = buf /\ freerate' = rate
        /\ this_frame' = ptr /\ next_frame' = ptr /\ error' = "buflen" /\ HeaderGood
        /\ N + MAD_BUFFER_GUARD > bufend - ptr
    BY <1>10, Zenon DEF FrameBuflen, HeaderGood
  <2>2. /\ rate + MAD_BUFFER_GUARD <= READBUFSZ /\ N \in Nat
        /\ At(ptr).kind # LongLayer => N + MAD_BUFFER_GUARD <= READBUFSZ
    BY <2>1, FramesFit DEF Progress
  <2>3. ptr = 0 => At(0).kind = LongLayer
    BY <1>1, <1>2, <2>1, <2>2
  <2>4. next_frame' > 0 \/ Stands'
    <3>1. CASE ptr = 0
        <4>1. At(0)' = At(0) /\ bufend' > 0
            BY <1>1, <1>2, <1>3, <2>1 DEF At
        <4>. QED  BY <2>1, <2>3, <3>1, <4>1 DEF Stands
    <3>2. CASE ptr > 0
        BY <2>1, <3>2
    <3>. QED  BY <1>1, <3>1, <3>2
  <2>5. StepsToInput' < StepsToInput
    BY <1>1, <2>1 DEF StepsToInput
  <2>. QED  BY <1>2, <1>3, <2>1, <2>2, <2>4, <2>5
            DEF Progress, Full, RateFits, FrameAhead, InputHasRoom, MovesOn
<1>11. CASE Accept
  <2>1. /\ pc = "begin" /\ pc' = "layer" /\ buf' = buf /\ freerate' = rate
        /\ ptr' = ptr /\ next_frame' = ptr + N /\ HeaderGood
    BY <1>11, Zenon DEF Accept, HeaderGood
  <2>2. rate + MAD_BUFFER_GUARD <= READBUFSZ /\ N \in Nat /\ N >= 1
    BY <2>1, FramesFit DEF Progress
  <2>3. ptr' < next_frame'
    BY <1>1, <2>1, <2>2
  <2>4. StepsToInput' < StepsToInput
    BY <1>1, <1>3, <2>1 DEF StepsToInput
  <2>. QED  BY <1>2, <1>3, <2>1, <2>2, <2>3, <2>4
            DEF Progress, Full, RateFits, FrameAhead, InputHasRoom, MovesOn
<1>12. CASE Layer
  <2>1. /\ pc = "layer" /\ pc' \in {"crash", "sync"} /\ buf' = buf /\ freerate' = freerate
        /\ ptr' = next_frame
    BY <1>12, Zenon DEF Layer
  <2>2. StepsToInput' < StepsToInput
    BY <1>1, <1>2, <1>3, <2>1 DEF StepsToInput
  <2>. QED  BY <1>2, <1>3, <2>1, <2>2
            DEF Progress, Full, RateFits, FrameAhead, InputHasRoom, MovesOn
<1>. QED  BY <1>4, <1>5, <1>6, <1>7, <1>8, <1>9, <1>10, <1>11, <1>12, Zenon
          DEF Next, HeaderDecode

LEMMA ProgressHolds == Spec => []Progress /\ [][MovesOn]_vars
<1>1. Init => Progress
  <2>. SUFFICES ASSUME Init  PROVE Progress
    OBVIOUS
  <2>1. pc = "fill" /\ freerate = 0
    BY DEF Init
  <2>2. 0 + MAD_BUFFER_GUARD <= READBUFSZ
    BY InitOK, Sizes DEF IInv
  <2>. QED  BY <2>1, <2>2 DEF Progress, Full, RateFits, FrameAhead, InputHasRoom
<1>2. IInv /\ IInv' /\ Progress /\ [Next]_vars => Progress' /\ [MovesOn]_vars
  <2>. SUFFICES ASSUME IInv, IInv', Progress, [Next]_vars  PROVE Progress' /\ [MovesOn]_vars
    OBVIOUS
  <2>1. CASE Next
    BY <2>1, StepProgress
  <2>2. CASE UNCHANGED vars
    <3>1. /\ pc' = pc /\ buf' = buf /\ freerate' = freerate /\ ptr' = ptr /\ error' = error
          /\ next_frame' = next_frame /\ this_frame' = this_frame
        BY <2>2 DEF vars, stream
    <3>2. Progress'
        BY <3>1 DEF Progress, Full, RateFits, FrameAhead, InputHasRoom, Stands, bufend, At
    <3>. QED  BY <2>2, <3>2
  <2>. QED  BY <2>1, <2>2
<1>. QED  BY <1>1, <1>2, Inductive, PTL DEF Spec

(* Called for more, input() always finds room in readBuf, so that what it  *)
(* reads next makes a difference: mad_header_decode either has used some   *)
(* of the buffer, or stands before the header of a frame of layer II that  *)
(* no buffer of this size can hold.                                        *)
THEOREM InputIsOfUse == Spec => []InputHasRoom
<1>1. Progress => InputHasRoom
    BY DEF Progress
<1>. QED  BY <1>1, ProgressHolds, PTL

(* mad_header_decode and the layer decoder do not go round in a buffer for *)
(* ever, whatever bytes are in it: each step but the call of input() comes *)
(* nearer to that call, which is 4 * READBUFSZ + 4 steps away at most.     *)
THEOREM SearchIsBounded ==
    Spec => [](StepsToInput \in 0 .. 4 * READBUFSZ + 4) /\ [][MovesOn]_vars
<1>1. IInv => StepsToInput \in 0 .. 4 * READBUFSZ + 4
  <2>. SUFFICES ASSUME IInv  PROVE StepsToInput \in 0 .. 4 * READBUFSZ + 4
    OBVIOUS
  <2>1. /\ bufend \in Nat /\ bufend <= READBUFSZ /\ READBUFSZ \in Nat
        /\ ptr \in Nat /\ ptr <= bufend
    BY Sizes DEF IInv
  <2>. QED  BY <2>1 DEF StepsToInput
<1>. QED  BY <1>1, ProgressHolds, Inductive, PTL
-----------------------------------------------------------------------------
(* The lengths that headers give their frames *)

(* The rates of a layer in kbit/s. *)
HighestRate(row) == IF row = 1 THEN 448 ELSE IF row = 2 THEN 384 ELSE IF row = 3 THEN 320
                ELSE IF row = 4 THEN 256 ELSE 160

LEMMA RatesAreBounded ==
    ASSUME NEW row \in 1 .. 5, NEW n \in 1 .. 15
    PROVE  bitrate_table[row][n] \in 0 .. HighestRate(row)
<1>1. CASE row = 1
  BY <1>1 DEF bitrate_table, HighestRate
<1>2. CASE row = 2
  BY <1>2 DEF bitrate_table, HighestRate
<1>3. CASE row = 3
  BY <1>3 DEF bitrate_table, HighestRate
<1>4. CASE row = 4
  BY <1>4 DEF bitrate_table, HighestRate
<1>5. CASE row = 5
  BY <1>5 DEF bitrate_table, HighestRate
<1> QED BY <1>1, <1>2, <1>3, <1>4, <1>5

(* The row of bitrate_table of a header. *)
Row(h) == IF h.lsf THEN IF h.layer = 1 THEN 4 ELSE 5 ELSE h.layer

(* What decode_header makes of a header that it does not refuse. *)
LEMMA HeaderRanges ==
    ASSUME NEW h \in Headers
    PROVE  /\ h.layer \in 1 .. 3 /\ h.lsf \in BOOLEAN /\ h.pad_slot \in 0 .. 1
           /\ h.samplerate \in IF h.lsf THEN {22050, 24000, 16000, 11025, 12000, 8000}
                                        ELSE {44100, 48000, 32000}
           /\ h.bitrate \in Nat /\ h.bitrate <= 1000 * HighestRate(Row(h))
<1>1. PICK w \in Word : ~Reserved(w) /\ h = decode_header(w)
  BY Zenon DEF Headers
<1>2. /\ w.mpeg25 \in 0 .. 1 /\ w.id \in 0 .. 1 /\ w.layer \in 1 .. 3 /\ w.index \in 0 .. 14
      /\ w.sfreq \in 0 .. 2 /\ w.padding \in 0 .. 1 /\ (w.id = 1 => w.mpeg25 = 1)
  BY <1>1 DEF Word, Reserved
<1>3. h.layer = 4 - w.layer /\ h.lsf = (w.id = 0) /\ h.pad_slot = w.padding
  BY <1>1 DEF decode_header
<1>0. (w.id = 0 /\ h.lsf) \/ (w.id = 1 /\ ~h.lsf)
  <2>1. w.id = 0 \/ (w.id = 1 /\ w.id # 0)
    BY <1>2
  <2> QED BY <1>3, <2>1, Zenon
<1>4. Row(h) \in 1 .. 5 /\ Row(h) = IF w.id = 0 THEN 4 + h.layer \div 2 ELSE h.layer
  <2>1. h.layer = 1 \/ h.layer = 2 \/ h.layer = 3
    BY <1>2, <1>3
  <2>2. 1 \div 2 = 0 /\ 2 \div 2 = 1 /\ 3 \div 2 = 1
    BY SMT
  <2>3. CASE w.id = 0
    BY <2>1, <2>2, <2>3, <1>0, SMT DEF Row
  <2>4. CASE w.id = 1
    BY <2>1, <2>4, <1>0, SMT DEF Row
  <2> QED BY <1>2, <2>3, <2>4
<1>5. h.bitrate = 1000 * bitrate_table[Row(h)][w.index + 1]
  BY <1>1, <1>3, <1>4, SMT DEF decode_header
<1>6. bitrate_table[Row(h)][w.index + 1] \in 0 .. HighestRate(Row(h))
  BY <1>2, <1>4, RatesAreBounded
<1>7. h.samplerate = samplerate_table[w.sfreq + 1] \div
                         (IF w.id = 1 THEN 1 ELSE IF w.mpeg25 = 1 THEN 2 ELSE 4)
  BY <1>1, SMT DEF decode_header
<1>8. samplerate_table[w.sfreq + 1] \in {44100, 48000, 32000}
  BY <1>2, SMT DEF samplerate_table
<1>9. h.samplerate \in IF h.lsf THEN {22050, 24000, 16000, 11025, 12000, 8000}
                                ELSE {44100, 48000, 32000}
  <2> DEFINE hz == samplerate_table[w.sfreq + 1]
  <2>1. hz \in {44100, 48000, 32000}
    BY <1>8, SMT
  <2> HIDE DEF hz
  <2>2. CASE w.id = 1
    <3>1. h.samplerate = hz \div 1
      BY <1>7, <2>2, SMT DEF hz
    <3>2. ~h.lsf
      BY <1>0, <2>2
    <3> QED BY <2>1, <3>1, <3>2, SMT
  <2>3. CASE w.id = 0 /\ w.mpeg25 = 1
    <3>1. h.samplerate = hz \div 2
      BY <1>7, <2>3, SMT DEF hz
    <3>2. h.lsf
      BY <1>0, <2>3
    <3> QED BY <2>1, <3>1, <3>2, SMT
  <2>4. CASE w.id = 0 /\ w.mpeg25 = 0
    <3>1. h.samplerate = hz \div 4
      BY <1>7, <2>4, SMT DEF hz
    <3>2. h.lsf
      BY <1>0, <2>4
    <3> QED BY <2>1, <3>1, <3>2, SMT
  <2> QED BY <1>2, <2>2, <2>3, <2>4, SMT
<1>10. h.bitrate \in Nat /\ h.bitrate <= 1000 * HighestRate(Row(h))
  BY <1>4, <1>5, <1>6, SMT DEF HighestRate
<1>11. h.layer \in 1 .. 3 /\ h.lsf \in BOOLEAN /\ h.pad_slot \in 0 .. 1
  BY <1>2, <1>3
<1> QED BY <1>9, <1>10, <1>11, SMT

Rates == {44100, 48000, 32000, 22050, 24000, 16000, 11025, 12000, 8000}

(* What is cut off in a division by a sample rate. *)
LEMMA Quotient ==
    ASSUME NEW n \in Nat, NEW hz \in Rates
    PROVE  /\ n \div hz \in Int
           /\ hz * (n \div hz) <= n /\ n < hz * (n \div hz) + hz
BY SMT DEF Rates

(* A quotient by a sample rate is no more than what the rate times it is.  *)
LEMMA QuotientIsBounded ==
    ASSUME NEW n \in Nat, NEW hz \in Rates, NEW q \in Nat, n <= q * hz
    PROVE  n \div hz \in 0 .. q
<1> DEFINE d == n \div hz
<1>2. d \in Int /\ hz * d <= n /\ n < hz * d + hz
  BY Quotient
<1> HIDE DEF d
<1>3. hz \in Nat /\ hz > 0
  BY SMT DEF Rates
<1>4. d >= 0
  <2>1. CASE d < 0
    <3>1. hz * (d + 1) <= 0
      BY <1>2, <1>3, <2>1
    <3>2. hz * (d + 1) = hz * d + hz
      BY <1>2, <1>3
    <3> QED BY <1>2, <1>3, <3>1, <3>2
  <2> QED BY <1>2, <2>1
<1>5. d <= q
  <2>1. CASE d >= q + 1
    <3>1. hz * d >= hz * (q + 1)
      BY <1>2, <1>3, <2>1
    <3>2. hz * (q + 1) = q * hz + hz
      BY <1>3
    <3> QED BY <1>2, <1>3, <3>1, <3>2
  <2> QED BY <1>2, <2>1
<1> QED BY <1>2, <1>4, <1>5 DEF d

(* Bytes, or words of four, per sample rate and bit rate. *)
Slots(h) == IF h.layer = 1 THEN 12 ELSE slots_per_frame(h)

LEMMA LengthIsBounded ==
    ASSUME NEW h \in Headers, NEW q \in Nat, Slots(h) * h.bitrate <= q * h.samplerate
    PROVE  /\ FrameLength(h, h.bitrate) \in Nat
           /\ FrameLength(h, h.bitrate) <= IF h.layer = 1 THEN 4 * (q + 1) ELSE q + 1
<1> DEFINE n == Slots(h) * h.bitrate
           d == n \div h.samplerate
<1>1. Slots(h) \in Nat
  BY SMT DEF Slots, slots_per_frame
<1>2. h.pad_slot \in 0 .. 1 /\ h.bitrate \in Nat /\ h.samplerate \in Rates
  BY HeaderRanges, SMT DEF Rates
<1>3. n \in Nat /\ n <= q * h.samplerate
  BY <1>1, <1>2
<1>4. d \in 0 .. q
  <2> HIDE DEF n
  <2> QED BY <1>2, <1>3, QuotientIsBounded, Zenon
<1>5. FrameLength(h, h.bitrate) = IF h.layer = 1 THEN (d + h.pad_slot) * 4 ELSE d + h.pad_slot
  BY SMT DEF FrameLength, Slots
<1> HIDE DEF d
<1> QED BY <1>2, <1>4, <1>5, SMT

(* Frames of layer III are far shorter than readBuf. *)
LEMMA LayerIIIIsShort ==
    ASSUME NEW h \in Headers, h.layer = 3
    PROVE  /\ FrameLength(h, h.bitrate) \in Nat
           /\ FrameLength(h, h.bitrate) <= 1441
<1> DEFINE hz == h.samplerate
           n == Slots(h) * h.bitrate
           length == FrameLength(h, h.bitrate)
           AtMost(q) == n <= q * hz
<1>1. h.lsf \in BOOLEAN /\ h.bitrate \in Nat
      /\ h.bitrate <= 1000 * HighestRate(Row(h)) /\ hz \in Int
  BY HeaderRanges, SMT
<1>2. (h.lsf => hz >= 8000) /\ (~h.lsf => hz >= 32000)
  BY HeaderRanges, SMT
<1>3. AtMost(1440)
  BY <1>1, <1>2, SMT DEF Row, HighestRate, Slots, slots_per_frame
<1>4. AtMost(1440) => length \in Nat /\ length <= 1440 + 1
  BY LengthIsBounded, SMT
<1> HIDE DEF AtMost, length
<1>5. length \in Nat /\ length <= 1441
  BY <1>3, <1>4, SMT
<1> QED BY <1>5, SMT DEF length

(* Behind what is carried over they end within main_data. *)
LEMMA NoneIsOverMainData == OverMainData = {}
<1> SUFFICES ASSUME NEW h \in Headers, h.layer = 3
             PROVE  ~(MostCarried + FrameLength(h, h.bitrate) > MainDataSize)
  BY SMT DEF OverMainData
<1> DEFINE length == FrameLength(h, h.bitrate)
<1>1. length \in Nat /\ length <= 1441
  BY LayerIIIIsShort, SMT
<1> HIDE DEF length
<1>2. ~(MostCarried + length > MainDataSize)
  BY <1>1, SMT DEF MostCarried, MainDataSize
<1> QED BY <1>2, SMT DEF length

(* Every frame with a bit rate fits in readBuf with the guard, but for     *)
(* those of layer II at 8 kHz.                                             *)
LEMMA FewAreTooLong ==
    ASSUME NEW h \in TooLong
    PROVE  h.layer = 2 /\ h.lsf /\ h.samplerate = 8000
<1> SUFFICES ASSUME ~(h.layer = 2 /\ h.lsf /\ h.samplerate = 8000)
             PROVE  FrameLength(h, h.bitrate) \in Nat /\ FrameLength(h, h.bitrate) <= 2098
  <2> DEFINE length == FrameLength(h, h.bitrate)
  <2>1. length + Guard > BufferSize
    BY SMT DEF TooLong
  <2> HIDE DEF length
  <2>2. ~(length \in Nat /\ length <= 2098)
    BY <2>1, SMT DEF BufferSize, Guard
  <2> QED BY <2>2, SMT DEF length
<1>1. h \in Headers
  BY SMT DEF TooLong
<1> DEFINE hz == h.samplerate
           n == Slots(h) * h.bitrate
           length == FrameLength(h, h.bitrate)
           AtMost(q) == n <= q * hz
<1>2. h.layer \in 1 .. 3 /\ h.lsf \in BOOLEAN /\ h.bitrate \in Nat
      /\ h.bitrate <= 1000 * HighestRate(Row(h)) /\ hz \in Int
  BY <1>1, HeaderRanges, SMT
<1>3. (h.lsf => hz >= 8000) /\ (~h.lsf => hz >= 32000)
      /\ (h.lsf /\ h.layer = 2 => hz >= 11025)
  BY <1>1, HeaderRanges, SMT
<1>4. \A q \in Nat : AtMost(q) =>
                        length \in Nat /\ length <= IF h.layer = 1 THEN 4 * (q + 1) ELSE q + 1
  BY <1>1, LengthIsBounded, SMT
<1>5. CASE h.layer = 1
  <2>1. AtMost(384)
    BY <1>2, <1>3, <1>5, SMT DEF Row, HighestRate, Slots
  <2> HIDE DEF AtMost, length
  <2>2. length \in Nat /\ length <= 1540
    BY <1>4, <1>5, <2>1, SMT
  <2> QED BY <2>2, SMT DEF length
<1>6. CASE h.layer = 2
  <2>1. AtMost(2090)
    BY <1>2, <1>3, <1>6, SMT DEF Row, HighestRate, Slots, slots_per_frame
  <2> HIDE DEF AtMost, length
  <2>2. length \in Nat /\ length <= 2091
    BY <1>4, <1>6, <2>1, SMT
  <2> QED BY <2>2, SMT DEF length
<1>7. CASE h.layer = 3
  <2>1. length \in Nat /\ length <= 1441
    BY <1>1, <1>7, LayerIIIIsShort, SMT
  <2> HIDE DEF AtMost, length
  <2>2. length \in Nat /\ length <= 2098
    BY <2>1, SMT
  <2> QED BY <2>2, SMT DEF length
<1> QED BY <1>2, <1>5, <1>6, <1>7, SMT

(* The rate of a header is found again from the length of its frame: what  *)
(* two divisions have cut off is less than the slot that is added, and     *)
(* with it still less than one kbit/s.                                     *)
LEMMA NoneIsInexact == Inexact = {}
<1> SUFFICES ASSUME NEW h \in Headers, h.layer = 3, NEW k \in Nat, k >= 1
             PROVE  free_bitrate(h, FrameLength(h, 1000 * k)) = k
  BY SMT DEF Inexact
<1> DEFINE hz == h.samplerate
           slots == slots_per_frame(h)
           n == slots * (1000 * k)
           q == n \div hz
           m == hz * (q + 1)
<1>1. /\ h.pad_slot \in Int /\ hz \in Rates
      /\ (slots = 72 /\ hz <= 24000) \/ (slots = 144 /\ hz <= 48000)
  BY HeaderRanges, SMT DEF Rates, slots_per_frame
<1>2. hz \in Nat /\ hz > 0
  BY <1>1, SMT DEF Rates
<1> DEFINE length == FrameLength(h, 1000 * k)
           Rate(bits) == (bits \div slots) \div 1000
<1>3. length = q + h.pad_slot
  BY SMT DEF FrameLength
<1>4. free_bitrate(h, length) = Rate(hz * (length - h.pad_slot + 1))
  BY SMT DEF free_bitrate
<1> HIDE DEF hz, slots, length, Rate
<1>5. n \in Nat /\ n = slots * (1000 * k)
  BY <1>1, SMT
<1> HIDE DEF n
<1>6. q \in Int /\ hz * q <= n /\ n < hz * q + hz
  <2>1. n \in Nat /\ hz \in Rates
    BY <1>1, <1>5
  <2> QED BY <2>1, Quotient, Zenon
<1> HIDE DEF q
<1>7. free_bitrate(h, length) = Rate(m)
  <2>1. length - h.pad_slot + 1 = q + 1
    BY <1>1, <1>3, <1>6
  <2> QED BY <1>4, <2>1, Zenon
<1>8. m = hz * q + hz /\ hz * q \in Int
  BY <1>2, <1>6
<1>9. m \in Nat /\ n < m /\ m <= n + hz
  BY <1>2, <1>5, <1>6, <1>8
<1> HIDE DEF m
<1>10. CASE slots = 72 /\ hz <= 24000
  <2> DEFINE rounded == m \div 72
  <2>1. rounded \in Int /\ 72 * rounded <= m /\ m < 72 * rounded + 72
    BY <1>9, SMT
  <2> HIDE DEF rounded
  <2>2. rounded \in Int /\ 1000 * k <= rounded /\ rounded < 1000 * k + 1000
    BY <1>2, <1>5, <1>9, <1>10, <2>1, SMT
  <2>3. rounded \div 1000 = k
    BY <2>2, SMT
  <2> QED BY <1>7, <1>10, <2>3, SMT DEF Rate, rounded, length
<1>11. CASE slots = 144 /\ hz <= 48000
  <2> DEFINE rounded == m \div 144
  <2>1. rounded \in Int /\ 144 * rounded <= m /\ m < 144 * rounded + 144
    BY <1>9, SMT
  <2> HIDE DEF rounded
  <2>2. rounded \in Int /\ 1000 * k <= rounded /\ rounded < 1000 * k + 1000
    BY <1>2, <1>5, <1>9, <1>11, <2>1, SMT
  <2>3. rounded \div 1000 = k
    BY <2>2, SMT
  <2> QED BY <1>7, <1>11, <2>3, SMT DEF Rate, rounded, length
<1> QED BY <1>1, <1>10, <1>11

(* LengthsHold: the arithmetic of decode_header, mad_header_decode and     *)
(* free_bitrate, for every header they take: all frames but a few of layer *)
(* II fit in READBUFSZ, none overruns main_data, and a free bit rate comes *)
(* out exactly.                                                            *)
THEOREM LengthsAreRight == Spec => []LengthsHold
<1>1. LengthsHold
  BY FewAreTooLong, NoneIsOverMainData, NoneIsInexact, SMT DEF LengthsHold
<1> QED BY <1>1, PTL
=============================================================================
