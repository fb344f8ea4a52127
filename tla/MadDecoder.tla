----------------------------- MODULE MadDecoder -----------------------------
(***************************************************************************)
(* The loop that turns frames into sound: run_sync of mp3/mad/decoder.c,   *)
(* with the callbacks its caller gave it, or the same loop written out in  *)
(* tskmad of mp3/user/user_main.c; mad_frame_decode and mad_frame_mute of  *)
(* frame.c; what III_decode of layer3.c does to the subband samples and to *)
(* the overlap; and, through MadSynth, the synthesis.                      *)
(*                                                                         *)
(* A granule is abstracted to a number, 0 is silence.  The 18 samples of a *)
(* granule in each subband are the sum of its own first half (main) and    *)
(* the second half of the granule before it (over), kept in the overlap    *)
(* buffer until then.                                                      *)
(***************************************************************************)
EXTENDS MadSynth

CONSTANTS Blocks,       \* blocks of a granule: 18
          Formats,      \* [nch, ngr]: channels and granules of a frame
          Clients,      \* the sets of callbacks a caller may supply
          MaxFrames,    \* bound: frames begun, and frames synthesised
          MaxRuns,      \* bound: calls of mad_decoder_run
          NoFormat

ASSUME DecoderAssumption ==
    /\ Blocks \in Nat \ {0}
    /\ Formats \subseteq [nch : 1 .. 2, ngr : 1 .. 2]
    /\ NoFormat \notin Formats
    /\ Clients \subseteq SUBSET {"header", "filter", "output", "error"}
    /\ MaxFrames \in Nat /\ MaxRuns \in Nat

VARIABLES loop,         \* who runs: "run_sync" or "tskmad"
          supplied,     \* the callbacks given to mad_decoder_init
          pc, result, runs,
          error,        \* stream->error
          fed,          \* has a buffer been given to the stream?
          header,       \* the format in frame->header
          incomplete,   \* MAD_FLAG_INCOMPLETE: the header is read, its frame is not
          attached,     \* does frame->overlap point to ovlbuf?
          sbsample, ovlbuf,
          badLast,      \* bad_last_frame
          s,            \* blocks of the frame that were synthesised
          granules, synths,
          fresh,        \* was the frame at hand decoded?
          last, clean,  \* the granule heard last; is the overlap its second half?
          shape, mixed  \* the format of the run; was there another?

run == <<loop, supplied>>
frame == <<header, incomplete, attached, sbsample, ovlbuf>>
heard == <<last, clean, shape, mixed>>
vars == <<synthVars, run, pc, result, runs, error, fed, frame, badLast, s,
          granules, synths, fresh, heard>>

Flow == {"continue", "stop", "break", "ignore"}
Granule == 0 .. 1

Recoverable(e) == e \in {"badcrc", "other"}   \* MAD_RECOVERABLE
nch == header.nch
ns == Blocks * header.ngr                     \* MAD_NSBSAMPLES of layer III

NoSound == [ch \in Channel |-> [gr \in Granule |-> [main |-> 0, over |-> 0, plays |-> 0]]]
NoOverlap == [ch \in Channel |-> 0]

-----------------------------------------------------------------------------
(* mad_frame_mute, of a frame whose overlap pointer is set or not. *)
mad_frame_mute(set) ==
    /\ sbsample' = NoSound
    /\ ovlbuf' = IF set THEN NoOverlap ELSE ovlbuf

(* The start of run_sync and of tskmad.  mad_frame_init takes the overlap  *)
(* pointer away before it mutes, so what ovlbuf holds stays.               *)
Start ==
    /\ error' = "none" /\ fed' = FALSE
    /\ header' \in {h \in Formats : h.nch = 1 /\ h.ngr = 2}
    /\ incomplete' = FALSE /\ attached' = FALSE
    /\ mad_frame_mute(FALSE)
    /\ mad_synth_init
    /\ badLast' = FALSE /\ s' = 0
    /\ fresh' = FALSE
    /\ last' = NoOverlap /\ clean' = (runs = 0)
    /\ shape' = NoFormat /\ mixed' = FALSE
    /\ pc' = "input" /\ runs' = runs + 1
    /\ UNCHANGED <<result, granules, synths>>

mad_decoder_run ==
    /\ pc \in {"idle", "done"} /\ runs < MaxRuns
    /\ loop' = "run_sync" /\ supplied' \in Clients
    /\ Start

tskmad ==
    /\ pc = "idle"
    /\ loop' = "tskmad" /\ supplied' = {"error"}
    /\ Start

Done(r) == pc' = "done" /\ result' = r
Goto(l) == pc' = l /\ UNCHANGED result

(* What a callback may return: anything in run_sync; the two functions     *)
(* tskmad calls always let it go on.                                       *)
Returns(f) == f \in Flow /\ (loop = "tskmad" => f = "continue")

(* `break': input again, if the stream wants more data.  tskmad always     *)
(* takes it for that.                                                      *)
Break(e) == IF loop = "tskmad" \/ e = "buflen" THEN Goto("input") ELSE Done(-1)

(* The frame just used: the first one of a run sets the format. *)
Uses(h) ==
    /\ shape' = IF shape = NoFormat THEN h ELSE shape
    /\ mixed' = (mixed \/ shape \notin {NoFormat, h})

-----------------------------------------------------------------------------
(* input_func *)

Input(f, gives) ==
    /\ pc = "input" /\ Returns(f)
    /\ loop = "tskmad" => gives
    /\ fed' = (fed \/ gives)
    /\ CASE f = "continue" -> Goto("loop")
         [] f = "ignore"   -> Break(error)
         [] f = "stop"     -> Done(0)
         [] f = "break"    -> Done(-1)
    /\ UNCHANGED <<synthVars, run, runs, error, frame, badLast, s, granules, synths,
                   fresh, heard>>

-----------------------------------------------------------------------------
(* With a header_func: mad_header_decode, and the test for its result,     *)
(* which takes success for failure.                                        *)

HeaderRead ==
    /\ pc = "loop" /\ "header" \in supplied
    /\ fed
    /\ header' \in Formats /\ incomplete' = TRUE
    /\ IF Recoverable(error) THEN Goto("headerError") ELSE Break(error)
    /\ UNCHANGED <<synthVars, run, runs, error, fed, attached, sbsample, ovlbuf, badLast,
                   s, granules, synths, fresh, heard>>

(* mad_header_decode fails: without a buffer, for want of data, or for     *)
(* what it reads.  It may have changed the header by then.                 *)
HeaderError(e) ==
    /\ e \in IF fed THEN {"buflen", "other"} ELSE {"bufptr"}
    /\ error' = e
    /\ \/ UNCHANGED <<header, incomplete>>
       \/ fed /\ header' \in Formats /\ incomplete' = FALSE

HeaderFailed(e) ==
    /\ pc = "loop" /\ "header" \in supplied
    /\ HeaderError(e)
    /\ Goto("headerFunc")
    /\ UNCHANGED <<synthVars, run, runs, fed, attached, sbsample, ovlbuf, badLast,
                   s, granules, synths, fresh, heard>>

HeaderFunc(f) ==
    /\ pc = "headerFunc" /\ Returns(f)
    /\ CASE f = "continue" -> Goto("decode")
         [] f = "ignore"   -> Goto("loop")
         [] f = "stop"     -> Done(0)
         [] f = "break"    -> Done(-1)
    /\ UNCHANGED <<synthVars, run, runs, error, fed, frame, badLast, s, granules, synths,
                   fresh, heard>>

-----------------------------------------------------------------------------
(* mad_frame_decode *)

Decodes ==
    \/ pc = "decode"
    \/ pc = "loop" /\ "header" \notin supplied

Failed(e) == IF Recoverable(e) THEN Goto("error") ELSE Break(e)

DecodeHeaderFailed(e) ==
    /\ Decodes /\ ~incomplete
    /\ HeaderError(e)
    /\ Failed(e)
    /\ fresh' = FALSE
    /\ UNCHANGED <<synthVars, run, runs, fed, attached, sbsample, ovlbuf, badLast,
                   s, granules, synths, heard>>

(* The header of the frame is read now, or was. *)
HasHeader ==
    /\ Decodes /\ fed
    /\ IF incomplete THEN UNCHANGED header ELSE header' \in Formats
    /\ incomplete' = FALSE

(* decoder_table holds no function for layers I and II. *)
NoDecoder ==
    /\ HasHeader
    /\ Goto("crash")
    /\ UNCHANGED <<synthVars, run, runs, error, fed, attached, sbsample, ovlbuf, badLast,
                   s, granules, synths, fresh, heard>>

(* mad_layer_III fails before it has written a sample: a short frame, a    *)
(* CRC error, bad side information, main data that is missing, or a bad    *)
(* first granule.                                                          *)
LayerFailed(e) ==
    /\ HasHeader /\ attached' = TRUE
    /\ e \in {"badcrc", "other"} /\ error' = e
    /\ Failed(e)
    /\ fresh' = FALSE
    /\ UNCHANGED <<synthVars, run, runs, fed, sbsample, ovlbuf, badLast,
                   s, granules, synths, heard>>

(* III_decode: granule g of number n, in channels below c. *)
DecodeGranule(samples, overlap, c, g, n) ==
    [ch \in Channel |->
        IF ch < c
        THEN [samples[ch] EXCEPT ![g] = [main |-> n, over |-> overlap[ch], plays |-> 0]]
        ELSE samples[ch]]

KeepOverlap(overlap, c, n) == [ch \in Channel |-> IF ch < c THEN n ELSE overlap[ch]]

(* Mutant: the second granule overlaps what the first one did. *)
Decode_OldOverlap(c, k) ==
    /\ sbsample' = LET one == DecodeGranule(sbsample, ovlbuf, c, 0, granules + 1) IN
                   IF k = 1 THEN one ELSE DecodeGranule(one, ovlbuf, c, 1, granules + 2)
    /\ ovlbuf' = KeepOverlap(ovlbuf, c, granules + k)

(* The first k granules of the frame are decoded, in all its channels. *)
Decode(c, k) ==
    /\ sbsample' = LET one == DecodeGranule(sbsample, ovlbuf, c, 0, granules + 1) IN
                   IF k = 1 THEN one
                   ELSE DecodeGranule(one, KeepOverlap(ovlbuf, c, granules + 1),
                                      c, 1, granules + 2)
    /\ ovlbuf' = KeepOverlap(ovlbuf, c, granules + k)

(* The second of two granules is bad. *)
LayerFailedLate ==
    /\ HasHeader /\ header'.ngr = 2 /\ attached' = TRUE
    /\ granules < 2 * MaxFrames
    /\ Decode(header'.nch, 1) /\ granules' = granules + 2
    /\ error' = "other"
    /\ Failed("other")
    /\ fresh' = FALSE /\ clean' = FALSE /\ Uses(header')
    /\ UNCHANGED <<synthVars, run, runs, fed, badLast, s, synths, last>>

FrameDecoded ==
    /\ HasHeader /\ attached' = TRUE
    /\ granules < 2 * MaxFrames
    /\ Decode(header'.nch, header'.ngr) /\ granules' = granules + 2
    /\ badLast' = FALSE
    /\ Goto("filter")
    /\ fresh' = TRUE /\ Uses(header')
    /\ UNCHANGED <<synthVars, run, runs, error, fed, s, synths, last, clean>>

-----------------------------------------------------------------------------
(* The error callback, after a bad frame or, with a header_func, after a   *)
(* header that was read while an error was still set.                      *)

AfterError(f) ==
    CASE f = "stop"     -> Done(0)
      [] f = "break"    -> Done(-1)
      [] f = "ignore"   -> Goto(IF pc = "error" THEN "filter" ELSE "loop")
      [] f = "continue" -> Goto("loop")

ErrorFunc(f) ==
    /\ pc \in {"error", "headerError"} /\ "error" \in supplied /\ Returns(f)
    /\ AfterError(f)
    /\ UNCHANGED <<synthVars, run, runs, error, fed, frame, badLast, s, granules, synths,
                   fresh, heard>>

(* Mutant: the second bad frame is not muted. *)
error_default_NoMute ==
    /\ pc \in {"error", "headerError"} /\ "error" \notin supplied
    /\ badLast' = (badLast \/ error = "badcrc")
    /\ AfterError(IF error = "badcrc" THEN "ignore" ELSE "continue")
    /\ UNCHANGED <<synthVars, run, runs, error, fed, frame, s, granules, synths, fresh, heard>>

(* A CRC error: the first time the old samples are played again, then      *)
(* silence.                                                                *)
error_default ==
    /\ pc \in {"error", "headerError"} /\ "error" \notin supplied
    /\ IF error = "badcrc" /\ badLast THEN mad_frame_mute(attached)
                                      ELSE UNCHANGED <<sbsample, ovlbuf>>
    /\ badLast' = (badLast \/ error = "badcrc")
    /\ AfterError(IF error = "badcrc" THEN "ignore" ELSE "continue")
    /\ clean' = (clean /\ pc = "error")
    /\ UNCHANGED <<synthVars, run, runs, error, fed, header, incomplete, attached,
                   s, granules, synths, fresh, last, shape, mixed>>

-----------------------------------------------------------------------------
(* filter_func, mad_synth_frame, output_func *)

Filter(f) ==
    /\ pc = "filter" /\ synths < MaxFrames
    /\ IF "filter" \in supplied THEN Returns(f) ELSE f = "continue"
    /\ CASE f = "continue" -> Goto("synth")
         [] f = "ignore"   -> Goto("loop")
         [] f = "stop"     -> Done(0)
         [] f = "break"    -> Done(-1)
    /\ IF f = "continue"
       THEN s' = 0 /\ synths' = synths + 1 /\ Uses(header) /\ UNCHANGED clean
       ELSE clean' = FALSE /\ UNCHANGED <<s, synths, shape, mixed>>
    /\ UNCHANGED <<synthVars, run, runs, error, fed, frame, badLast, granules, fresh, last>>

(* The granule that starts to be heard with block s, if one does. *)
Begins == s % Blocks = 0
Cell(ch) == sbsample[ch][s \div Blocks]

SynthFrame ==
    /\ pc = "synth" /\ s < ns
    /\ SynthBlock(nch)
    /\ s' = s + 1
    /\ IF Begins
       THEN /\ last' = [ch \in Channel |-> IF ch < nch THEN Cell(ch).main ELSE last[ch]]
            /\ clean' = (clean \/ fresh)
            /\ sbsample' = [ch \in Channel |->
                   IF ch < nch THEN [sbsample[ch] EXCEPT ![s \div Blocks].plays = @ + 1]
                               ELSE sbsample[ch]]
       ELSE UNCHANGED <<last, clean, sbsample>>
    /\ UNCHANGED <<run, pc, result, runs, error, fed, header, incomplete, attached, ovlbuf,
                   badLast, granules, synths, fresh, shape, mixed>>

Output(f) ==
    /\ pc = "synth" /\ s = ns
    /\ IF "output" \in supplied THEN Returns(f) ELSE f = "continue"
    /\ CASE f = "stop"  -> Done(0)
         [] f = "break" -> Done(-1)
         [] OTHER       -> Goto("loop")
    /\ UNCHANGED <<synthVars, run, runs, error, fed, frame, badLast, s, granules, synths,
                   fresh, heard>>

-----------------------------------------------------------------------------
Init ==
    /\ SynthInit
    /\ loop = "run_sync" /\ supplied = {} /\ pc = "idle" /\ result = 0 /\ runs = 0
    /\ error = "none" /\ fed = FALSE
    /\ header \in {h \in Formats : h.nch = 1 /\ h.ngr = 2} /\ incomplete = FALSE
    /\ attached = FALSE /\ sbsample = NoSound /\ ovlbuf = NoOverlap
    /\ badLast = FALSE /\ s = 0 /\ granules = 0 /\ synths = 0
    /\ fresh = FALSE /\ last = NoOverlap /\ clean = TRUE
    /\ shape = NoFormat /\ mixed = FALSE

Next ==
    \/ mad_decoder_run \/ tskmad
    \/ \E f \in Flow :
           \/ \E gives \in BOOLEAN : Input(f, gives)
           \/ HeaderFunc(f) \/ ErrorFunc(f) \/ Filter(f) \/ Output(f)
    \/ HeaderRead
    \/ \E e \in {"buflen", "bufptr", "other"} : HeaderFailed(e) \/ DecodeHeaderFailed(e)
    \/ NoDecoder
    \/ \E e \in {"badcrc", "other"} : LayerFailed(e)
    \/ LayerFailedLate \/ FrameDecoded
    \/ error_default
    \/ SynthFrame

Spec == Init /\ [][Next]_vars

-----------------------------------------------------------------------------
(* Correctness *)

(* The overlap-add of the IMDCT only works between neighbours: a granule   *)
(* that was decoded overlaps the one heard before it, also when frames     *)
(* were skipped, repeated or muted in between.  What breaks the chain is a *)
(* frame that was decoded or muted and not heard (filter_func, a bad       *)
(* second granule, an error callback for a header), and another run.       *)
Continuous ==
    pc = "synth" /\ s < ns /\ Begins /\ fresh /\ clean /\ ~mixed =>
        \A ch \in Channel : ch < nch => Cell(ch).over = last[ch]

(* With error_default no sound is played more than twice: a frame with a   *)
(* bad CRC repeats the one before it, the next is silent.                  *)
RepeatedOnce ==
    "error" \notin supplied /\ ~mixed =>
        \A ch \in Channel, gr \in Granule :
            sbsample[ch][gr].main # 0 => sbsample[ch][gr].plays <= 2
=============================================================================
