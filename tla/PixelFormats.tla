---------------------------- MODULE PixelFormats ----------------------------
(***************************************************************************)
(* Conversions between lines of 10-bit samples and v210 (core-pixels.c).   *)
(* v210 packs three samples into a 32-bit word; here such a word is the    *)
(* triple of its samples, lowest bits first.  In a group of four words the *)
(* luma samples are the 2nd, 4th, 6th, 8th, 10th and 12th of the twelve.   *)
(***************************************************************************)
EXTENDS Integers, Sequences, SequencesExt

Blank == 512  \* 0x200: chroma without colour
Black == 64   \* 0x040: luma of black

\* Samples of the words, in order: the effect of READ_PIXELS.
Samples(words) == FlattenSeq(words)

----------------------------------------------------------------------------
(* To v210                                                                 *)

\* Mutant: the sample before the end of an incomplete group is lost.
TailTooShort(src, w, rest) ==
  LET s(k) == src[w + k + 1]
  IN (IF rest > 0 THEN << <<Blank, s(0), Blank>> >> ELSE <<>>)
     \o (IF rest > 1 THEN << <<s(1), Blank, Black>> >> ELSE <<>>)
     \o (IF rest > 3 THEN << <<Blank, s(3), Blank>> >> ELSE <<>>)
     \o (IF rest > 4 THEN << <<s(4), Blank, Black>> >> ELSE <<>>)

\* The words of the last, incomplete group of luma samples.
Tail6(src, w, rest) ==
  LET s(k) == src[w + k + 1]
  IN (IF rest > 0 THEN << <<Blank, s(0), Blank>> >> ELSE <<>>)
     \o (IF rest > 2 THEN << <<s(1), Blank, s(2)>> >>
         ELSE IF rest > 1 THEN << <<s(1), Blank, Black>> >> ELSE <<>>)
     \o (IF rest > 3 THEN << <<Blank, s(3), Blank>> >> ELSE <<>>)
     \o (IF rest > 4 THEN << <<s(4), Blank, Black>> >> ELSE <<>>)

\* Luma samples with neutral chroma.
klvanc_y10_to_v210(src, width) ==
  LET group(w) == LET s(k) == src[6 * w + k + 1]
                  IN << <<Blank, s(0), Blank>>, <<s(1), Blank, s(2)>>,
                        <<Blank, s(3), Blank>>, <<s(4), Blank, s(5)>> >>
      len == width \div 6
  IN FlattenSeq([w \in 1 .. len |-> group(w - 1)]) \o Tail6(src, 6 * len, width % 6)

\* Luma and chroma in turn; an incomplete group is filled up, a word at a time,
\* with black.
klvanc_uyvy_to_v210(src, width) ==
  LET s(k) == IF k <= width THEN src[k] ELSE IF k % 2 = 1 THEN Blank ELSE Black
  IN [w \in 1 .. (width + 2) \div 3 |-> <<s(3 * w - 2), s(3 * w - 1), s(3 * w)>>]

----------------------------------------------------------------------------
(* From v210                                                               *)

\* klvanc_v210_line_to_nv20_c: luma, then chroma.  An incomplete group gives its
\* luma in pairs, so the last sample of an odd width is left as it was.
Luma(words, width) ==
  LET all == Samples(words)
      len == 6 * (width \div 6)
      rest == width % 6
      kept == IF rest > 3 THEN 4 ELSE IF rest > 1 THEN 2 ELSE 0
  IN [k \in 1 .. len + kept |-> all[2 * k]]
klvanc_v210_line_to_nv20_c(words, dstSizeBytes, width) ==
  IF width = 0 \/ dstSizeBytes < width * 6 THEN {} ELSE {Luma(words, width)}

\* klvanc_v210_planar_unpack_c: whole groups only; y, u and v.
klvanc_v210_planar_unpack_c(words, width) ==
  LET all == Samples(words)
      len == 6 * (width \div 6)
  IN [y |-> [k \in 1 .. len |-> all[2 * k]],
      u |-> [k \in 1 .. len \div 2 |-> all[4 * k - 3]],
      v |-> [k \in 1 .. len \div 2 |-> all[4 * k - 1]]]

\* klvanc_v210_line_to_uyvy_c: groups of six pixels, the last one whole.
klvanc_v210_line_to_uyvy_c(words, width) ==
  LET all == Samples(words) IN SubSeq(all, 1, 12 * ((width + 5) \div 6))

\* klvanc_v210_downscale_line_c
klvanc_v210_downscale_line_c(src) == [k \in DOMAIN src |-> src[k] \div 4]
=============================================================================
