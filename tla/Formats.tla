------------------------------- MODULE Formats -------------------------------
(***************************************************************************)
(* What audio is between the wire and the model: the encodings, rates and   *)
(* filters a request may name (stemd-core/src/stemfmt.rs, pcm.rs,           *)
(* resample), and what each conversion does to a buffer.                    *)
(*                                                                         *)
(* A buffer is a record.  Its samples are what they are made of (a          *)
(* coefficient for each thing that sounds in the track) and the filters     *)
(* they went through; its level is its peak, in hundredths of full scale.   *)
(***************************************************************************)
EXTENDS Integers, Sequences, FiniteSets, FiniteSetsExt, Functions

Least(a, b) == IF a < b THEN a ELSE b
CeilDiv(a, b) == (a + b - 1) \div b

-----------------------------------------------------------------------------
(* Formats *)

PcmFormats == {"s16le", "f32le"}
BytesPerSample(format) == IF format = "s16le" THEN 2 ELSE 4

StemFormats == {"flac", "wav", "mp3", "pcm16", "pcm32"}

AsPcm(format) == CASE format = "pcm16" -> {"s16le"}
                   [] format = "pcm32" -> {"f32le"}
                   [] OTHER -> {}

HasHeadroom(format) == format = "pcm32"

-----------------------------------------------------------------------------
(* Rates and filters *)

OutputRates == {24000, 44100, 48000, 96000}

\* MPEG-1 Layer III has no 96 kHz.
Carries(format, rate) == format = "mp3" => rate \in {24000, 44100, 48000}

\* Mode 0 converts any pair, mode 1 the one it is a copy of.
DspModes == {0, 1}
OnlyPair(mode) == IF mode = 1 THEN {<<44100, 96000>>} ELSE {}
CoversPair(mode, from, to) == OnlyPair(mode) \subseteq {<<from, to>>}

\* mode1: 320 / 147, truncated.  Every output frame is a product of its own: the
\* newest input it reaches and the phase it lands on place it.
UP == 320
DOWN == 147
OutFrames(frames) == (frames * UP) \div DOWN

\* fill(): output frames m0 .. m0 + count - 1, carried forward from the first.
Place(m) == [newest |-> (m * DOWN) \div UP, r |-> ((m * DOWN) % UP)]
Fill(m0, count) ==
  LET placed[i \in 0 .. count] ==
        IF i = 0 THEN Place(m0)
        ELSE LET p == placed[i - 1]
                 r == p.r + DOWN
             IN  IF r >= UP THEN [newest |-> p.newest + 1, r |-> r - UP]
                 ELSE [p EXCEPT !.r = r]
  IN  [m \in m0 .. m0 + count - 1 |-> placed[m - m0]]

\* resample(): the channels' frames spread over the machine's threads.
Slices(threads, channels) == CeilDiv(threads, channels)
SliceStart(i, chunk) == i * chunk
Filled(frames, channels, threads) ==
  LET n == OutFrames(frames)
      chunk == Max({CeilDiv(n, Slices(threads, channels)), 1})
  IN  [m \in 0 .. n - 1 |->
         LET i == m \div chunk IN
         Fill(SliceStart(i, chunk), Least(chunk, n - i * chunk))
           [SliceStart(i, chunk) + (m % chunk)]]

\* The general resampler (the rubato library) rounds the ratio up.
Resampled(frames, from, to) == CeilDiv(frames * to, from)

-----------------------------------------------------------------------------
(* Buffers *)

Refused(why) == [refused |-> why]
IsRefused(b) == "refused" \in DOMAIN b

\* Audio::from_interleaved: whole frames or nothing.
FromInterleaved(bytes, format, channels, rate) ==
  IF channels = 0 \/ bytes % (BytesPerSample(format) * channels) # 0
  THEN Refused("ragged")
  ELSE [frames   |-> bytes \div (BytesPerSample(format) * channels),
        channels |-> channels,
        rate     |-> rate]

\* resample::to_rate_with, for a buffer without its samples.
ToRate(audio, target, mode) ==
  IF audio.rate = target \/ audio.frames = 0 THEN audio
  ELSE IF ~CoversPair(mode, audio.rate, target) THEN Refused("mode")
  ELSE [audio EXCEPT !.rate = target,
                     !.frames = IF mode = 1 THEN OutFrames(@)
                                ELSE Resampled(@, audio.rate, target)]

\* The same for its samples: they carry the filter from then on.
Through(samples, from, to, mode) ==
  IF from = to THEN samples
  ELSE [samples EXCEPT !.path = Append(@, <<from, to, mode>>)]

\* Sums are taken sample by sample: what went through different filters does
\* not line up, whatever its rate.
Corresponds(a, b) == a.path = b.path
Minus(a, b) == [a EXCEPT !.of = [x \in DOMAIN @ |-> @[x] - b.of[x]]]

-----------------------------------------------------------------------------
(* Encoding *)

FULL == 100   \* full scale

\* transfer_gain, as the fraction <<100, d>>: a stem over full scale is fitted,
\* where the format has a ceiling.
TransferGain(peak, format) ==
  IF HasHeadroom(format) \/ peak <= FULL THEN FULL ELSE peak

\* The level that is written, clamped where the format clamps.
Written(peak, format) ==
  LET scaled == (peak * FULL) \div TransferGain(peak, format)
  IN  IF AsPcm(format) = {"f32le"} THEN scaled ELSE Least(scaled, FULL)

\* What the encoders refuse; raw samples and a header always fit.
ToMp3(audio) ==
  /\ audio.channels \in 1 .. 2
  /\ audio.rate \in OutputRates => Carries("mp3", audio.rate)
ToFlac(audio) == audio.channels > 0
Encodes(audio, format) ==
  /\ format = "mp3" => ToMp3(audio)
  /\ format = "flac" => ToFlac(audio)
=============================================================================
