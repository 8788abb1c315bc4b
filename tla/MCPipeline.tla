----------------------------- MODULE MCPipeline -----------------------------
(* Uploads, tracks and files for TLC. *)
EXTENDS PipelineProperties

Upload ==
  [body |-> "song", bytes |-> 24, channels |-> 2, rate |-> 44100, in |-> "s16le",
   format |-> "default", out |-> 0, derived |-> FALSE, dsp |-> 0, finite |-> TRUE]

Values ==
  [body |-> {"song", "other song"}, bytes |-> {0, 24, 26, 36, 40, 160, 168},
   channels |-> {0, 1, 2, 3}, rate |-> {0, 22050, 44100, 48000, 96000, 192000},
   in |-> PcmFormats \cup {"u8"}, format |-> StemFormats \cup {"default", "ogg"},
   out |-> OutputRates \cup {0, 11025}, derived |-> BOOLEAN, dsp |-> {0, 1, 2},
   finite |-> BOOLEAN]

\* A record with one field changed.
Changed(records, values) ==
  UNION {{[r EXCEPT ![f] = v] : v \in values[f]} : r \in records, f \in DOMAIN values}

Mode1 == [Upload EXCEPT !.dsp = 1, !.out = 96000]
\* Half a frame more than the longest track.
Torn == [Upload EXCEPT !.bytes = 164, !.rate = 96000, !.in = "f32le"]
Settings == [format : {"flac", "mp3", "pcm32"}, rate : {44100, 48000}]
Flac == [format |-> "flac", rate |-> 44100]
Presets == {<<3>>, <<3, 3>>, <<4, 2>>}

Asks(uploads, settings, chunks, overlaps) ==
  [requests : uploads, defaults : settings, chunk : chunks, overlap : overlaps]

\* Tracks of every small length under every preset and overlap.
Tracks ==
  Asks({<<[Upload EXCEPT !.bytes = 4 * n]>> : n \in 1 .. 9}, {Flac},
       {<<c>> : c \in 1 .. 5} \cup {<<c, d>> : c, d \in 1 .. 5}, {-60, 0, 25, 50, 80, 100})

\* Requests that differ from a plain one in up to two fields.
Requests ==
  Asks({<<r>> : r \in Changed(Changed({Upload}, Values), Values)}, {Flac}, {<<3>>}, {25})
  \cup Asks({<<r>> : r \in Changed({Upload, Mode1}, Values)}, Settings, Presets, {25})
  \cup Asks({<<Torn>>}, {Flac}, {<<3>>}, {25})

\* A second one that differs from the first in at most one.
Seconds ==
  Asks(UNION {{<<r, s>> : s \in Changed({r}, Values)} :
                r \in {Upload, Mode1, [Upload EXCEPT !.derived = TRUE, !.out = 48000]}},
       {Flac}, {<<4, 2>>}, {25})

Packet(kind, samples) == [kind |-> kind, samples |-> samples]
Song ==
  [packets |-> <<Packet("audio", 8), Packet("audio", 4)>>, channels |-> 2, declared |-> 44100,
   rate |-> 44100, edits |-> <<>>]
Files ==
  Changed({Song},
    [packets  |-> {<<>>, <<Packet("other", 4), Packet("audio", 6), Packet("corrupt", 0)>>,
                   <<Packet("audio", 5)>>, <<Packet("audio", 20)>>, <<Packet("audio", 40)>>,
                   <<Packet("audio", 8), Packet("broken", 0)>>},
     channels |-> {1, 6}, declared |-> {0, 48000, 96000, 192000}, rate |-> {48000},
     edits    |-> {<<[count |-> 0, time |-> 9], [count |-> 1, time |-> 2]>>,
                   <<[count |-> 1, time |-> 9]>>, <<[count |-> 2, time |-> -1]>>}])
Plain == [host |-> TRUE, rate |-> 0, f32 |-> FALSE, derived |-> FALSE, dsp |-> -1,
          wav_f32 |-> FALSE, older |-> FALSE]
Options ==
  [host |-> BOOLEAN, rate |-> {44100, 48000, 96000, 11025}, f32 |-> BOOLEAN, derived |-> BOOLEAN,
   dsp |-> {0, 1, 7}, wav_f32 |-> BOOLEAN, older |-> BOOLEAN]

Uses(files, arguments, settings) ==
  [requests : {<<>>}, file : files, args : arguments, defaults : settings,
   chunk : {<<3>>, <<4, 2>>}, overlap : {25}]
Clients ==
  Uses(Changed(Files, [declared |-> {44100, 96000, 192000}]), {Plain, [Plain EXCEPT !.f32 = TRUE]},
       {Flac})
  \cup Uses({Song, [Song EXCEPT !.declared = 48000], [Song EXCEPT !.declared = 96000]},
            Changed(Changed({Plain}, Options), Options), {Flac, [Flac EXCEPT !.rate = 48000]})

\* Two files of one title in a folder, one of no music, and no audio at all.
Window == Asks({<<>>}, {Flac}, {<<3>>}, {25})
InFolder(title, extension, f) ==
  [parent |-> "music", title |-> title, extension |-> extension, file |-> f]
MCSongs ==
  {InFolder("song", "wav", Song), InFolder("song", "mp3", Song),
   InFolder("silence", "wav", [Song EXCEPT !.packets = <<>>]), InFolder("notes", "txt", Song)}

MCLoud == <<{"vocals"}, {}>>

MCLengths  == 0 .. 20
MCChunks   == 1 .. 5
MCOverlaps == {-60, 0, 25, 50, 80, 100}
MCCases == Tracks \cup Requests \cup Seconds \cup Clients \cup Window
=============================================================================
