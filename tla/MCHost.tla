------------------------------- MODULE MCHost -------------------------------
(* Two launches on one machine, in a plan for each thing that may go wrong. *)
EXTENDS HostProperties

CONSTANTS l1, l2

MCLaunches == {l1, l2}
MCPaths == {"settings.json", "htdemucs", "htdemucs_ft", "bs_polarformer",
            "mine (one)", "mine (two)", "cudnn.zip", "cudnn.dll"}

\* Two artefacts of the operator's that differ only past what an id has room for.
Chars(s) == CASE s = "htdemucs"       -> <<"h", "t", "d", "e", "m", "u", "c", "s">>
              [] s = "htdemucs_ft"    -> <<"h", "t", "d", "e", "m", "u", "c", "s", "_", "f", "t">>
              [] s = "bs_polarformer" -> <<"b", "s", "_", "p", "o", "l", "a", "r", "f", "o", "r", "m", "e", "r">>
              [] OTHER -> [i \in 1 .. 20 |-> IF i = 20 THEN s ELSE IF i = 3 THEN " " ELSE "m"]
MCSpelled == [s \in {"htdemucs", "htdemucs_ft", "bs_polarformer", "mine (one)", "mine (two)"} |-> Chars(s)]

Doc(model, format, rate) ==
  <<[model |-> model, output_format |-> format, output_sample_rate |-> rate]>>

Plain == [bind |-> 8420, install_cuda |-> FALSE, demucs_model |-> None, full_precision |-> FALSE,
          overlap |-> 25, output_format |-> None, output_sample_rate |-> None, cache_dir |-> "cache",
          instance |-> "stemd", no_mdns |-> TRUE, offline |-> FALSE, headless |-> FALSE]
Other == [Plain EXCEPT !.bind = 8421]
Both(a, b) == [l \in MCLaunches |-> IF l = l1 THEN a ELSE b]

NoFile == [f \in {"settings.json"} |-> None]
Ready == [f \in {"settings.json", "htdemucs", "htdemucs_ft", "bs_polarformer"} |->
            IF f = "settings.json" THEN None ELSE Whole(f)]

Quiet == [args |-> Both(Plain, Other), disk |-> Ready, local |-> {}, on |-> "metal",
          windows |-> FALSE, gpu_refused |-> FALSE, troubles |-> 0, ends |-> FALSE,
          formats |-> {}, rates |-> {}, presets |-> {},
          left |-> [changes |-> 0, switches |-> 0, jobs |-> 0]]

-----------------------------------------------------------------------------
(* The plans *)

\* Nothing installed and both launches fetch, or what is there has rotted.
Fetches ==
  {[Quiet EXCEPT !.args = Both(Plain, a), !.disk = d, !.troubles = 1] :
     a \in {[Other EXCEPT !.offline = o, !.demucs_model = m] :
              o \in BOOLEAN, m \in {None, "htdemucs_ft"}},
     d \in {NoFile, [Ready EXCEPT !["htdemucs"] = <<"htdemucs">>]}}

\* A saved preset of two files, either missing or rotten or both, or the
\* operator's own; downloads allowed or not.
Saved(model, format, rate) == "settings.json" :> Doc(model, format, rate) \o
                                 (IF model = "htdemucs" THEN <<>> ELSE Doc(model, format, rate))
Chained ==
  {[Quiet EXCEPT !.args = Both([Plain EXCEPT !.offline = o], [Other EXCEPT !.offline = o]),
                 !.disk = Saved("bs_polarformer", "mp3", 96000) @@ d,
                 !.local = own, !.troubles = 1] :
     o \in BOOLEAN,
     d \in {("bs_polarformer" :> Whole("bs_polarformer")),
             ("htdemucs_ft" :> <<"rot", "htdemucs_ft">>),
             [Ready EXCEPT !["htdemucs_ft"] = <<"rot", "htdemucs_ft">>]},
     own \in {{}, {"htdemucs"}}}

\* The window changes what the file says while a switch saves its own choice;
\* the process may die at any moment, and another launch reads what is left.
MCMenus ==
  {[Quiet EXCEPT !.args = Both([Plain EXCEPT !.output_format = f],
                               [Plain EXCEPT !.output_sample_rate = 96000, !.bind = b, !.headless = b = 8420]),
                 !.disk = d @@ Ready, !.troubles = IF b = 8420 THEN 1 ELSE 0,
                 !.formats = {"mp3"}, !.rates = {24000, 96000}, !.presets = {"Quality"},
                 !.left = [changes |-> IF b = 8420 THEN 2 ELSE 1, switches |-> 1, jobs |-> 0]] :
     f \in {None, "pcm32"}, b \in {8420, 8421},
     d \in {NoFile, Saved("hdemucs_mmi_mps", "mp3", 96000), "settings.json" :> Doc("bs_polarformer", "mp3", 96000)}}

\* Two servers of one name, on one port or two, each with a window and a signal.
Network ==
  {[Quiet EXCEPT !.args = Both([Plain EXCEPT !.no_mdns = FALSE],
                               [Plain EXCEPT !.no_mdns = FALSE, !.bind = b, !.headless = TRUE]),
                 !.windows = w, !.ends = TRUE, !.troubles = 1, !.left = [changes |-> 0, switches |-> 0, jobs |-> 1]] :
     b \in {8420, 8421}, w \in BOOLEAN}

\* The same model in two ways, and two models with names alike.
Alike ==
  {[Quiet EXCEPT !.args = Both([Plain EXCEPT !.demucs_model = m[1], !.full_precision = TRUE],
                               [Other EXCEPT !.demucs_model = m[2], !.overlap = o]),
                 !.on = on, !.local = {"mine (one)", "mine (two)"}] :
     m \in {<<"mine (one)", "mine (two)">>, <<"bs_polarformer", "bs_polarformer">>,
             <<"htdemucs_ft", "bs_polarformer">>, <<"htdemucs", "mine (one)">>},
     o \in {25, 50}, on \in {"cpu", "metal", "cuda"}}

\* The CUDA runtime is installed beside a server.
Installs ==
  {[Quiet EXCEPT !.args = Both(Plain, [Other EXCEPT !.install_cuda = TRUE]),
                 !.disk = Ready, !.gpu_refused = g, !.troubles = 2] : g \in BOOLEAN}

MCPlans == Fetches \cup Chained \cup MCMenus \cup Network \cup Alike \cup Installs
=============================================================================
