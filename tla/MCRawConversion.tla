-------------------------- MODULE MCRawConversion --------------------------
(* Profiles for model checking: what an X-H1 and an X-Pro3 answer (the files *)
(* of fp/d185, the first with a Sepia and with every combination of grain    *)
(* and size), one of a processor with half-step tones, and a user's file     *)
(* (fp/fp1/Day.FP1) with some of its settings replaced.                      *)
EXTENDS RawConversion

XH1 == [header |-> "fine", iop_code |-> -15559418, n_props |-> 23, words |->
    <<2, 7, 7, 2, 0, 100, 0, 1, 1, 1, 1, 0, 0, 0, 0, 0, 0, 0, -40, 32768, 2, 1>>]
XPro3 == [header |-> "fine", iop_code |-> -15362813, n_props |-> 29, words |->
    <<2, 7, 1, 2, 0, 200, 0, 11, 2, 2, 2, 32775, 0, 0, 2200, 0, -10, 10, 0,
      8192, 1, 1, 0, 1, 2, 0, -30>>]
HalfSteps == [XPro3 EXCEPT !.iop_code = -15231742, !.words[16] = 35,
                           !.words[17] = -15]
KnownProfiles ==
    {XPro3, HalfSteps, [XH1 EXCEPT !.words[7] = 1, !.words[8] = 10]}
        \cup {[XH1 EXCEPT !.words[9] = g] : g \in 1 .. 5}

\* The profiles satisfy the hypothesis under which the codec is proved.
ASSUME ProfilesAreReadable == \A b \in KnownProfiles : Readable(b)

\* With one that is cut off, one without a processor code, and one with a word
\* that is in no table.
MCCameraProfiles ==
    KnownProfiles \cup {[XH1 EXCEPT !.header = h] : h \in {"short", "no_code"}}
                  \cup {[XPro3 EXCEPT !.words[4] = 99]}

\* An uninitialised profile, cut down to one word everywhere.
MCLeftovers == {[f \in Fields |-> g] : g \in Garbage}

Day == [version |-> "1.10", props |->
    <<<<"SerialNumber", NULL>>, <<"Editable", "True">>,
      <<"RotationAngle", 0>>, <<"StructVer", 65536>>, <<"IOPCode", -15362815>>,
      <<"ShootingCondition", "OFF">>, <<"FileType", "JPG">>,
      <<"ImageSize", "L3x2">>, <<"ImageQuality", "Fine">>,
      <<"ExposureBias", 0>>, <<"DynamicRange", 100>>, <<"WideDRange", 0>>,
      <<"FilmSimulation", "AcrosR">>, <<"BlackImageTone", 0>>,
      <<"MonochromaticColor_RG", 0>>, <<"GrainEffect", "OFF">>,
      <<"GrainEffectSize", "SMALL">>, <<"ChromeEffect", "OFF">>,
      <<"ColorChromeBlue", NULL>>, <<"SmoothSkinEffect", NULL>>,
      <<"WBShootCond", "ON">>, <<"WhiteBalance", "INVALID">>,
      <<"WBShiftR", 5>>, <<"WBShiftB", -6>>, <<"WBColorTemp", 0>>,
      <<"HighlightTone", -2>>, <<"ShadowTone", 4>>, <<"Color", 4>>,
      <<"Sharpness", 1>>, <<"NoisReduction", -1>>, <<"Clarity", 0>>,
      <<"LensModulationOpt", "ON">>, <<"ColorSpace", "sRGB">>,
      <<"HDR", NULL>>>>]

\* The file with the texts of some elements replaced.
Edited(texts) ==
    [Day EXCEPT !.props =
        [i \in DOMAIN Day.props |->
            IF Day.props[i][1] \in DOMAIN texts
            THEN <<Day.props[i][1], texts[Day.props[i][1]]>>
            ELSE Day.props[i]]]

MCUserFiles ==
    {Day, Edited([FileType |-> "TIF"]),
     Edited([LensModulationOpt |-> "OFF", WhiteBalance |-> "Daylight"]),
     Edited([LensModulationOpt |-> "OFF", WBShiftR |-> 0, WBShiftB |-> 0]),
     Edited([FilmSimulation |-> "Classic", GrainEffect |-> "STRONG",
             GrainEffectSize |-> "LARGE"]),
     Edited([HDR |-> 800]), Edited([Sharpness |-> BadText]),
     Edited([DynamicRange |-> 200, SmoothSkinEffect |-> "OFF"]),
     [Day EXCEPT !.version = "2.0"]}

\* A file that can be parsed names one of the camera's film simulations.
ASSUME FilesNameAFilm ==
    \A f \in MCUserFiles : fp_parse_fp1(f).rc = 0
        => fp_parse_fp1(f).fp["FilmSimulation"] \in Values(fp_film_sim)
=============================================================================
