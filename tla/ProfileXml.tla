----------------------------- MODULE ProfileXml -----------------------------
(***************************************************************************)
(* A profile file of X Raw Studio. The XML parser is not modelled: a file  *)
(* is the version in its root element and the sequence of the elements of  *)
(* its property group, each a pair of the element's name and its text. The *)
(* text of a self-closing element is NULL, and BadText stands for any text *)
(* that is in no table and spells no number.                               *)
(***************************************************************************)
EXTENDS ProfileTables, Sequences, SequencesExt

CONSTANTS NULL, BadText

validate_lookup(str, out, tbl) ==
    IF str \notin {NULL, BadText} /\ str \in DOMAIN tbl
    THEN [rc |-> 0, out |-> tbl[str]]
    ELSE [rc |-> -1, out |-> out]

\* strtoul: a text that is no number is 0.
strtoul(str) == IF str = BadText THEN 0 ELSE str

\* Elements that are accepted and do nothing.
Ignored == {"SerialNumber", "TetherRAWConditonCode", "SourceFileName",
            "Fileerror", "ShootingCondition"}

\* Elements whose text is looked up in the table of the field of that name.
LookedUp ==
    {"Editable", "StructVer", "FileType", "ImageSize", "ImageQuality",
     "ExposureBias", "ChromeEffect", "WhiteBalance", "WBColorTemp",
     "HighlightTone", "ShadowTone", "Color", "Sharpness", "NoisReduction",
     "Clarity", "FilmSimulation", "GrainEffect", "GrainEffectSize",
     "ColorSpace"}

\* The value of an empty element, where it has one.
WhenEmpty == [ColorChromeBlue |-> 0, HDR |-> 0, SmoothSkinEffect |-> 1,
              DigitalTeleConv |-> 1, PortraitEnhancer |-> 1]

\* Elements that hold a number, the field it is stored in and its range.
NumberField == [WBShiftR |-> "WBShiftR", WBShiftB |-> "WBShiftR",
                RotationAngle |-> "RotationAngle",
                DynamicRange |-> "DynamicRange", WideDRange |-> "WideDRange",
                BlackImageTone |-> "BlackImageTone",
                MonochromaticColor_RG |-> "MonochromaticColor_RG"]

InRange(key, n) ==
    CASE key \in {"WBShiftR", "WBShiftB"} -> n \in -10 .. 10
      [] key = "DynamicRange" -> n \in {100, 200, 400}
      [] key = "WideDRange" -> n \in 0 .. 100
      [] OTHER -> TRUE

\* One element, stored in the profile fp.
parse_xml_prop(fp, key, value) ==
    LET set(f, tbl) ==
            LET v == validate_lookup(value, fp[f], tbl)
            IN [rc |-> v.rc, fp |-> [fp EXCEPT ![f] = v.out]]
        bad == [rc |-> -1, fp |-> fp]
    IN CASE key \in Ignored -> [rc |-> 0, fp |-> fp]
         [] key \in DOMAIN WhenEmpty /\ value = NULL ->
              [rc |-> 0, fp |-> [fp EXCEPT ![key] = WhenEmpty[key]]]
         [] key = "PortraitEnhancer" /\ value # NULL -> [rc |-> 0, fp |-> fp]
         [] key \in {"ColorChromeBlue", "HDR", "DigitalTeleConv"}
              /\ value # NULL -> set(key, Table(fp)[key])
         [] key = "SmoothSkinEffect" /\ value # NULL ->
              set("WBShootCond", fp_on_off)
         [] key \in {"WBShootCond", "LensModulationOpt"} ->
              set("WBShootCond", fp_on_off)
         [] key \in LookedUp -> set(key, Table(fp)[key])
         [] key = "IOPCode" ->
              IF value \in {NULL, BadText} THEN bad
              ELSE [rc |-> 0, fp |-> [fp EXCEPT !.IOPCode = value]]
         [] key \in DOMAIN NumberField ->
              IF value = NULL THEN bad
              ELSE LET n == strtoul(value)
                       ok == InRange(key, n)
                       \* DynamicRange is stored before it is checked
                       f == NumberField[key]
                   IN [rc |-> IF ok THEN 0 ELSE -1,
                       fp |-> IF ok \/ key = "DynamicRange"
                              THEN [fp EXCEPT ![f] = n] ELSE fp]
         [] OTHER -> bad

\* The rules for settings that exclude each other.  800PLUS without P3 is an
\* error that ends it after the white balance.
sanitize_parsed_conv_profile(fp) ==
    LET asShot(p) == IF p.WBShootCond # 1 THEN p
                     ELSE [p EXCEPT !.WhiteBalance = 1, !.WBColorTemp = 0,
                                    !.WBShiftR = 0, !.WBShiftB = 0]
        hdr(p) == IF p.HDR = HDR800Plus THEN [p EXCEPT !.DynamicRange = 800]
                  ELSE IF p.HDR \in {200, 400, 800}
                  THEN [p EXCEPT !.DynamicRange = p.HDR] ELSE p
        tiff(p) == IF p.FileType \notin {9, 11} THEN p
                   ELSE [p EXCEPT !.ImageQuality = 0, !.ImageSize = 0]
        grain(p) == IF p.GrainEffect # 1 THEN p
                    ELSE [p EXCEPT !.GrainEffectSize = 0]
        color(p) ==
            [p EXCEPT
                !.Color = IF p.FilmSimulation \in Monochrome \cup {Sepia}
                          THEN 0 ELSE @,
                !.MonochromaticColor_RG =
                    IF p.FilmSimulation \in Monochrome THEN @ ELSE 0,
                !.BlackImageTone =
                    IF p.FilmSimulation \in Monochrome THEN @ ELSE 0]
    IN IF fp.HDR = HDR800Plus /\ fp.WideDRange # 3 THEN asShot(fp)
       ELSE color(grain(tiff(hdr(asShot(fp)))))

\* The result code of sanitize_parsed_conv_profile is not looked at.
fp_parse_fp1(file) ==
    LET parse(s, e) == IF s.rc # 0 \/ e[1] = "RejectedValue" THEN s
                       ELSE parse_xml_prop(s.fp, e[1], e[2])
        start == [rc |-> IF file.version \in {"1.10", "1.11", "1.12"}
                         THEN 0 ELSE -1,
                  fp |-> ZeroProfile]
        parsed == FoldLeft(parse, start, file.props)
    IN IF parsed.rc # 0 THEN parsed
       ELSE [rc |-> 0, fp |-> sanitize_parsed_conv_profile(parsed.fp)]
=============================================================================
