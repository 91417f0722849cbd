---------------------------- MODULE ProfileD185 ----------------------------
(***************************************************************************)
(* The binary profile of device property 0xD185.  A binary profile is a    *)
(* record: what its header is like, the processor code, the number of      *)
(* settings it announces (n_props) and the words that are really there,    *)
(* which a camera may cut short.  A header is "fine", "short" (the profile *)
(* ends before its words begin) or "no_code" (its text is no processor     *)
(* code).  The header's padding and the byte order are left out.           *)
(***************************************************************************)
EXTENDS ProfileTables, Sequences

\* enum D185Props, in its order: word i of the profile is D185Props[i + 1].
D185Props ==
    <<"ShootingCondition", "FileType", "ImageSize", "ImageQuality",
      "ExposureBias", "DynamicRange", "WideDRange", "FilmSimulation",
      "GRAIN_EFFECT_AND_SIZE", "ChromeEffect", "WBShootCond", "WhiteBalance",
      "WBShiftR", "WBShiftB", "WBColorTemp", "HighlightTone", "ShadowTone",
      "Color", "Sharpness", "NoisReduction", "LensModulationOpt",
      "ColorSpace", "BlackImageTone", "UNKNOWN_24", "ColorChromeBlue",
      "MonochromaticColor_RG", "Clarity", "UNKNOWN_28", "UNKNOWN_29">>

Words == 1 .. 29
Unknown == {"UNKNOWN_24", "UNKNOWN_28", "UNKNOWN_29"}
FP_GRAIN_STRONG == 3
FP_GRAIN_SIZE_LARGE == 2

\* The result code, and what *output holds afterwards: a zero that the table
\* does not list is accepted, and leaves *output as it was.
copy_value_if_valid(value, output, tbl) ==
    CASE value \in Values(tbl) -> [rc |-> 0, out |-> value]
      [] value \notin Values(tbl) /\ value = 0 -> [rc |-> 0, out |-> output]
      [] OTHER -> [rc |-> -1, out |-> output]

\* Mutant: SMALL is 1 too, and is taken off as well.
GrainOfEither(value) == IF value > 1 THEN value - FP_GRAIN_SIZE_LARGE ELSE value

\* A grain above STRONG carries LARGE.  Values are unsigned, so a negative one
\* is above STRONG as well.
GrainOf(value) ==
    IF value > FP_GRAIN_STRONG \/ value < 0 THEN value - FP_GRAIN_SIZE_LARGE
                                            ELSE value

\* One word of a binary profile, stored in the profile fp.
parse_d185_prop(fp, idx, value) ==
    LET name == D185Props[idx]
        set(f, v) == copy_value_if_valid(v, fp[f], Table(fp)[f])
        grain == set("GrainEffect", GrainOf(value))
        size == set("GrainEffectSize", value - GrainOf(value))
    IN CASE name \in Unknown -> [rc |-> 0, fp |-> fp]
         [] name = "GRAIN_EFFECT_AND_SIZE" ->
              [rc |-> IF grain.rc = 0 THEN size.rc ELSE -1,
               fp |-> [fp EXCEPT !.GrainEffect = grain.out,
                                 !.GrainEffectSize =
                                    IF grain.rc = 0 THEN size.out ELSE @]]
         [] name = "WBShootCond" ->     \* assigned before it is checked
              [rc |-> set(name, value).rc, fp |-> [fp EXCEPT ![name] = value]]
         [] OTHER ->
              [rc |-> set(name, value).rc,
               fp |-> [fp EXCEPT ![name] = set(name, value).out]]

\* A word past the end of the data counts as zero.
WordOf(bin, i) == IF i <= Len(bin.words) THEN bin.words[i] ELSE 0

\* The settings that word i is stored in.
StoredIn(i) ==
    IF D185Props[i] = "GRAIN_EFFECT_AND_SIZE"
    THEN {"GrainEffect", "GrainEffectSize"} ELSE {D185Props[i]}

\* The words are stored one by one, up to and with the first that is in error.
\* No two words are stored in the same setting and none is checked against
\* another, so each one can be parsed into the profile of the beginning.
parse_words(bin) ==
    LET start == [ZeroProfile EXCEPT !.StructVer = 65536,
                                     !.IOPCode = bin.iop_code]
        parsed == [i \in Words |-> parse_d185_prop(start, i, WordOf(bin, i))]
        wrong == {i \in 1 .. bin.n_props : i \notin Words \/ parsed[i].rc # 0}
        read == {i \in Words : i <= bin.n_props /\ \A j \in wrong : i <= j}
        by(f) == {i \in read : f \in StoredIn(i)}
    IN [rc |-> IF wrong = {} THEN 0 ELSE -1,
        fp |-> [f \in Fields |-> IF by(f) = {} THEN start[f]
                                 ELSE parsed[CHOOSE i \in by(f) : TRUE].fp[f]]]

\* before is what *fp held: a short profile is not parsed at all, and without
\* a processor code no word is.
fp_parse_d185(bin, before) ==
    CASE bin.header = "short" -> [rc |-> -1, fp |-> before]
      [] bin.header = "no_code" ->
           [rc |-> -1, fp |-> [ZeroProfile EXCEPT !.StructVer = 65536]]
      [] OTHER -> parse_words(bin)

\* One word of a binary profile, taken from the profile fp.  value is what
\* the caller's uninitialised variable holds.
get_prop(fp, idx, value) ==
    LET name == D185Props[idx]
        get(f) == copy_value_if_valid(fp[f], value, Table(fp)[f])
        grain == get("GrainEffect")
        size == get("GrainEffectSize")
    IN CASE name \in Unknown -> [rc |-> 0, out |-> 0]
         [] name = "GRAIN_EFFECT_AND_SIZE" ->
              [rc |-> IF grain.rc = 0 /\ size.rc = 0 THEN 0 ELSE -1,
               out |-> grain.out + size.out]
         [] OTHER -> get(name)

\* The words that are packed from a zero their table does not list, so that
\* the variable's old content is packed instead.
Unset(fp) ==
    {i \in Words : /\ D185Props[i] \notin Unknown
                   /\ LET f == IF D185Props[i] = "GRAIN_EFFECT_AND_SIZE"
                               THEN "GrainEffect" ELSE D185Props[i]
                      IN fp[f] = 0 /\ 0 \notin Values(Table(fp)[f])}

Packable(fp) == \A i \in Words : get_prop(fp, i, 0).rc = 0

\* The packed profile, for the content stack[i] of the uninitialised variable
\* when word i is packed, or the error.
fp_create_d185(fp, stack) ==
    IF Packable(fp)
    THEN [rc |-> 629,
          bin |-> [header |-> "fine", iop_code |-> fp.IOPCode, n_props |-> 29,
                   words |-> [i \in Words |-> get_prop(fp, i, stack[i]).out]]]
    ELSE [rc |-> -1, bin |-> [header |-> "short", iop_code |-> 0,
                              n_props |-> 0, words |-> <<>>]]

\* The words this library knows: none is beyond the announced ones, and what
\* is there for a setting, zero if it is missing, is in the setting's table
\* for this processor.
Listed(bin) ==
    /\ bin.n_props \in 0 .. 29 /\ bin.words \in Seq(Int) /\ Len(bin.words) <= bin.n_props
    /\ \A i \in Words :
        \/ D185Props[i] \in Unknown
        \/ D185Props[i] = "GRAIN_EFFECT_AND_SIZE" /\ WordOf(bin, i) \in 1 .. 5
        \/ D185Props[i] = "ShootingCondition" /\ WordOf(bin, i) = 0
        \/ D185Props[i] # "GRAIN_EFFECT_AND_SIZE" /\ WordOf(bin, i)
                \in Values(Table([IOPCode |-> bin.iop_code])[D185Props[i]])

\* The answers it knows how to read; those of the test are.
Readable(bin) == bin.header = "fine" /\ Listed(bin)
=============================================================================
