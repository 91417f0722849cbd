------------------------- MODULE ProfileD185_proofs -------------------------
(***************************************************************************)
(* Lemmas about single words of a binary profile, for every profile and    *)
(* every value, and what they say of a whole packed profile.               *)
(***************************************************************************)
EXTENDS ProfileD185, SequenceTheorems, TLAPS

\* The field that decides whether word i is packed from what was in memory.
FieldOf(i) == IF D185Props[i] = "GRAIN_EFFECT_AND_SIZE" THEN "GrainEffect"
                                                        ELSE D185Props[i]

(* A value that is accepted is one of the table, or a zero that it does not  *)
(* list, in which case the output is what it was.                            *)
LEMMA Accepted ==
    ASSUME NEW value, NEW output, NEW tbl, copy_value_if_valid(value, output, tbl).rc = 0
    PROVE  \/ value \in Values(tbl) /\ copy_value_if_valid(value, output, tbl).out = value
           \/ /\ value \notin Values(tbl) /\ value = 0
              /\ copy_value_if_valid(value, output, tbl).out = output
BY DEF copy_value_if_valid

\* The result code does not depend on what the output was.
LEMMA SameCode ==
    ASSUME NEW value, NEW o1, NEW o2, NEW tbl
    PROVE  copy_value_if_valid(value, o1, tbl).rc = copy_value_if_valid(value, o2, tbl).rc
BY DEF copy_value_if_valid

\* Nor does the value, unless the zero of an unlisted setting is packed.
LEMMA SameValue ==
    ASSUME NEW value, NEW o1, NEW o2, NEW tbl,
           copy_value_if_valid(value, o1, tbl).rc = 0,
           ~(value = 0 /\ 0 \notin Values(tbl))
    PROVE  copy_value_if_valid(value, o1, tbl).out = copy_value_if_valid(value, o2, tbl).out
BY DEF copy_value_if_valid

\* The table of the sizes has a zero (SMALL), so that only the effect of a
\* grain can leave the word as it was.
LEMMA SmallIsZero ==
    ASSUME NEW fp
    PROVE  /\ Values(Table(fp).GrainEffectSize) = {0, 2}
           /\ Values(Table(fp).GrainEffect) = {1, 2, 3}
<1>1. /\ Table(fp).GrainEffectSize = fp_grain_effect_size
      /\ Table(fp).GrainEffect = fp_grain_effect
  BY DEF Table
<1>2. Values(fp_grain_effect_size) = {0, 2}
  BY DEF Values, fp_grain_effect_size
<1>3. Values(fp_grain_effect) = {1, 2, 3}
  BY DEF Values, fp_grain_effect
<1> QED  BY <1>1, <1>2, <1>3

\* A word that is not in Unset is the same whatever the variable held.
LEMMA SetWord ==
    ASSUME NEW fp, NEW i \in Words, NEW s1, NEW s2, Packable(fp), i \notin Unset(fp)
    PROVE  get_prop(fp, i, s1).out = get_prop(fp, i, s2).out
<1>1. get_prop(fp, i, 0).rc = 0
  BY DEF Packable
<1>2. CASE D185Props[i] \in Unknown
  BY <1>2 DEF get_prop, Unknown
<1>3. CASE D185Props[i] = "GRAIN_EFFECT_AND_SIZE"
  <2>1. /\ copy_value_if_valid(fp.GrainEffect, 0, Table(fp).GrainEffect).rc = 0
        /\ copy_value_if_valid(fp.GrainEffectSize, 0, Table(fp).GrainEffectSize).rc = 0
    BY <1>1, <1>3 DEF get_prop, Unknown
  <2>2. ~(fp.GrainEffect = 0 /\ 0 \notin Values(Table(fp).GrainEffect))
    BY <1>3 DEF Unset, Unknown
  <2>3. ~(fp.GrainEffectSize = 0 /\ 0 \notin Values(Table(fp).GrainEffectSize))
    BY SmallIsZero
  <2> QED  BY <1>3, <2>1, <2>2, <2>3, SameCode, SameValue DEF get_prop, Unknown
<1>4. CASE D185Props[i] \notin Unknown \cup {"GRAIN_EFFECT_AND_SIZE"}
  <2> DEFINE f == D185Props[i]
  <2>1. copy_value_if_valid(fp[f], 0, Table(fp)[f]).rc = 0
    BY <1>1, <1>4 DEF get_prop
  <2>2. ~(fp[f] = 0 /\ 0 \notin Values(Table(fp)[f]))
    BY <1>4 DEF Unset
  <2> QED  BY <1>4, <2>1, <2>2, SameCode, SameValue DEF get_prop
<1> QED  BY <1>2, <1>3, <1>4

\* What a profile is packed to depends on uninitialised memory only in the
\* words that Unset names (fp_create_d185 and its get_prop).
THEOREM OnlyUnsetWordsVary ==
    ASSUME NEW fp, NEW s1, NEW s2, \A i \in Unset(fp) : s1[i] = s2[i]
    PROVE  fp_create_d185(fp, s1) = fp_create_d185(fp, s2)
<1>1. ASSUME Packable(fp), NEW i \in Words
      PROVE  get_prop(fp, i, s1[i]).out = get_prop(fp, i, s2[i]).out
  BY <1>1, SetWord
<1>2. CASE Packable(fp)
  BY <1>1, <1>2 DEF fp_create_d185
<1>3. CASE ~Packable(fp)
  BY <1>3 DEF fp_create_d185
<1> QED  BY <1>2, <1>3

\* The grain and its size share a word.  Every combination but OFF with LARGE,
\* which is the same number as STRONG with SMALL, can be told from it.
THEOREM GrainRoundTrip ==
    ASSUME NEW fp, NEW to, NEW i \in Words, NEW v,
           D185Props[i] = "GRAIN_EFFECT_AND_SIZE",
           fp.GrainEffect \in {1, 2, 3}, fp.GrainEffectSize \in {0, 2},
           ~(fp.GrainEffect = 1 /\ fp.GrainEffectSize = 2)
    PROVE  LET back == parse_d185_prop(to, i, get_prop(fp, i, v).out)
           IN  /\ back.rc = 0
               /\ back.fp = [to EXCEPT !.GrainEffect = fp.GrainEffect,
                                       !.GrainEffectSize = fp.GrainEffectSize]
<1> DEFINE word == fp.GrainEffect + fp.GrainEffectSize
<1>1. get_prop(fp, i, v).out = word
  BY SmallIsZero DEF get_prop, Unknown, copy_value_if_valid
<1>2. GrainOf(word) = fp.GrainEffect /\ word - GrainOf(word) = fp.GrainEffectSize
  BY DEF GrainOf, FP_GRAIN_STRONG, FP_GRAIN_SIZE_LARGE
<1>3. /\ copy_value_if_valid(fp.GrainEffect, to.GrainEffect, Table(to).GrainEffect)
            = [rc |-> 0, out |-> fp.GrainEffect]
      /\ copy_value_if_valid(fp.GrainEffectSize, to.GrainEffectSize,
                             Table(to).GrainEffectSize)
            = [rc |-> 0, out |-> fp.GrainEffectSize]
  BY SmallIsZero DEF copy_value_if_valid
<1> DEFINE grain == copy_value_if_valid(GrainOf(word), to.GrainEffect,
                                        Table(to).GrainEffect)
           size == copy_value_if_valid(word - GrainOf(word), to.GrainEffectSize,
                                       Table(to).GrainEffectSize)
<1>4. parse_d185_prop(to, i, word)
        = [rc |-> IF grain.rc = 0 THEN size.rc ELSE -1,
           fp |-> [to EXCEPT !.GrainEffect = grain.out,
                             !.GrainEffectSize = IF grain.rc = 0 THEN size.out ELSE @]]
  <2> HIDE DEF word
  <2> QED  BY DEF parse_d185_prop, Unknown
<1>5. grain.rc = 0 /\ grain.out = fp.GrainEffect
  BY <1>2, <1>3
<1>6. size.rc = 0 /\ size.out = fp.GrainEffectSize
  BY <1>2, <1>3
<1> HIDE DEF word, grain, size
<1> QED  BY <1>1, <1>4, <1>5, <1>6

\* A word of a listed setting of its own comes back from the binary profile,
\* into a profile for a camera with the same table.
THEOREM WordRoundTrip ==
    ASSUME NEW fp, NEW to, NEW i \in Words, NEW v,
           D185Props[i] \notin Unknown \cup {"GRAIN_EFFECT_AND_SIZE"},
           fp[D185Props[i]] \in Values(Table(fp)[D185Props[i]]),
           Table(to)[D185Props[i]] = Table(fp)[D185Props[i]]
    PROVE  LET back == parse_d185_prop(to, i, get_prop(fp, i, v).out)
           IN  /\ back.rc = 0
               /\ back.fp = [to EXCEPT ![D185Props[i]] = fp[D185Props[i]]]
<1> DEFINE f == D185Props[i]
<1>1. get_prop(fp, i, v).out = fp[f]
  BY DEF get_prop, copy_value_if_valid
<1>2. copy_value_if_valid(fp[f], to[f], Table(to)[f]) = [rc |-> 0, out |-> fp[f]]
  BY DEF copy_value_if_valid
<1> QED  BY <1>1, <1>2 DEF parse_d185_prop

-----------------------------------------------------------------------------
(* Whole profiles.                                                         *)

\* The settings that no word of a binary profile is stored in.
WithoutWord == {"StructVer", "Editable", "SmoothSkinEffect", "HDR", "DigitalTeleConv",
                "PortraitEnhancer", "IOPCode", "TetherRAWConditonCode", "RotationAngle"}
GrainSettings == {"GrainEffect", "GrainEffectSize"}

\* The settings that have a word of their own.
WithWord ==
    {"ShootingCondition", "FileType", "ImageSize", "ImageQuality", "ExposureBias",
     "DynamicRange", "WideDRange", "FilmSimulation", "ChromeEffect", "WBShootCond",
     "WhiteBalance", "WBShiftR", "WBShiftB", "WBColorTemp", "HighlightTone", "ShadowTone",
     "Color", "Sharpness", "NoisReduction", "LensModulationOpt", "ColorSpace",
     "BlackImageTone", "ColorChromeBlue", "MonochromaticColor_RG", "Clarity"}

LEMMA TableNames ==
    ASSUME NEW fp
    PROVE  DOMAIN Table(fp) = (WithWord \cup GrainSettings \cup WithoutWord)
                                \ {"IOPCode", "TetherRAWConditonCode", "RotationAngle"}
BY DEF Table, WithWord, GrainSettings, WithoutWord

LEMMA FieldNames == Fields = WithWord \cup GrainSettings \cup WithoutWord
BY TableNames DEF Fields, WithWord, GrainSettings, WithoutWord

\* A word is of an unknown setting, of the grain, or of a setting of its own.
LEMMA WordNames ==
    ASSUME NEW i \in Words
    PROVE  D185Props[i] \in Unknown \cup {"GRAIN_EFFECT_AND_SIZE"} \cup WithWord
BY DEF D185Props, Words, Unknown, WithWord

\* No two words have the same name.
LEMMA WordsAreApart ==
    ASSUME NEW i \in Words, NEW j \in Words, D185Props[i] = D185Props[j]
    PROVE  i = j
BY DEF D185Props, Words

LEMMA EverySettingHasAWord ==
    ASSUME NEW f \in WithWord \cup {"GRAIN_EFFECT_AND_SIZE"}
    PROVE  \E i \in Words : D185Props[i] = f
BY DEF D185Props, Words, WithWord

\* The tables depend on the processor only.
LEMMA SameTables ==
    ASSUME NEW fp, NEW gp, fp.IOPCode = gp.IOPCode
    PROVE  Table(fp) = Table(gp)
BY DEF Table, fp_get_highlight_tone, fp_get_shadow_tone

\* The profile at the beginning of parse_words.
Start(bin) == [ZeroProfile EXCEPT !.StructVer = 65536, !.IOPCode = bin.iop_code]

LEMMA StartValues ==
    ASSUME NEW bin
    PROVE  /\ Start(bin) = [f \in Fields |-> Start(bin)[f]]
           /\ Start(bin).IOPCode = bin.iop_code /\ Start(bin).StructVer = 65536
           /\ \A f \in Fields \ {"IOPCode", "StructVer"} : Start(bin)[f] = 0
<1>1. {"IOPCode", "StructVer"} \subseteq Fields
  BY FieldNames DEF WithoutWord
<1>2. PICK z, n, c : z = ZeroProfile /\ n = 65536 /\ c = bin.iop_code
  OBVIOUS
<1>3. z = [f \in Fields |-> z[f]] /\ \A f \in Fields : z[f] = 0
  BY <1>2 DEF ZeroProfile
<1>4. Start(bin) = [z EXCEPT !.StructVer = n, !.IOPCode = c]
  BY <1>2 DEF Start
<1>5. [z EXCEPT !.StructVer = n, !.IOPCode = c]
        = [f \in Fields |-> IF f = "IOPCode" THEN c ELSE IF f = "StructVer" THEN n ELSE 0]
  BY <1>1, <1>3
<1>6. Start(bin)
        = [f \in Fields |-> IF f = "IOPCode" THEN c ELSE IF f = "StructVer" THEN n ELSE 0]
  BY <1>4, <1>5
<1> QED  BY <1>1, <1>2, <1>6

\* When no word is in error, each setting is what its word says, and those
\* without a word are as at the beginning.
LEMMA ParsedProfile ==
    ASSUME NEW bin, bin.n_props \in 0 .. 29,
           \A i \in 1 .. bin.n_props :
                parse_d185_prop(Start(bin), i, WordOf(bin, i)).rc = 0
    PROVE  LET p == parse_words(bin)
           IN  /\ p = [rc |-> 0, fp |-> p.fp]
               /\ p.fp = [f \in Fields |-> p.fp[f]]
               /\ \A i \in 1 .. bin.n_props : \A f \in StoredIn(i) \cap Fields :
                    p.fp[f] = parse_d185_prop(Start(bin), i, WordOf(bin, i)).fp[f]
               /\ \A f \in Fields :
                    (\A i \in 1 .. bin.n_props : f \notin StoredIn(i))
                        => p.fp[f] = Start(bin)[f]
<1> DEFINE start == Start(bin)
           parsed == [i \in Words |-> parse_d185_prop(start, i, WordOf(bin, i))]
           wrong == {i \in 1 .. bin.n_props : i \notin Words \/ parsed[i].rc # 0}
           read == {i \in Words : i <= bin.n_props /\ \A j \in wrong : i <= j}
           by(f) == {i \in read : f \in StoredIn(i)}
           fp == [f \in Fields |-> IF by(f) = {} THEN start[f]
                                   ELSE parsed[CHOOSE i \in by(f) : TRUE].fp[f]]
<1>1. parse_words(bin) = [rc |-> IF wrong = {} THEN 0 ELSE -1, fp |-> fp]
  BY DEF parse_words, Start
<1>2. 1 .. bin.n_props \subseteq Words
  BY DEF Words
<1>3. wrong = {}
  BY <1>2
<1>4. read = 1 .. bin.n_props
  BY <1>2, <1>3 DEF Words
<1>5. ASSUME NEW i \in 1 .. bin.n_props, NEW f \in StoredIn(i)
      PROVE  by(f) = {i}
  <2>1. i \in by(f)
    BY <1>4
  <2>2. ASSUME NEW j \in by(f) PROVE j = i
    <3>1. i \in Words /\ j \in Words /\ f \in StoredIn(j)
      BY <1>2, <1>4
    <3>2. D185Props[i] = D185Props[j]
      BY <3>1, WordNames DEF StoredIn, WithWord, Unknown
    <3> QED  BY <3>1, <3>2, WordsAreApart
  <2> QED  BY <2>1, <2>2
<1>6. ASSUME NEW i \in 1 .. bin.n_props, NEW f \in StoredIn(i) \cap Fields
      PROVE  fp[f] = parse_d185_prop(start, i, WordOf(bin, i)).fp[f]
  <2> HIDE DEF by, parsed
  <2>1. by(f) = {i}
    BY <1>5
  <2>2. (CHOOSE k \in by(f) : TRUE) = i
    BY <2>1
  <2>3. fp[f] = parsed[i].fp[f]
    BY <2>1, <2>2
  <2>4. parsed[i] = parse_d185_prop(start, i, WordOf(bin, i))
    BY <1>2 DEF parsed
  <2> QED  BY <2>3, <2>4
<1>7. ASSUME NEW f \in Fields, \A i \in 1 .. bin.n_props : f \notin StoredIn(i)
      PROVE  fp[f] = start[f]
  <2>1. by(f) = {}
    BY <1>4, <1>7
  <2> HIDE DEF by
  <2> QED  BY <2>1
<1>8. fp = [f \in Fields |-> fp[f]]
  OBVIOUS
<1> HIDE DEF fp, wrong, start
<1>9. parse_words(bin) = [rc |-> 0, fp |-> fp]
  BY <1>1, <1>3
<1> QED  BY <1>6, <1>7, <1>8, <1>9 DEF start

\* What word i says of its setting, for a listed word.
LEMMA ListedWord ==
    ASSUME NEW bin, Listed(bin), NEW i \in Words
    PROVE  LET v == WordOf(bin, i)
               p == parse_d185_prop(Start(bin), i, v)
           IN  /\ p.rc = 0
               /\ D185Props[i] \in WithWord => p.fp[D185Props[i]] = v
               /\ D185Props[i] = "GRAIN_EFFECT_AND_SIZE" =>
                    /\ p.fp.GrainEffect = GrainOf(v)
                    /\ p.fp.GrainEffectSize = v - GrainOf(v)
<1> DEFINE name == D185Props[i]
           v == WordOf(bin, i)
           tables == Table(Start(bin))
<1>1. tables = Table([IOPCode |-> bin.iop_code])
  BY StartValues, SameTables
<1>2. Start(bin) = [f \in Fields |-> Start(bin)[f]]
  BY StartValues
<1>3. CASE name \in Unknown
  BY <1>3 DEF parse_d185_prop, Unknown, WithWord
<1>4. CASE name = "GRAIN_EFFECT_AND_SIZE"
  <2>1. v \in 1 .. 5
    BY <1>4 DEF Listed, Unknown
  <2>2. GrainOf(v) \in {1, 2, 3} /\ v - GrainOf(v) \in {0, 2}
    BY <2>1 DEF GrainOf, FP_GRAIN_STRONG, FP_GRAIN_SIZE_LARGE
  <2> DEFINE grain == copy_value_if_valid(GrainOf(v), Start(bin).GrainEffect,
                                          tables.GrainEffect)
             size == copy_value_if_valid(v - GrainOf(v), Start(bin).GrainEffectSize,
                                         tables.GrainEffectSize)
  <2>3. grain = [rc |-> 0, out |-> GrainOf(v)] /\ size = [rc |-> 0, out |-> v - GrainOf(v)]
    BY <2>2, SmallIsZero DEF copy_value_if_valid
  <2>4. parse_d185_prop(Start(bin), i, v)
          = [rc |-> IF grain.rc = 0 THEN size.rc ELSE -1,
             fp |-> [Start(bin) EXCEPT !.GrainEffect = grain.out,
                                       !.GrainEffectSize =
                                            IF grain.rc = 0 THEN size.out ELSE @]]
    <3> HIDE DEF v
    <3> QED  BY <1>4 DEF parse_d185_prop, Unknown
  <2> HIDE DEF grain, size
  <2>5. "GrainEffect" \in Fields /\ "GrainEffectSize" \in Fields
    BY FieldNames DEF GrainSettings
  <2>6. PICK z, g, s : z = Start(bin) /\ g = GrainOf(v) /\ s = v - GrainOf(v)
    OBVIOUS
  <2>7. PICK new : new = [z EXCEPT !.GrainEffect = g, !.GrainEffectSize = s]
    OBVIOUS
  <2>8. parse_d185_prop(Start(bin), i, v) = [rc |-> 0, fp |-> new]
    BY <2>3, <2>4, <2>6, <2>7
  <2>9. new.GrainEffect = g /\ new.GrainEffectSize = s
    BY <1>2, <2>5, <2>6, <2>7
  <2>10. name \notin WithWord
    BY <1>4 DEF WithWord
  <2> QED  BY <1>4, <2>6, <2>8, <2>9, <2>10
<1>5. CASE name \in WithWord
  <2>1. \/ v \in Values(tables[name])
        \/ v = 0
    BY <1>1, <1>5 DEF Listed, WithWord, Unknown
  <2>2. name \in Fields /\ Start(bin)[name] = 0
    BY <1>5, FieldNames, StartValues DEF WithWord
  <2>3. copy_value_if_valid(v, Start(bin)[name], tables[name]) = [rc |-> 0, out |-> v]
    BY <2>1, <2>2 DEF copy_value_if_valid
  <2>4. parse_d185_prop(Start(bin), i, v)
          = [rc |-> 0, fp |-> [Start(bin) EXCEPT ![name] = v]]
    BY <1>5, <2>3 DEF parse_d185_prop, WithWord, Unknown
  <2> HIDE DEF name
  <2> QED  BY <1>2, <1>5, <2>2, <2>4 DEF WithWord, name
<1> QED  BY <1>3, <1>4, <1>5, WordNames

LEMMA ListedShape ==
    ASSUME NEW bin, Listed(bin)
    PROVE  /\ bin.n_props \in 0 .. 29 /\ 1 .. bin.n_props \subseteq Words
           /\ bin.words \in Seq(Int) /\ Len(bin.words) \in Nat
           /\ Len(bin.words) <= bin.n_props
<1>1. /\ bin.n_props \in 0 .. 29
      /\ bin.words \in Seq(Int) /\ Len(bin.words) <= bin.n_props
  BY Zenon DEF Listed
<1>2. PICK n, s : n = bin.n_props /\ s = bin.words
  OBVIOUS
<1>3. n \in 0 .. 29 /\ s \in Seq(Int) /\ Len(s) <= n
  BY <1>1, <1>2
<1>4. Len(s) \in Nat
  BY <1>3, LenProperties
<1>5. 1 .. n \subseteq Words
  BY <1>3 DEF Words
<1> QED  BY <1>2, <1>3, <1>4, <1>5

\* A word of a listed profile is a number, and zero past the announced ones.
LEMMA ListedNumber ==
    ASSUME NEW bin, Listed(bin), NEW i \in Words
    PROVE  /\ WordOf(bin, i) \in Int
           /\ i > bin.n_props => WordOf(bin, i) = 0
<1>1. i \in Nat /\ i >= 1
  BY DEF Words
<1>2. CASE i <= Len(bin.words)
  <2>1. bin.words \in Seq(Int) /\ i \in 1 .. Len(bin.words)
    BY <1>1, <1>2, ListedShape
  <2>2. bin.words[i] \in Int
    BY <2>1, ElementOfSeq
  <2>3. WordOf(bin, i) = bin.words[i]
    BY <1>2 DEF WordOf
  <2>4. PICK n, l : n = bin.n_props /\ l = Len(bin.words)
    OBVIOUS
  <2>5. n \in 0 .. 29 /\ l \in Nat /\ l <= n /\ i <= l
    BY <1>2, <2>4, ListedShape
  <2>6. ~(i > n)
    BY <1>1, <2>5
  <2> QED  BY <2>2, <2>3, <2>4, <2>6
<1>3. CASE ~(i <= Len(bin.words))
  BY <1>3, ListedShape DEF WordOf
<1> QED  BY <1>1, <1>2, <1>3, ListedShape

\* A listed profile is parsed to its words, setting by setting.
LEMMA ListedProfile ==
    ASSUME NEW bin, Listed(bin)
    PROVE  LET p == parse_words(bin)
           IN  /\ p = [rc |-> 0, fp |-> p.fp]
               /\ p.fp = [f \in Fields |-> p.fp[f]]
               /\ \A i \in Words :
                    /\ D185Props[i] \in WithWord => p.fp[D185Props[i]] = WordOf(bin, i)
                    /\ D185Props[i] = "GRAIN_EFFECT_AND_SIZE" =>
                        /\ p.fp["GrainEffect"] = GrainOf(WordOf(bin, i))
                        /\ p.fp["GrainEffectSize"] = WordOf(bin, i) - GrainOf(WordOf(bin, i))
               /\ \A f \in WithoutWord : p.fp[f] = Start(bin)[f]
<1> DEFINE p == parse_words(bin)
           word(i) == parse_d185_prop(Start(bin), i, WordOf(bin, i))
<1>1. bin.n_props \in 0 .. 29 /\ 1 .. bin.n_props \subseteq Words
  BY ListedShape
<1>2. \A i \in 1 .. bin.n_props : word(i).rc = 0
  BY <1>1, ListedWord
<1>3. /\ p = [rc |-> 0, fp |-> p.fp]
      /\ p.fp = [f \in Fields |-> p.fp[f]]
      /\ \A i \in 1 .. bin.n_props : \A f \in StoredIn(i) \cap Fields : p.fp[f] = word(i).fp[f]
      /\ \A f \in Fields : (\A i \in 1 .. bin.n_props : f \notin StoredIn(i))
                              => p.fp[f] = Start(bin)[f]
  BY <1>1, <1>2, ParsedProfile
<1> HIDE DEF p
<1>4. ASSUME NEW i \in Words, D185Props[i] \in WithWord
      PROVE  p.fp[D185Props[i]] = WordOf(bin, i)
  <2> DEFINE f == D185Props[i]
  <2>1. f \in Fields
    BY <1>4, FieldNames
  <2>2. f \in StoredIn(i)
    BY <1>4 DEF StoredIn, WithWord
  <2>3. CASE i <= bin.n_props
    <3>1. i \in 1 .. bin.n_props
      BY <1>1, <2>3 DEF Words
    <3>2. p.fp[f] = word(i).fp[f]
      BY <1>3, <2>1, <2>2, <3>1
    <3> QED  BY <1>4, <3>2, ListedWord
  <2>4. CASE i > bin.n_props
    <3>1. ASSUME NEW j \in 1 .. bin.n_props, f \in StoredIn(j)
          PROVE  FALSE
      <4>1. j \in Words /\ i # j
        BY <1>1, <2>4 DEF Words
      <4>2. f = D185Props[j]
        BY <1>4, <3>1 DEF StoredIn, WithWord
      <4> QED  BY <4>1, <4>2, WordsAreApart
    <3>2. p.fp[f] = Start(bin)[f]
      BY <1>3, <2>1, <3>1
    <3>3. Start(bin)[f] = 0
      BY <1>4, <2>1, StartValues DEF WithWord
    <3> QED  BY <2>4, <3>2, <3>3, ListedNumber
  <2> QED  BY <1>1, <2>3, <2>4 DEF Words
<1>5. ASSUME NEW i \in Words, D185Props[i] = "GRAIN_EFFECT_AND_SIZE"
      PROVE  /\ p.fp["GrainEffect"] = GrainOf(WordOf(bin, i))
             /\ p.fp["GrainEffectSize"] = WordOf(bin, i) - GrainOf(WordOf(bin, i))
  <2>1. WordOf(bin, i) \in 1 .. 5
    BY <1>5 DEF Listed, Unknown
  <2>2. i \in 1 .. bin.n_props
    BY <1>1, <2>1, ListedNumber DEF Words
  <2>3. {"GrainEffect", "GrainEffectSize"} \subseteq StoredIn(i) \cap Fields
    BY <1>5, FieldNames DEF StoredIn, GrainSettings
  <2>4. /\ p.fp["GrainEffect"] = word(i).fp["GrainEffect"]
        /\ p.fp["GrainEffectSize"] = word(i).fp["GrainEffectSize"]
    BY <1>3, <2>2, <2>3
  <2>5. /\ word(i).fp.GrainEffect = GrainOf(WordOf(bin, i))
        /\ word(i).fp.GrainEffectSize = WordOf(bin, i) - GrainOf(WordOf(bin, i))
    BY <1>5, ListedWord
  <2> QED  BY <2>4, <2>5
<1>6. ASSUME NEW f \in WithoutWord PROVE p.fp[f] = Start(bin)[f]
  <2>1. f \in Fields
    BY FieldNames
  <2>2. \A i \in Words : f \notin StoredIn(i)
    BY WordNames DEF StoredIn, WithoutWord, WithWord, Unknown
  <2> QED  BY <1>1, <1>3, <2>1, <2>2
<1> QED  BY <1>3, <1>4, <1>5, <1>6 DEF p

\* The processor of a parsed profile is the camera's.
LEMMA ParsedProcessor ==
    ASSUME NEW bin, Listed(bin)
    PROVE  parse_words(bin).fp.IOPCode = bin.iop_code
<1>1. "IOPCode" \in WithoutWord
  BY DEF WithoutWord
<1>2. parse_words(bin).fp["IOPCode"] = Start(bin)["IOPCode"]
  BY <1>1, ListedProfile
<1> QED  BY <1>2, StartValues

\* A listed profile is packed to the words it was parsed from.
LEMMA PackedWord ==
    ASSUME NEW bin, Listed(bin), NEW i \in Words
    PROVE  LET w == get_prop(parse_words(bin).fp, i, 0)
           IN  /\ w.rc = 0
               /\ w.out = IF D185Props[i] \in Unknown THEN 0 ELSE WordOf(bin, i)
<1> DEFINE name == D185Props[i]
<1>1. PICK fp, v : fp = parse_words(bin).fp /\ v = WordOf(bin, i)
  OBVIOUS
<1>2. Table(fp) = Table([IOPCode |-> bin.iop_code])
  <2>1. fp.IOPCode = bin.iop_code
    BY <1>1, ParsedProcessor
  <2> QED  BY <2>1, SameTables
<1>3. CASE name \in Unknown
  <2>1. get_prop(fp, i, 0) = [rc |-> 0, out |-> 0]
    BY <1>3 DEF get_prop, Unknown
  <2> QED  BY <1>1, <1>3, <2>1
<1>4. CASE name = "GRAIN_EFFECT_AND_SIZE"
  <2>1. v \in 1 .. 5
    BY <1>1, <1>4 DEF Listed, Unknown
  <2>2. fp.GrainEffect = GrainOf(v) /\ fp.GrainEffectSize = v - GrainOf(v)
    BY <1>1, <1>4, ListedProfile
  <2>3. /\ GrainOf(v) \in {1, 2, 3} /\ v - GrainOf(v) \in {0, 2}
        /\ GrainOf(v) + (v - GrainOf(v)) = v
    BY <2>1 DEF GrainOf, FP_GRAIN_STRONG, FP_GRAIN_SIZE_LARGE
  <2>4. /\ copy_value_if_valid(fp.GrainEffect, 0, Table(fp).GrainEffect)
              = [rc |-> 0, out |-> GrainOf(v)]
        /\ copy_value_if_valid(fp.GrainEffectSize, 0, Table(fp).GrainEffectSize)
              = [rc |-> 0, out |-> v - GrainOf(v)]
    BY <2>2, <2>3, SmallIsZero DEF copy_value_if_valid
  <2>5. get_prop(fp, i, 0) = [rc |-> 0, out |-> GrainOf(v) + (v - GrainOf(v))]
    BY <1>4, <2>4 DEF get_prop, Unknown
  <2> QED  BY <1>1, <1>4, <2>3, <2>5 DEF Unknown
<1>5. CASE name \in WithWord
  <2>1. v \in Values(Table(fp)[name]) \/ v = 0
    BY <1>1, <1>2, <1>5 DEF Listed, WithWord, Unknown
  <2>2. fp[name] = v
    BY <1>1, <1>5, ListedProfile
  <2>3. copy_value_if_valid(fp[name], 0, Table(fp)[name]) = [rc |-> 0, out |-> v]
    BY <2>1, <2>2 DEF copy_value_if_valid
  <2>4. get_prop(fp, i, 0) = copy_value_if_valid(fp[name], 0, Table(fp)[name])
    BY <1>5 DEF get_prop, WithWord, Unknown
  <2> QED  BY <1>1, <1>5, <2>3, <2>4 DEF WithWord, Unknown
<1> QED  BY <1>3, <1>4, <1>5, WordNames

\* What a listed profile is packed to, and that it is listed again.
LEMMA PackedProfile ==
    ASSUME NEW bin, Listed(bin)
    PROVE  LET out == fp_create_d185(parse_words(bin).fp, [i \in Words |-> 0])
           IN  /\ out.rc = 629
               /\ out.bin.iop_code = bin.iop_code
               /\ \A i \in Words \ {j \in Words : D185Props[j] \in Unknown} :
                    /\ WordOf(out.bin, i) = WordOf(bin, i)
                    /\ out.bin.words[i] = WordOf(bin, i)
               /\ Listed(out.bin)
<1>1. PICK fp : fp = parse_words(bin).fp
  OBVIOUS
<1> DEFINE zeros == [i \in Words |-> 0]
           word(i) == IF D185Props[i] \in Unknown THEN 0 ELSE WordOf(bin, i)
           words == [i \in Words |-> word(i)]
           packed == [header |-> "fine", iop_code |-> bin.iop_code, n_props |-> 29, words |-> words]
<1>2. Packable(fp)
  BY <1>1, PackedWord DEF Packable
<1>3. fp.IOPCode = bin.iop_code
  BY <1>1, ParsedProcessor
<1>4. [i \in Words |-> get_prop(fp, i, zeros[i]).out] = words
  <2> SUFFICES ASSUME NEW i \in Words PROVE get_prop(fp, i, zeros[i]).out = word(i)
    OBVIOUS
  <2>1. zeros[i] = 0
    OBVIOUS
  <2>2. get_prop(fp, i, 0).out = word(i)
    BY <1>1, PackedWord
  <2> HIDE DEF zeros, word
  <2> QED  BY <2>1, <2>2
<1>5. fp_create_d185(fp, zeros) = [rc |-> 629, bin |-> packed]
  <2> HIDE DEF zeros, words
  <2> QED  BY <1>2, <1>3, <1>4 DEF fp_create_d185
<1>6. words \in Seq(Int) /\ Len(words) = 29
  <2>1. \A i \in Words : word(i) \in Int
    BY ListedNumber
  <2> HIDE DEF word
  <2> QED  BY <2>1 DEF Words
<1>7. \A i \in Words : WordOf(packed, i) = words[i]
  <2>1. packed.words = words
    OBVIOUS
  <2> HIDE DEF packed, words
  <2>2. Len(packed.words) = 29
    BY <1>6, <2>1
  <2>3. \A i \in Words : i <= 29
    BY DEF Words
  <2>4. \A i \in Words : WordOf(packed, i) = packed.words[i]
    BY <2>2, <2>3 DEF WordOf
  <2> QED  BY <2>1, <2>4
<1>8. ASSUME NEW i \in Words, D185Props[i] \notin Unknown
      PROVE  WordOf(packed, i) = WordOf(bin, i) /\ words[i] = WordOf(bin, i)
  BY <1>7, <1>8
<1>9. Listed(packed)
  <2>1. packed.n_props = 29 /\ packed.words = words /\ packed.iop_code = bin.iop_code
    OBVIOUS
  <2> HIDE DEF packed, words
  <2>2. /\ packed.n_props \in 0 .. 29 /\ packed.words \in Seq(Int)
        /\ Len(packed.words) <= packed.n_props
    <3>1. 29 \in 0 .. 29 /\ 29 <= 29
      OBVIOUS
    <3> QED  BY <1>6, <2>1, <3>1
  <2>3. ASSUME NEW i \in Words
        PROVE  \/ D185Props[i] \in Unknown
               \/ D185Props[i] = "GRAIN_EFFECT_AND_SIZE" /\ WordOf(packed, i) \in 1 .. 5
               \/ D185Props[i] = "ShootingCondition" /\ WordOf(packed, i) = 0
               \/ D185Props[i] # "GRAIN_EFFECT_AND_SIZE" /\ WordOf(packed, i)
                    \in Values(Table([IOPCode |-> packed.iop_code])[D185Props[i]])
    <3>1. CASE D185Props[i] \in Unknown
      BY <3>1
    <3>2. CASE D185Props[i] \notin Unknown
      <4>1. WordOf(packed, i) = WordOf(bin, i)
        BY <1>8, <3>2
      <4>2. \/ D185Props[i] = "GRAIN_EFFECT_AND_SIZE" /\ WordOf(bin, i) \in 1 .. 5
            \/ D185Props[i] = "ShootingCondition" /\ WordOf(bin, i) = 0
            \/ D185Props[i] # "GRAIN_EFFECT_AND_SIZE" /\ WordOf(bin, i)
                  \in Values(Table([IOPCode |-> bin.iop_code])[D185Props[i]])
        BY <3>2 DEF Listed
      <4> QED  BY <2>1, <4>1, <4>2
    <3> QED  BY <3>1, <3>2
  <2> QED  BY <2>2, <2>3 DEF Listed
<1> QED
  <2>1. PICK out : out = fp_create_d185(parse_words(bin).fp, zeros)
    OBVIOUS
  <2>2. out.rc = 629 /\ out.bin = packed
    BY <1>1, <1>5, <2>1
  <2>3. packed.iop_code = bin.iop_code /\ packed.words = words
    OBVIOUS
  <2> HIDE DEF packed, words
  <2> QED  BY <1>8, <1>9, <2>1, <2>2, <2>3

\* The words of a listed profile survive being parsed and packed.
LEMMA WordsRoundTrip ==
    ASSUME NEW bin, Listed(bin)
    PROVE  LET in == parse_words(bin)
               out == fp_create_d185(in.fp, [i \in Words |-> 0])
           IN  /\ in.rc = 0 /\ out.rc > 0
               /\ \A i \in 1 .. bin.n_props :
                    D185Props[i] \in Unknown \/ out.bin.words[i] = WordOf(bin, i)
               /\ parse_words(out.bin) = in
               /\ fp_dump_struct(in.fp) = 0
<1>1. PICK in, out : /\ in = parse_words(bin)
                     /\ out = fp_create_d185(in.fp, [i \in Words |-> 0])
  OBVIOUS
<1>2. /\ out.rc = 629 /\ Listed(out.bin) /\ out.bin.iop_code = bin.iop_code
      /\ \A i \in Words : D185Props[i] \notin Unknown =>
            /\ WordOf(out.bin, i) = WordOf(bin, i)
            /\ out.bin.words[i] = WordOf(bin, i)
  BY <1>1, PackedProfile
<1>3. in = [rc |-> 0, fp |-> in.fp] /\ in.fp = [f \in Fields |-> in.fp[f]]
  BY <1>1, ListedProfile
<1>4. ASSUME NEW i \in 1 .. bin.n_props
      PROVE  D185Props[i] \in Unknown \/ out.bin.words[i] = WordOf(bin, i)
  BY <1>2, ListedShape
<1>5. parse_words(out.bin) = in
  <2>1. PICK p : p = parse_words(out.bin)
    OBVIOUS
  <2>2. /\ p = [rc |-> 0, fp |-> p.fp] /\ p.fp = [f \in Fields |-> p.fp[f]]
        /\ \A i \in Words :
            /\ D185Props[i] \in WithWord => p.fp[D185Props[i]] = WordOf(out.bin, i)
            /\ D185Props[i] = "GRAIN_EFFECT_AND_SIZE" =>
                /\ p.fp["GrainEffect"] = GrainOf(WordOf(out.bin, i))
                /\ p.fp["GrainEffectSize"]
                      = WordOf(out.bin, i) - GrainOf(WordOf(out.bin, i))
        /\ \A f \in WithoutWord : p.fp[f] = Start(out.bin)[f]
    <3>1. PICK b : b = out.bin
      OBVIOUS
    <3> QED  BY <1>2, <2>1, <3>1, ListedProfile
  <2>3. ASSUME NEW f \in WithWord PROVE p.fp[f] = in.fp[f]
    <3>1. PICK i \in Words : D185Props[i] = f
      BY EverySettingHasAWord
    <3>2. D185Props[i] \notin Unknown
      BY <3>1 DEF WithWord, Unknown
    <3>3. p.fp[f] = WordOf(out.bin, i)
      BY <2>2, <3>1
    <3>4. in.fp[f] = WordOf(bin, i)
      BY <1>1, <3>1, ListedProfile
    <3> QED  BY <1>2, <3>2, <3>3, <3>4
  <2>4. ASSUME NEW f \in GrainSettings PROVE p.fp[f] = in.fp[f]
    <3>1. PICK i \in Words : D185Props[i] = "GRAIN_EFFECT_AND_SIZE"
      BY EverySettingHasAWord
    <3>2. WordOf(out.bin, i) = WordOf(bin, i)
      BY <1>2, <3>1 DEF Unknown
    <3>3. /\ p.fp["GrainEffect"] = GrainOf(WordOf(out.bin, i))
          /\ p.fp["GrainEffectSize"] = WordOf(out.bin, i) - GrainOf(WordOf(out.bin, i))
      BY <2>2, <3>1
    <3>4. /\ in.fp["GrainEffect"] = GrainOf(WordOf(bin, i))
          /\ in.fp["GrainEffectSize"] = WordOf(bin, i) - GrainOf(WordOf(bin, i))
      BY <1>1, <3>1, ListedProfile
    <3>5. f = "GrainEffect" \/ f = "GrainEffectSize"
      BY DEF GrainSettings
    <3> QED  BY <3>2, <3>3, <3>4, <3>5
  <2>5. ASSUME NEW f \in WithoutWord PROVE p.fp[f] = in.fp[f]
    <3>1. p.fp[f] = Start(out.bin)[f]
      BY <2>2
    <3>2. in.fp[f] = Start(bin)[f]
      BY <1>1, ListedProfile
    <3>3. Start(out.bin) = Start(bin)
      BY <1>2 DEF Start
    <3> QED  BY <3>1, <3>2, <3>3
  <2>6. \A f \in Fields : p.fp[f] = in.fp[f]
    BY <2>3, <2>4, <2>5, FieldNames
  <2>7. p.fp = in.fp
    BY <1>3, <2>2, <2>6
  <2> QED  BY <1>3, <2>1, <2>2, <2>7
<1>6. fp_dump_struct(in.fp) = 0
  <2>1. PICK fp : fp = in.fp
    OBVIOUS
  <2>2. Table(fp) = Table([IOPCode |-> bin.iop_code])
    <3>1. fp.IOPCode = bin.iop_code
      BY <1>1, <2>1, ParsedProcessor
    <3> QED  BY <3>1, SameTables
  <2>3. ASSUME NEW f \in WithWord \ {"ShootingCondition"}
        PROVE  fp[f] \in Values(Table(fp)[f])
    <3>1. PICK i \in Words : D185Props[i] = f
      BY EverySettingHasAWord
    <3>2. fp[f] = WordOf(bin, i)
      BY <1>1, <2>1, <3>1, ListedProfile
    <3> QED  BY <2>2, <3>1, <3>2 DEF Listed, WithWord, Unknown
  <2>4. ASSUME NEW f \in GrainSettings PROVE fp[f] \in Values(Table(fp)[f])
    <3>1. PICK i \in Words : D185Props[i] = "GRAIN_EFFECT_AND_SIZE"
      BY EverySettingHasAWord
    <3>2. PICK v : v = WordOf(bin, i)
      OBVIOUS
    <3>3. v \in 1 .. 5
      BY <3>1, <3>2 DEF Listed, Unknown
    <3>4. fp["GrainEffect"] = GrainOf(v) /\ fp["GrainEffectSize"] = v - GrainOf(v)
      BY <1>1, <2>1, <3>1, <3>2, ListedProfile
    <3>5. GrainOf(v) \in {1, 2, 3} /\ v - GrainOf(v) \in {0, 2}
      BY <3>3 DEF GrainOf, FP_GRAIN_STRONG, FP_GRAIN_SIZE_LARGE
    <3> QED  BY <3>4, <3>5, SmallIsZero DEF GrainSettings
  <2>5. ASSUME NEW f \in {"StructVer", "Editable", "SmoothSkinEffect", "HDR",
                          "DigitalTeleConv", "PortraitEnhancer"}
        PROVE  fp[f] \in Values(Table(fp)[f])
    <3>1. fp[f] = Start(bin)[f] /\ f \in Fields
      BY <1>1, <2>1, ListedProfile, FieldNames DEF WithoutWord
    <3>2. CASE f = "StructVer"
      <4>1. Table(fp)[f] = fp_struct_ver
        BY <3>2 DEF Table
      <4> QED  BY <3>1, <3>2, <4>1, StartValues DEF fp_struct_ver, Values
    <3>3. CASE f = "HDR"
      <4>1. Table(fp)[f] = fp_hdr
        BY <3>3 DEF Table
      <4>2. 0 \in Values(fp_hdr)
        BY DEF fp_hdr, Values
      <4> QED  BY <3>1, <3>3, <4>1, <4>2, StartValues
    <3>4. CASE f \notin {"StructVer", "HDR"}
      <4>1. Table(fp)[f] \in {fp_bool, fp_on_off}
        BY <3>4 DEF Table
      <4>2. 0 \in Values(fp_bool) /\ 0 \in Values(fp_on_off)
        BY DEF fp_bool, fp_on_off, Values
      <4>3. fp[f] = 0
        BY <3>1, <3>4, StartValues
      <4> QED  BY <4>1, <4>2, <4>3
    <3> QED  BY <3>2, <3>3, <3>4
  <2>6. \A f \in DOMAIN Table(fp) \ {"ShootingCondition"} : fp[f] \in Values(Table(fp)[f])
    BY <2>3, <2>4, <2>5, TableNames DEF WithoutWord
  <2> QED  BY <2>1, <2>6 DEF fp_dump_struct
<1> QED  BY <1>1, <1>2, <1>3, <1>4, <1>5, <1>6

\* A profile that the library has the tables for survives being parsed and
\* packed, as RoundTrip of RawConversion says of the cameras' profiles,
\* whatever was in the profile variables: every word of a known setting comes
\* back, what is packed is parsed to the same profile again (fp_parse_d185,
\* fp_create_d185), and every setting has a text (fp_dump_struct).
THEOREM CameraProfileRoundTrip ==
    ASSUME NEW bin, Readable(bin), NEW before
    PROVE  LET in == fp_parse_d185(bin, before)
               out == fp_create_d185(in.fp, [i \in Words |-> 0])
           IN  /\ in.rc = 0 /\ out.rc > 0
               /\ \A i \in 1 .. bin.n_props :
                    D185Props[i] \in Unknown \/ out.bin.words[i] = WordOf(bin, i)
               /\ fp_parse_d185(out.bin, before) = in
               /\ fp_dump_struct(in.fp) = 0
<1>1. ASSUME NEW b, b.header = "fine"
      PROVE  fp_parse_d185(b, before) = parse_words(b)
  BY <1>1 DEF fp_parse_d185
<1>2. PICK in, out : /\ in = parse_words(bin)
                     /\ out = fp_create_d185(in.fp, [i \in Words |-> 0])
  OBVIOUS
<1>3. /\ in.rc = 0 /\ out.rc > 0
      /\ \A i \in 1 .. bin.n_props :
            D185Props[i] \in Unknown \/ out.bin.words[i] = WordOf(bin, i)
      /\ parse_words(out.bin) = in
      /\ fp_dump_struct(in.fp) = 0
  BY <1>2, WordsRoundTrip DEF Readable
<1>4. out.bin.header = "fine"
  <2>1. out.rc # -1
    BY <1>3
  <2> QED  BY <1>2, <2>1 DEF fp_create_d185
<1>5. fp_parse_d185(bin, before) = in
  BY <1>1, <1>2 DEF Readable
<1>6. fp_parse_d185(out.bin, before) = in
  BY <1>1, <1>3, <1>4
<1> QED  BY <1>2, <1>3, <1>5, <1>6
=============================================================================
