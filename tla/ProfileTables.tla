--------------------------- MODULE ProfileTables ---------------------------
(***************************************************************************)
(* The lookup tables of the profile library: which texts a profile file    *)
(* may hold for a setting, and which 32-bit value the camera uses for it.  *)
(* A table is a function from texts to values.  A text that spells a       *)
(* number is that number (a tone is counted in half steps and an exposure  *)
(* bias in thirds of a stop, so that 3.5 is 7 and P0P67 is 2), and a       *)
(* 32-bit value is the signed integer of the same bits, so that            *)
(* (uint32_t)-10 is -10.                                                   *)
(***************************************************************************)
EXTENDS Integers

Values(tbl) == {tbl[k] : k \in DOMAIN tbl}

\* n steps of 10: FP_PLUS_n, FP_ZERO, FP_MIN_n of enum FujiRange.
FujiRange(n) == 10 * n

fp_struct_ver == [k \in {65536} |-> 65536]

fp_film_sim ==
    [Provia |-> 1, Velvia |-> 2, Astia |-> 3, NEGAhi |-> 4, NEGAStd |-> 5,
     BW |-> 6, BYe |-> 7, BR |-> 8, BG |-> 9, Sepia |-> 10, Classic |-> 11,
     Acros |-> 12, AcrosYe |-> 13, AcrosR |-> 14, AcrosG |-> 15,
     Eterna |-> 16, ClassicNEGA |-> 17, NostalgicNEGA |-> 11]

Monochrome == 6 .. 9 \cup 12 .. 15      \* BW ... BG and Acros ... AcrosG
Sepia == 10

fp_on_off == [ON |-> 1, OFF |-> 0]
fp_bool == [True |-> 1, False |-> 0]
fp_shooting_condition == [ON |-> 1, OFF |-> 2]
fp_white_balance_shoot_cond == [ON |-> 1, OFF |-> 2]
fp_lens_modulation == [ON |-> 1, OFF |-> 2]
fp_drange == [DR100 |-> 100, DR200 |-> 200, DR400 |-> 400]

\* 801 is the text and the value of 800PLUS, 0 those of the empty text.
HDR800Plus == 801
fp_hdr == [k \in {0, 200, 400, 800, HDR800Plus} |-> k]

\* The file may also say 0 for OFF.
fp_drange_priority == [OFF |-> 0, P1 |-> 1, P2 |-> 2, P3 |-> 3]

fp_color_chrome_blue == [OFF |-> 0, WEAK |-> 1, STRONG |-> 2]
fp_grain_effect == [OFF |-> 1, WEAK |-> 2, STRONG |-> 3]
fp_grain_effect_size == [SMALL |-> 0, LARGE |-> 2]
fp_chrome_effect == [OFF |-> 1, WEAK |-> 2, STRONG |-> 3]
fp_file_type == [JPG |-> 7, TIF |-> 9, TIF_16BIT |-> 11]

fp_image_size ==
    [S3x2 |-> 1, S16x9 |-> 2, S1x1 |-> 3, M3x2 |-> 4, M16x9 |-> 5,
     M1x1 |-> 6, L3x2 |-> 7, L16x9 |-> 8, L1x1 |-> 9]

fp_image_quality == [Fine |-> 2, Normal |-> 3]

\* Thousandths of a stop, rounded to the nearest one.
fp_exposure_bias ==
    [k \in -9 .. 9 |-> IF k < 0 THEN -((1 - 1000 * k) \div 3)
                                ELSE (1000 * k + 1) \div 3]

fp_white_balance_mode ==
    [AsShot |-> 0, INVALID |-> 1, Auto |-> 2, Daylight |-> 4, Incand |-> 6,
     Uwater |-> 8, FLight1 |-> 32769, FLight2 |-> 32770, FLight3 |-> 32771,
     Shade |-> 32774, Temperature |-> 32775, Custom1 |-> 32776,
     Custom2 |-> 32777, Custom3 |-> 32778]

\* Kelvin.  The table gives 10000K the value 1000.
fp_color_temp ==
    [k \in {0, 2200} \cup {10 * n : n \in 250 .. 1000} |->
        IF k = 10000 THEN 1000 ELSE k]

fp_range == [k \in -4 .. 4 |-> FujiRange(k)]
fp_range_wb_shift == [k \in -9 .. 9 |-> FujiRange(k)]
fp_range_mono_shift_warm_cold == [k \in -18 .. 18 |-> FujiRange(k)]
fp_range_mono_green_magenta == [k \in -18 .. 18 |-> FujiRange(k)]
fp_clarity == [k \in -5 .. 5 |-> FujiRange(k)]

fp_noise_reduction ==
    [k \in -4 .. 4 |-> IF k = 4 THEN 20480 ELSE IF k = 3 THEN 24576
                       ELSE IF k < -2 THEN 4096 * (4 - k)
                       ELSE 4096 * (2 - k)]

\* Half steps.
fp_range_p4_n2 == [k \in {2 * n : n \in -2 .. 4} |-> 5 * k]
fp_range_p4_n4_halfs == [k \in -8 .. 8 |-> 5 * k]

fp_color_space == [sRGB |-> 1, Adobe_sRGB |-> 2, AdobeRGB |-> 3]

\* IOPCode & 0x00ffff00 = 0x00179500
is_xprocessor5(iop) == (iop \div 256) % 65536 = 6037

fp_get_highlight_tone(fp) ==
    IF is_xprocessor5(fp.IOPCode) THEN fp_range_p4_n4_halfs
                                  ELSE fp_range_p4_n2

fp_get_shadow_tone(fp) == fp_get_highlight_tone(fp)

\* The settings of a profile that the library looks up, with their tables.
Table(fp) ==
    [StructVer |-> fp_struct_ver, Editable |-> fp_bool,
     ShootingCondition |-> fp_shooting_condition, FileType |-> fp_file_type,
     ImageSize |-> fp_image_size, ImageQuality |-> fp_image_quality,
     ExposureBias |-> fp_exposure_bias, DynamicRange |-> fp_drange,
     WideDRange |-> fp_drange_priority, FilmSimulation |-> fp_film_sim,
     BlackImageTone |-> fp_range_mono_shift_warm_cold,
     MonochromaticColor_RG |-> fp_range_mono_green_magenta,
     GrainEffect |-> fp_grain_effect,
     GrainEffectSize |-> fp_grain_effect_size,
     ChromeEffect |-> fp_chrome_effect,
     ColorChromeBlue |-> fp_color_chrome_blue,
     SmoothSkinEffect |-> fp_on_off,
     WBShootCond |-> fp_white_balance_shoot_cond,
     WhiteBalance |-> fp_white_balance_mode, WBShiftR |-> fp_range_wb_shift,
     WBShiftB |-> fp_range_wb_shift, WBColorTemp |-> fp_color_temp,
     HighlightTone |-> fp_get_highlight_tone(fp),
     ShadowTone |-> fp_get_shadow_tone(fp), Color |-> fp_range,
     Sharpness |-> fp_range, NoisReduction |-> fp_noise_reduction,
     Clarity |-> fp_clarity, LensModulationOpt |-> fp_lens_modulation,
     ColorSpace |-> fp_color_space, HDR |-> fp_hdr,
     DigitalTeleConv |-> fp_on_off, PortraitEnhancer |-> fp_on_off]

\* struct FujiProfile, without the names of the device and of the version.
Fields == DOMAIN Table([IOPCode |-> 0])
            \cup {"IOPCode", "TetherRAWConditonCode", "RotationAngle"}

ZeroProfile == [f \in Fields |-> 0]

\* Merged by fp_apply_profile: neither the settings commented out there nor
\* the ones it does not name.
Applied ==
    Fields \ {"Clarity", "LensModulationOpt", "ColorSpace", "HDR", "IOPCode",
              "StructVer", "TetherRAWConditonCode", "Editable",
              "DigitalTeleConv", "PortraitEnhancer"}

fp_apply_profile(from, to) ==
    [f \in Fields |-> IF f \in Applied THEN from[f] ELSE to[f]]

\* The result code of fp_dump_struct: every setting has a text.  It writes
\* ShootingCondition as a number.
fp_dump_struct(fp) ==
    IF \A f \in DOMAIN Table(fp) \ {"ShootingCondition"} :
            fp[f] \in Values(Table(fp)[f])
    THEN 0 ELSE -1
=============================================================================
