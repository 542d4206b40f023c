------------------------------ MODULE EprDddb ------------------------------
(***************************************************************************)
(* The product database compiled into the library (epr_dddb.c), for the    *)
(* MERIS level 1 and 2 products and the geocoded ASAR image in all their   *)
(* editions.  A name that the code compares by its beginning is a tuple of *)
(* words; units, descriptions and spectral indices are left out.  Rows     *)
(* that differ by a number are written as one.                             *)
(***************************************************************************)
EXTENDS Integers, SequencesExt

CONSTANTS
  SceneRasterWidth,   \* elements of a line of pixels
  TiePointGridWidth   \* elements of a line of tie points

ASSUME WidthsAssumption == SceneRasterWidth \in Nat \ {0} /\ TiePointGridWidth \in Nat \ {0}

-----------------------------------------------------------------------------
(***************************************************************************)
(* Records: the number of elements of each field and the size of one.  A   *)
(* record that no band refers to is the sum of its fields.                 *)
(***************************************************************************)

Field(num, size) == [num |-> num, size |-> size]
Bytes(n)         == << Field(1, n) >>

\* All records begin with a time of twelve bytes and a flag.
Begin       == << Field(1, 12), Field(1, 1) >>
Pixels(n)   == Field(n * SceneRasterWidth, 1)

TotSize(rec) ==
  LET sum[n \in 0 .. Len(rec)] == IF n = 0 THEN 0 ELSE sum[n - 1] + rec[n].num * rec[n].size
  IN  sum[Len(rec)]

MER_RR__1P_ADSR_sq       == Begin \o << Field(5, 2), Field(5, 2) >>
MER_RR__1P_ADSR_tie_pt   == Begin \o [i \in 1 .. 15 |-> Field(TiePointGridWidth, IF i < 11 THEN 4 ELSE 2)]
MER_RR__1P_MDSR_16       == Begin \o << Pixels(1), Field(SceneRasterWidth, 2) >>
MER_RR__1P_MDSR_16_IODD5 == Begin \o << Pixels(2) >>
MER_RR__1P_MDSR_1_15     == Begin \o << Field(SceneRasterWidth, 2) >>

MER_RR__1P_GADS_sfgi ==
  [i \in 1 .. 7 |-> Field(1, 4)] \o
  << Field(15, 4), Field(80, 1), Field(1, 4), Field(15, 4), Field(1, 60) >>

MER_RR__2P_GADS_sfgi ==
  [i \in 1 .. 43 |-> CASE i \in {8, 22} -> Field(13, 4)
                       [] i = 36 -> Field(80, 1)
                       [] i = 38 -> Field(15, 4)
                       [] i = 43 -> Field(44, 1)
                       [] OTHER  -> Field(1, 4)]

MER_RR__2P_ADSR_sq   == Begin \o [i \in 1 .. 19 |-> Field(1, 1)]
MER_RR__2P_MDSR_1_13 == Begin \o << Field(SceneRasterWidth, 2) >>

\* MDSR_14, 15, 17 and 18: a byte for each pixel; MDSR_16 and 19: two values.
MER_RR__2P_MDSR_14 == Begin \o << Pixels(1) >>
MER_RR__2P_MDSR_16 == Begin \o << Pixels(2) >>
MER_RR__2P_MDSR_20 == Begin \o << Pixels(3) >>

ASAR_SQ1_Image_ADSR == Bytes(170)
ASAR_Dop_Cen_ADSR   == Bytes(55)
ASAR_SRGR_ADSR      == Bytes(55)
ASAR_Chirp_ADSR     == Bytes(1483)
ASAR_Antenna_ADSR   == Bytes(162)
ASAR_Map_GADS       == Bytes(591)

\* Two spares, and the rest.  From version 6.02 on there are fields in place of
\* the spares, and three vectors at the end.
MainRest           == Field(1, 1952)
ASAR_Main_ADSR     == << Field(1, 51), Field(1, 6), MainRest >>
ASAR_Main_ADSR_602 ==
  << Field(3, 4), Field(1, 39), Field(1, 1), Field(1, 5), MainRest,
     Field(5, 4), Field(1005, 4), Field(1005, 4) >>

TiePointFields == << Field(11, 4), Field(11, 4), Field(11, 4), Field(11, 4), Field(11, 4) >>

ASAR_Geo_Grid_ADSR ==
  Begin \o << Field(1, 4), Field(1, 4), Field(1, 4) >> \o TiePointFields \o << Field(1, 22) >> \o
  << Field(1, 12) >> \o TiePointFields \o << Field(1, 22) >>

ASAR_Image_MDSR_Gen == Begin \o << Field(1, 4), Field(SceneRasterWidth, 2) >>

-----------------------------------------------------------------------------
(***************************************************************************)
(* Datasets: the name in the library, the name in the file, the record.    *)
(***************************************************************************)

DatasetRow(id, ds_name, rec) == [id |-> id, ds_name |-> ds_name, rec |-> rec]

RadianceIds ==
  <<"Radiance_1", "Radiance_2", "Radiance_3", "Radiance_4", "Radiance_5", "Radiance_6",
    "Radiance_7", "Radiance_8", "Radiance_9", "Radiance_10", "Radiance_11", "Radiance_12",
    "Radiance_13", "Radiance_14", "Radiance_15">>

NormRhoSurfIds ==
  <<"Norm_rho_surf_1", "Norm_rho_surf_2", "Norm_rho_surf_3", "Norm_rho_surf_4",
    "Norm_rho_surf_5", "Norm_rho_surf_6", "Norm_rho_surf_7", "Norm_rho_surf_8",
    "Norm_rho_surf_9", "Norm_rho_surf_10", "Norm_rho_surf_11", "Norm_rho_surf_12",
    "Norm_rho_surf_13">>

AnnotationRows(sq, gads) ==
  << DatasetRow("Quality_ADS", <<"Quality ADS">>, sq),
     DatasetRow("Scaling_Factor_GADS", <<"Scaling Factor GADS">>, gads),
     DatasetRow("Tie_points_ADS", <<"Tie points ADS">>, MER_RR__1P_ADSR_tie_pt) >>

FlagsMDS16 == <<"Flags MDS", "(16)">>

Level1Rows(flags) ==
  AnnotationRows(MER_RR__1P_ADSR_sq, MER_RR__1P_GADS_sfgi) \o
  [i \in 1 .. 15 |-> DatasetRow(RadianceIds[i],
                                <<"Radiance MDS", "(" \o ToString(i) \o ")">>,
                                MER_RR__1P_MDSR_1_15)] \o
  << DatasetRow("Flags", FlagsMDS16, flags) >>

MER_RR__1P_dataset_data       == Level1Rows(MER_RR__1P_MDSR_16)
MER_RR__1P_IODD5_dataset_data == Level1Rows(MER_RR__1P_MDSR_16_IODD5)

EpsilonMDS19 == <<"Epsilon, OPT", "MDS(19)">>

Level2Rows(id19, name19) ==
  AnnotationRows(MER_RR__2P_ADSR_sq, MER_RR__2P_GADS_sfgi) \o
  [i \in 1 .. 13 |-> DatasetRow(NormRhoSurfIds[i],
                                <<"Norm. rho_surf", "MDS(" \o ToString(i) \o ")">>,
                                MER_RR__2P_MDSR_1_13)] \o
  << DatasetRow("Vapour_Content",  <<"Vapour Content", "MDS(14)">>,     MER_RR__2P_MDSR_14),
     DatasetRow("Chl_1_TOAVI_CTP", <<"Chl_1, TOAVI", "MDS(15)">>,       MER_RR__2P_MDSR_14),
     DatasetRow("YS_SPM_Rect_rho", <<"YS, SPM, Rect. Rho", "MDS(16)">>, MER_RR__2P_MDSR_16),
     DatasetRow("Chl_2_BOAVI",     <<"Chl_2, BOAVI", "MDS(17)">>,       MER_RR__2P_MDSR_14),
     DatasetRow("Press_PAR_Alb",   <<"Press PAR Alb", "MDS(18)">>,      MER_RR__2P_MDSR_14),
     DatasetRow(id19,              name19,                              MER_RR__2P_MDSR_16),
     DatasetRow("Flags",           <<"Flags", "MDS(20)">>,              MER_RR__2P_MDSR_20) >>

MER_RR__2P_dataset_data       == Level2Rows("Alpha_OPT", <<"Alpha, OPT", "MDS(19)">>)
MER_RR__2P_IODD7_dataset_data == MER_RR__2P_dataset_data
MER_RR__2P_IODD6_dataset_data == Level2Rows("Epsilon_OPT", EpsilonMDS19)

\* The full resolution has the tables of the reduced one.
MER_FR__1P_dataset_data       == MER_RR__1P_dataset_data
MER_FR__1P_IODD5_dataset_data == MER_RR__1P_IODD5_dataset_data
MER_FR__2P_dataset_data       == MER_RR__2P_dataset_data
MER_FR__2P_IODD7_dataset_data == MER_RR__2P_IODD7_dataset_data
MER_FR__2P_IODD6_dataset_data == MER_RR__2P_IODD6_dataset_data

MainParams == <<"MAIN PROCESSING PARAMS ADS">>

GeocodedRows(main) ==
  << DatasetRow("MDS1_SQ_ADS",              <<"MDS1", "SQ ADS">>,           ASAR_SQ1_Image_ADSR),
     DatasetRow("MDS2_SQ_ADS",              <<"MDS2", "SQ ADS">>,           ASAR_SQ1_Image_ADSR),
     DatasetRow("MAIN_PROCESSING_PARAMS_ADS", MainParams,                   main),
     DatasetRow("DOP_CENTROID_COEFFS_ADS",  <<"DOP CENTROID COEFFS ADS">>,  ASAR_Dop_Cen_ADSR),
     DatasetRow("SR_GR_ADS",                <<"SR GR ADS">>,                ASAR_SRGR_ADSR),
     DatasetRow("CHIRP_PARAMS_ADS",         <<"CHIRP PARAMS ADS">>,         ASAR_Chirp_ADSR),
     DatasetRow("ANTENNA_ELEV_PATTERN_ADS", <<"ANTENNA ELEV PATTERN ADS">>, ASAR_Antenna_ADSR),
     DatasetRow("GEOLOCATION_GRID_ADS",     <<"GEOLOCATION GRID ADS">>,     ASAR_Geo_Grid_ADSR),
     DatasetRow("MAP_PROJECTION_GADS",      <<"MAP PROJECTION GADS">>,      ASAR_Map_GADS),
     DatasetRow("MDS1",                     <<"MDS1">>,                     ASAR_Image_MDSR_Gen),
     DatasetRow("MDS2",                     <<"MDS2">>,                     ASAR_Image_MDSR_Gen) >>

ASA_APG_1P_dataset_data     == GeocodedRows(ASAR_Main_ADSR)
ASA_APG_1P_602_dataset_data == GeocodedRows(ASAR_Main_ADSR_602)

-----------------------------------------------------------------------------
(***************************************************************************)
(* Bands.  A scaling is a number or an element of a dataset; a mask names  *)
(* a flag of a band, which must be set or, with "!", not be set.           *)
(***************************************************************************)

Number(text)  == <<"number", text>>
GADS(f, e)    == <<"Scaling_Factor_GADS", f, e>>
NoMask        == << >>
NoFlags       == "none"

Band(id, dataset, field, sample, type, method, offset, factor, mask, flags) ==
  [ id |-> id, dataset |-> dataset, field |-> field, sample |-> sample, type |-> type,
    method |-> method, offset |-> offset, factor |-> factor, mask |-> mask, flags |-> flags ]

LinearBand(id, dataset, field, offset, factor, mask) ==
  Band(id, dataset, field, "1OF1", "float", "lin", offset, factor, mask, NoFlags)

PlainBand(id, dataset, field, sample, type, mask, flags) ==
  Band(id, dataset, field, sample, type, "non", Number("0.0"), Number("1.0"), mask, flags)

TiePointNames ==
  <<"latitude", "longitude", "dem_alt", "dem_rough", "lat_corr", "lon_corr", "sun_zenith",
    "sun_azimuth", "view_zenith", "view_azimuth", "zonal_wind", "merid_wind", "atm_press",
    "ozone", "rel_hum">>

\* The band of the k-th tie-point field.
TiePointBand(k) ==
  LinearBand(TiePointNames[k], "Tie_points_ADS", k + 2, Number("0.0"),
             CASE k \in {3, 4}   -> GADS(k - 2, 1)
               [] k \in 11 .. 15 -> GADS(k - 8, 1)
               [] OTHER          -> Number("1.0E-06"), NoMask)

TiePointBands == [k \in 1 .. 15 |-> TiePointBand(k)]

RadianceBands ==
  [i \in 1 .. 15 |-> LinearBand("radiance_" \o ToString(i), RadianceIds[i], 3,
                                Number("0.0"), GADS(8, i), <<"!", "l1_flags", "INVALID">>)]

MER_RR__1P_band_data ==
  TiePointBands \o RadianceBands \o
  << PlainBand("l1_flags", "Flags", 3, "1OF1", "uchar", NoMask, "MER_RR__1P_flags"),
     PlainBand("detector_index", "Flags", 4, "1OF1", "short", NoMask, NoFlags) >>

MER_RR__1P_IODD5_band_data ==
  TiePointBands \o RadianceBands \o
  << PlainBand("l1_flags", "Flags", 3, "1OF2", "uchar", NoMask, "MER_RR__1P_flags"),
     PlainBand("ssi", "Flags", 3, "2OF2", "uchar", NoMask, NoFlags) >>

\* Reflectances: band 11 is not measured.
ReflectanceBands ==
  [i \in 1 .. 13 |-> LinearBand("reflec_" \o ToString(IF i > 10 THEN i + 1 ELSE i),
                                NormRhoSurfIds[i], 3, GADS(22, i), GADS(8, i), NoMask)]

\* A band of one value of each pixel of field 3, scaled by two elements of the GADS.
Scaled(id, dataset, sample, method, offset, factor, mask) ==
  Band(id, dataset, 3, sample, "float", method, GADS(offset, 1), GADS(factor, 1), mask, NoFlags)

Is(flag)  == <<"", "l2_flags", flag>>
Not(flag) == <<"!", "l2_flags", flag>>

\* Bands of all editions of level 2; yellow_subs differs by its method.
WaterBands(yellow) ==
  << Scaled("water_vapour", "Vapour_Content",  "1OF1", "lin",  30, 16, NoMask),
     Scaled("algal_1",      "Chl_1_TOAVI_CTP", "1OF1", "log",  23, 9,  Is("WATER")),
     Scaled("algal_2",      "Chl_2_BOAVI",     "1OF1", "log",  23, 9,  Is("WATER")),
     Scaled("yellow_subs",  "YS_SPM_Rect_rho", "1OF2", yellow, 24, 10, Is("WATER")),
     Scaled("total_susp",   "YS_SPM_Rect_rho", "2OF2", "log",  25, 11, Is("WATER")),
     Scaled("photosyn_rad", "Press_PAR_Alb",   "1OF1", "lin",  31, 17, Is("WATER")),
     Scaled("toa_veg",      "Chl_1_TOAVI_CTP", "1OF1", "lin",  32, 18, Is("LAND")),
     Scaled("boa_veg",      "Chl_2_BOAVI",     "1OF1", "lin",  33, 19, Is("LAND")) >>

LandBands(first, second) ==
  << Scaled(first,        "YS_SPM_Rect_rho", "1OF2", "lin", 40, 39, Is("LAND")),
     Scaled(second,       "YS_SPM_Rect_rho", "2OF2", "lin", 42, 41, Is("LAND")),
     Scaled("surf_press", "Press_PAR_Alb",   "1OF1", "lin", 29, 15, Is("LAND")) >>

CloudBands(aerosol, flags) ==
  << Scaled("cloud_albedo",    "Press_PAR_Alb",   "1OF1", "lin", 34, 20, Is("CLOUD")),
     Scaled("cloud_opt_thick", aerosol,           "2OF2", "lin", 28, 14, Is("CLOUD")),
     Scaled("cloud_top_press", "Chl_1_TOAVI_CTP", "1OF1", "lin", 35, 21, Is("CLOUD")),
     PlainBand("cloud_type", aerosol, 3, "1OF2", "uchar", Is("CLOUD"), NoFlags),
     PlainBand("l2_flags", "Flags", 3, "3TOI", "uint", NoMask, flags) >>

Level2Bands(flags) ==
  TiePointBands \o ReflectanceBands \o WaterBands("log") \o
  LandBands("rect_refl_red", "rect_refl_nir") \o
  << Scaled("aero_alpha",         "Alpha_OPT", "1OF2", "lin", 26, 12, Not("CLOUD")),
     Scaled("aero_opt_thick_443", "Alpha_OPT", "2OF2", "lin", 27, 13, Not("LAND")),
     Scaled("aero_opt_thick_865", "Alpha_OPT", "2OF2", "lin", 27, 13, Not("WATER")) >> \o
  CloudBands("Alpha_OPT", flags)

MER_RR__2P_band_data       == Level2Bands("MER_RR__2P_flags")
MER_RR__2P_IODD7_band_data == Level2Bands("MER_RR__2P_flags_IODD7")

MER_RR__2P_IODD6_band_data ==
  TiePointBands \o ReflectanceBands \o WaterBands("lin") \o
  LandBands("rect_refl_nir", "rect_refl_red") \o
  << Scaled("aero_epsilon",   "Epsilon_OPT", "1OF2", "lin", 26, 12, Not("CLOUD")),
     Scaled("aero_opt_thick", "Epsilon_OPT", "2OF2", "lin", 27, 13, Not("CLOUD")) >> \o
  CloudBands("Epsilon_OPT", "MER_RR__2P_flags_IODD6")

MER_FR__1P_band_data       == MER_RR__1P_band_data
MER_FR__1P_IODD5_band_data == MER_RR__1P_IODD5_band_data
MER_FR__2P_band_data       == MER_RR__2P_band_data
MER_FR__2P_IODD7_band_data == MER_RR__2P_IODD7_band_data
MER_FR__2P_IODD6_band_data == MER_RR__2P_IODD6_band_data

ASA_APG_1P_band_data ==
  LET Grid(id, field, factor) ==
        LinearBand(id, "GEOLOCATION_GRID_ADS", field, Number("0.0"), Number(factor), NoMask)
      Data(id, dataset) == LinearBand(id, dataset, 4, Number("0.0"), Number("1.0"), NoMask)
  IN  << Grid("slant_range_time", 7, "1.0"), Grid("incident_angle", 8, "1.0"),
         Grid("latitude", 9, "1.0E-06"), Grid("longitude", 10, "1.0E-06"),
         Data("proc_data_1", "MDS1"), Data("proc_data_2", "MDS2") >>

-----------------------------------------------------------------------------
(***************************************************************************)
(* Flag codings: the bits of each flag.                                    *)
(***************************************************************************)

MER_RR__1P_flags_data ==
  [ COSMETIC |-> {0}, DUPLICATED |-> {1}, GLINT_RISK |-> {2}, SUSPECT |-> {3},
    LAND_OCEAN |-> {4}, BRIGHT |-> {5}, COASTLINE |-> {6}, INVALID |-> {7} ]

\* The bits that all editions of level 2 share.
CommonFlags ==
  [ LAND |-> {23}, CLOUD |-> {22}, WATER |-> {21}, PCD_1_13 |-> {20}, PCD_14 |-> {19},
    PCD_15 |-> {18}, PCD_16 |-> {17}, PCD_17 |-> {16}, PCD_18 |-> {15}, PCD_19 |-> {14},
    COASTLINE |-> {13}, COSMETIC |-> {12}, SUSPECT |-> {11}, ABSOA_DUST |-> {9},
    CASE2_ANOM |-> {7, 21}, TOAVI_BRIGHT |-> {7, 23}, CASE2_Y |-> {6, 21},
    TOAVI_BAD |-> {6, 23}, ICE_HAZE |-> {5, 21}, TOAVI_CSI |-> {5, 23},
    MEDIUM_GLINT |-> {4, 21}, TOAVI_WS |-> {4, 23}, HIGH_GLINT |-> {2, 21},
    TOAVI_INVAL_REC |-> {2, 23} ]

\* The common bits, and those of an edition.
WithCommon(own) ==
  [f \in DOMAIN CommonFlags \cup DOMAIN own |-> IF f \in DOMAIN own THEN own[f] ELSE CommonFlags[f]]

MER_RR__2P_flags_data == WithCommon(
  [ OOADB |-> {10}, CASE2_S |-> {8, 21}, SNOW_ICE |-> {8, 23}, DDV |-> {3, 23},
    BPAC_ON |-> {3, 21}, LOW_SUN |-> {1}, WHITE_SCATTERER |-> {0, 21} ])

MER_RR__2P_flags_IODD7_data == WithCommon(
  [ OOADB |-> {10}, CASE2_S |-> {8}, LARS_ON |-> {3, 23}, BPAC_ON |-> {3, 21},
    LOW_SUN |-> {1}, LOW_PRESSURE |-> {0}, WHITE_SCATTERER |-> {0, 21} ])

MER_RR__2P_flags_IODD6_data == WithCommon(
  [ ABSOA_CONT |-> {10}, CASE2_S |-> {8}, DDV |-> {3}, P_CONFIDENCE |-> {1},
    LOW_PRESSURE |-> {0} ])

dddb_flag_coding_tables ==
  [ MER_RR__1P_flags |-> MER_RR__1P_flags_data, MER_RR__2P_flags |-> MER_RR__2P_flags_data,
    MER_RR__2P_flags_IODD7 |-> MER_RR__2P_flags_IODD7_data,
    MER_RR__2P_flags_IODD6 |-> MER_RR__2P_flags_IODD6_data ]

-----------------------------------------------------------------------------
(***************************************************************************)
(* The lists of tables.  An entry has the ten characters that identify the *)
(* type, as sensor, mode and level, and what follows them, the edition.    *)
(***************************************************************************)

Table(sensor, mode, level, edition) == [type |-> <<sensor, mode, level>>, edition |-> edition]

Modes(sensor, modes, level, editions) ==
  LET n == Len(editions)
  IN  [k \in 1 .. Len(modes) * n |->
         Table(sensor, modes[((k - 1) \div n) + 1], level, editions[((k - 1) % n) + 1])]

Meris ==
  << Table("MER", "FR_", "1P", ""), Table("MER", "FRS", "1P", ""),
     Table("MER", "FR_", "1P", "IODD5"), Table("MER", "FR_", "2P", ""),
     Table("MER", "FRS", "2P", ""), Table("MER", "FR_", "2P", "IODD7"),
     Table("MER", "FR_", "2P", "IODD6"), Table("MER", "LRC", "2P", ""),
     Table("MER", "RRC", "2P", ""), Table("MER", "RRV", "2P", ""),
     Table("MER", "RR_", "1P", ""), Table("MER", "RR_", "1P", "IODD5"),
     Table("MER", "RR_", "2P", ""), Table("MER", "RR_", "2P", "IODD7"),
     Table("MER", "RR_", "2P", "IODD6") >>

dddb_product_tables ==
  LET Old == <<"">>
      Both == <<"", "602">>
      Radar(s, global, wide) ==
        Modes(s, <<"APG", "APM", "APP", "APS">>, "1P", Both) \o Modes(s, <<"AP_">>, "BP", Old) \o
        Modes(s, global \o <<"IMG", "IMM", "IMP", "IMS">>, "1P", Both) \o
        Modes(s, <<"IM_">>, "BP", Old) \o
        Modes(s, wide, "1P", Both) \o (IF wide = << >> THEN << >> ELSE Modes(s, <<"WS_">>, "BP", Old)) \o
        Modes(s, <<"WVI", "WVS">>, "1P", Old) \o Modes(s, <<"WVW">>, "2P", Old)
      Radiometer(s) ==
        Modes(s, <<"AR_", "MET", "NR_">>, "2P", Old) \o Modes(s, <<"TOA">>, "1P", Old)
  IN  Radar("ASA", <<"GM1">>, <<"WSM">>) \o Radiometer("ATS") \o Radiometer("AT2") \o
      Meris \o Radar("SAR", << >>, << >>)

dddb_band_tables ==
  LET Old == <<"">>
      Radar(s, wide) ==
        Modes(s, <<"APG", "APM", "APP", "APS">>, "1P", Old) \o Modes(s, <<"AP_">>, "BP", Old) \o
        Modes(s, <<"IMG", "IMM", "IMP", "IMS">>, "1P", Old) \o Modes(s, <<"IM_">>, "BP", Old) \o
        Modes(s, wide, "1P", Old) \o (IF wide = << >> THEN << >> ELSE Modes(s, <<"WS_">>, "BP", Old))
      Radiometer(s) == Modes(s, <<"NR_">>, "2P", Old) \o Modes(s, <<"TOA">>, "1P", Old)
  IN  Radar("ASA", <<"WSM">>) \o Radiometer("ATS") \o Radiometer("AT2") \o
      Meris \o Radar("SAR", << >>)
=============================================================================
