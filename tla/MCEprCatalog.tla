---------------------------- MODULE MCEprCatalog ----------------------------
(***************************************************************************)
(* Files of the types that the database of the model describes, whole, and *)
(* with one descriptor left out or the second dataset (which holds the     *)
(* scaling factors of MERIS) without records.                              *)
(***************************************************************************)
EXTENDS EprCatalog

File(type, edition, rows) ==
  [ type |-> type, edition |-> edition,
    dsds |-> [i \in DOMAIN rows |-> [ name |-> rows[i].ds_name,
                                      dsr_size |-> TotSize(rows[i].rec), num_dsr |-> 1 ]] ]

ReducedFiles ==
  { File(<<"MER", "RR_", "1P">>, "IODD8", MER_RR__1P_dataset_data),
    File(<<"MER", "RR_", "1P">>, "IODD5", MER_RR__1P_IODD5_dataset_data),
    File(<<"MER", "RR_", "2P">>, "IODD8", MER_RR__2P_dataset_data),
    File(<<"MER", "RR_", "2P">>, "IODD6", MER_RR__2P_IODD6_dataset_data) }

RadarFiles ==
  { File(<<"ASA", "APG", "1P">>, "", ASA_APG_1P_dataset_data),
    File(<<"ASA", "APG", "1P">>, "602", ASA_APG_1P_602_dataset_data),
    File(<<"SAR", "APG", "1P">>, "602", ASA_APG_1P_602_dataset_data) }

FullFiles ==
  { File(<<"MER", "FR_", "1P">>, "IODD5", MER_FR__1P_IODD5_dataset_data),
    File(<<"MER", "FRS", "1P">>, "IODD8", MER_FR__1P_dataset_data),
    File(<<"MER", "FR_", "2P">>, "IODD6", MER_FR__2P_IODD6_dataset_data),
    File(<<"MER", "FRS", "2P">>, "IODD8", MER_FR__2P_dataset_data) }

\* A type with datasets and no bands, and a type that is unknown.
OddFiles ==
  { File(<<"ASA", "GM1", "1P">>, "", << >>), File(<<"DOR", "VOR", "AX">>, "", << >>) }

Without(f, i) == [f EXCEPT !.dsds = RemoveAt(@, i)]
Empty(f, i)   == [f EXCEPT !.dsds[i].num_dsr = 0]

Whole == ReducedFiles \cup RadarFiles

MCFiles ==
  OddFiles \cup FullFiles \cup Whole \cup
  UNION {{Without(f, i) : i \in DOMAIN f.dsds} : f \in Whole} \cup
  {Empty(f, 2) : f \in Whole}
=============================================================================
