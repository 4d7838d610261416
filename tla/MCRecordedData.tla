--------------------------- MODULE MCRecordedData ---------------------------
(***************************************************************************)
(* Recorders and documents.  A revised series that is released, revised    *)
(* and once left blank or out, a daily one, and two tags for one field of  *)
(* a filing, the one preferred the older.  The figures of four days hold a *)
(* year of two periods, one with a revised end, and one with a period      *)
(* between its ends that has no figure.                                    *)
(***************************************************************************)
EXTENDS RecordedData, TLC

Row(d, series, period, missing) ==
  [stamp |-> d, series |-> series, period |-> period, missing |-> missing]

MCPublications ==
  {Row(2, "CPI", 0, FALSE), Row(2, "DGS3MO", 1, FALSE), Row(2, "Revenues", 0, FALSE),
   Row(3, "CPI", 1, FALSE), Row(3, "CPI", 1, TRUE), Row(3, "SalesRevenueNet", 1, FALSE),
   Row(4, "CPI", 2, FALSE), Row(4, "CPI", 1, FALSE)}
Symmetry == Permutations(Recorders)
MCConceptTags == <<"Revenues", "SalesRevenueNet">>
=============================================================================
