--------------------------- MODULE MCHealthIngest ---------------------------
(***************************************************************************)
(* Small instances of HealthIngest for TLC.                                *)
(***************************************************************************)
EXTENDS HealthIngest

MCTools == {Observation("mutation", "p"), Observation("mutation", "q"),
            Observation("command_exit", "1")}
=============================================================================
