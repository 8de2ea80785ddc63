----------------------------- MODULE MCPowerLoss -----------------------------
(***************************************************************************)
(* Three slots over four pages: slot 1 has its id and its checksum on      *)
(* different pages, slots 0 and 2 have them on one.                        *)
(***************************************************************************)
EXTENDS PowerLoss

Layout(ids, crc, data) ==
    [part \in Parts |-> CASE part = "ids" -> ids [] part = "crc" -> crc [] OTHER -> data]

MCPageOf == [k \in Slots |-> CASE k = 0 -> Layout(0, 0, 1)
                               [] k = 1 -> Layout(1, 2, 2)
                               [] OTHER -> Layout(2, 2, 3)]
=============================================================================
