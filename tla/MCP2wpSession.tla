--------------------------- MODULE MCP2wpSession ---------------------------
(***************************************************************************)
(* Small instances of P2wpSession.  Two of the three requests share a type *)
(* and differ in payload, as two WIFI_CONNECT or two FETCH_ROWS requests   *)
(* do; the cartridge shares two versions with one firmware, one with       *)
(* another and none with the third.                                        *)
(***************************************************************************)
EXTENDS P2wpSession

MCRequests   == {"start1", "start2", "poll"}
MCTypeOf     == [r \in MCRequests |-> IF r = "poll" THEN 2 ELSE 1]
MCIdentityOf == [r \in MCRequests |->
                   CASE r = "start1" -> 1 [] r = "start2" -> 2 [] OTHER -> 3]

MCHostRange  == <<2, 4>>
MCFirmwares  == {<<2, 3>>, <<3, 6>>, <<5, 6>>}
=============================================================================
