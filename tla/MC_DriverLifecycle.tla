------------------------ MODULE MC_DriverLifecycle ------------------------
(* Log settings: the default "", "syslog", a prefix of it, a writable and *)
(* an unwritable file; log levels: full names, prefixes, "" and unknown.  *)
EXTENDS DriverLifecycle

CONSTANTS syslog, empty, sys, file, denied

MC_LogValues == {syslog, empty, sys, file, denied}
MC_Unwritable == {denied}
MC_LevelInputs ==
    { <<"E","R","R","O","R">>, <<"W","A","R","N">>, <<"W">>, <<>>,
      <<"C","R","I","T","I","C","A","L">>, <<"V","E","R","B","O","S","E">> }
=============================================================================
