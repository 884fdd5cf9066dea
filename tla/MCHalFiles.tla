------------------------------ MODULE MCHalFiles ------------------------------
(* HalFiles with five descriptors: two beside the standard ones. The program *)
(* opens the console, the null device, two files of the host and a name that *)
(* no device or file system has.                                             *)
EXTENDS HalFiles

MCConsoleName == <<"dev", "jtag_uart">>
MCNullName == <<"dev", "null">>
MCHostFsName == <<"mnt", "host">>
MCNames == {MCConsoleName, MCNullName, MCHostFsName \o <<"in.bin">>,
            MCHostFsName \o <<"out.bin">>, <<"mnt">>}
==============================================================================
