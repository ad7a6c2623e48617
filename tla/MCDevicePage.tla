---------------------------- MODULE MCDevicePage ----------------------------
(***************************************************************************)
(* Small instances of DevicePage: two devices, one tag, at most two        *)
(* requests.                                                               *)
(***************************************************************************)
EXTENDS DevicePage, TLC

CONSTANTS d1, d2

Alone   == {{f} : f \in Form \cup {"tags", "remove", "rollback"}}
Mixed   == {{"snmp", "tags"}, {"remove", "snmp"}, {"rollback", "deploy"}, {"collector", "tags"}}
OnesAndTwos == Alone \cup Mixed

DeviceSymmetry == Permutations({d1, d2})
=============================================================================
