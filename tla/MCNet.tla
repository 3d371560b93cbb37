------------------------------- MODULE MCNet -------------------------------
(* One package; devices from none of the statistics to two of them.        *)
EXTENDS NetSampler
CONSTANTS app1, root
OneUid     == {app1}
AllDevices == {{}, {"pinfile"}, {"uid_stat"}, {"xt_qtaguid", "bpf"}}
=============================================================================
