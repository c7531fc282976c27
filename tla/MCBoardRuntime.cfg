SPECIFICATION FairSpec
CONSTANTS
    Channels = {1}
    Threads = {"t1"}
    Callers = {"t1", "safe"}
    UserCommands = {"hv_on","hv_off","hv_on_and_wait","set_common","get_volt_thr","set_acquisition_configuration","get_power_state","hv_set_user_bad","hv_unset_user_bad","set_pmt_serials","hv_monitor_snapshot","feb_change_address"}
    MaxFaults = 1
    MaxEvents = 2
INVARIANTS BoardConsistent SafeMeansOff
PROPERTIES NothingHidden TripIsHandled
CHECK_DEADLOCK FALSE
