--------------------------- MODULE MCDeviceSearch ---------------------------
(* DeviceSearch with the constants of MCDeviceSearch.cfg. *)
EXTENDS DeviceSearch
=============================================================================
