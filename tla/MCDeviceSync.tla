---------------------------- MODULE MCDeviceSync ----------------------------
\* One expense and one member, each created by this device or by others.
EXTENDS DeviceSync

CONSTANTS e, m, x, y, gone
=============================================================================
