----------------------------- MODULE MCUsbHost -----------------------------
(* UsbHost with a disk behind an audio interface, and with a malformed disk.  *)
EXTENDS UsbHost
MCDevices == {<<"known", "disk">>, <<"unknown", "malformed">>}
=============================================================================
