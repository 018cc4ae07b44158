------------------------------ MODULE MCUsbPipe ------------------------------
(* Instances of UsbPipe for TLC: two full chunks, a stream that exceeds the device's
   buffers, a short batch. *)
EXTENDS UsbPipe

MCSizes == <<3, 3, 6, 1>>
=============================================================================
