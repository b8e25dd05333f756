---------------------------- MODULE MCTransports ---------------------------
(* Transports on a small instance; see Transports.cfg and UsbReads.cfg.     *)
EXTENDS Transports

Device(model, serial, configs, active, claimed) ==
    [model |-> model, serial |-> serial, configs |-> configs, active |-> active, claimed |-> claimed]

\* A device in its initial mode, one already right and an alike one without a serial
\* that can be read, one that usbmuxd has.
MCBuses == {
    <<Device(1, 1, <<"mux", "mux", "other">>, 3, "none")>>,
    <<Device(1, 2, <<"mux", "mux">>, 1, "none"), Device(1, 0, <<"mux">>, 1, "none")>>,
    <<Device(2, 1, <<"other">>, 1, "none"), Device(1, 2, <<"other", "mux">>, 2, "usbmuxd"),
      Device(1, 3, <<"mux", "other">>, 0, "none")>> }

MCIds == {[model |-> 0, serial |-> 0], [model |-> 0, serial |-> 3], [model |-> 1, serial |-> 2]}
=============================================================================
