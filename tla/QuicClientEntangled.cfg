\* main's RegistrationClose against the reconnect thread's last close().
SPECIFICATION Spec
INVARIANT CloseSerialised
