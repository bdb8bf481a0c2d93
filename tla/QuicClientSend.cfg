\* send_packet() against close() in the reconnect thread.
SPECIFICATION Spec
INVARIANT SendsOnLiveHandle
